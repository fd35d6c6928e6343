-------------------------- MODULE PreparationProofs --------------------------
(***************************************************************************)
(* Proofs about the preparation of the netlist, for every netlist. Of      *)
(* StemLines: fanins and fanouts mirror each other at every step, the      *)
(* lines do not change the circuit, and in the end each stem has one line  *)
(* for each of its branches. Of TopoIndex: both walks of                   *)
(* Circuit::init_topo_index reach every gate and number it behind the      *)
(* gates it depends on, and Circuit::init_avg_dist counts every gate that  *)
(* reaches an output once, with the length of a shortest path.             *)
(***************************************************************************)
EXTENDS TopoIndex, InductionFacts, SequenceTheorems

\* The places of e in s; Count is their number.
Places(s, e) == {k \in DOMAIN s : s[k] = e}

LEMMA CountPlaces ==
  ASSUME NEW T, NEW s \in Seq(T), NEW e
  PROVE  /\ Count(s, e) = Cardinality(Places(s, e)) /\ IsFiniteSet(Places(s, e))
         /\ Count(s, e) \in Nat
<1>1. DOMAIN s = 1 .. Len(s) /\ Len(s) \in Nat
  OBVIOUS
<1>2. IsFiniteSet(1 .. Len(s))
  BY <1>1, FS_Interval
<1>3. Places(s, e) \in SUBSET (1 .. Len(s))
  BY <1>1 DEF Places
<1>4. IsFiniteSet(Places(s, e))
  BY <1>2, <1>3, FS_Subset
<1>5. Count(s, e) = Cardinality(Places(s, e))
  BY DEF Count, Places
<1> QED BY <1>4, <1>5, FS_CardinalityType

LEMMA CountEmpty == \A e : Count(<<>>, e) = 0
<1> SUFFICES ASSUME NEW e PROVE Count(<<>>, e) = 0
  OBVIOUS
<1>1. {k \in DOMAIN <<>> : <<>>[k] = e} = {}
  OBVIOUS
<1> QED BY <1>1, FS_EmptySet DEF Count

\* An element is in a sequence just when it is there at least once.
LEMMA CountPositive ==
  ASSUME NEW T, NEW s \in Seq(T), NEW e
  PROVE  Count(s, e) > 0 <=> \E k \in DOMAIN s : s[k] = e
<1>1. Count(s, e) = Cardinality(Places(s, e)) /\ IsFiniteSet(Places(s, e))
      /\ Count(s, e) \in Nat
  BY CountPlaces
<1>2. Count(s, e) = 0 <=> Places(s, e) = {}
  BY <1>1, FS_EmptySet
<1>3. Places(s, e) # {} <=> \E k \in DOMAIN s : s[k] = e
  BY DEF Places
<1> QED BY <1>1, <1>2, <1>3

\* A sequence adds up its parts.
LEMMA CountJoin ==
  ASSUME NEW T, NEW s \in Seq(T), NEW t \in Seq(T), NEW e
  PROVE  Count(s \o t, e) = Count(s, e) + Count(t, e)
<1> DEFINE n == Len(s)
           A == Places(s, e)
           B == Places(t, e)
           C == {k \in 1 .. Len(s \o t) : k > n /\ (s \o t)[k] = e}
<1>1. /\ s \o t \in Seq(T) /\ Len(s \o t) = n + Len(t)
      /\ n \in Nat /\ Len(t) \in Nat
      /\ \A k \in 1 .. n : (s \o t)[k] = s[k]
      /\ \A k \in 1 .. Len(t) : (s \o t)[n + k] = t[k]
      /\ DOMAIN s = 1 .. n /\ DOMAIN t = 1 .. Len(t)
      /\ DOMAIN (s \o t) = 1 .. Len(s \o t)
  BY ConcatProperties
<1>2. Places(s \o t, e) = A \cup C /\ A \cap C = {}
  BY <1>1 DEF Places
<1> DEFINE f == [k \in B |-> n + k]
<1>3. f \in Bijection(B, C)
  <2>1. \A k \in B : k \in 1 .. Len(t) /\ n + k \in C
    BY <1>1 DEF Places
  <2>2. \A c \in C : c - n \in B /\ n + (c - n) = c
    <3> SUFFICES ASSUME NEW c \in C PROVE c - n \in B /\ n + (c - n) = c
      OBVIOUS
    <3>1. c \in Nat /\ c > n /\ c <= n + Len(t) /\ (s \o t)[c] = e
      BY <1>1
    <3>2. c - n \in 1 .. Len(t) /\ n + (c - n) = c
      BY <1>1, <3>1
    <3>3. t[c - n] = e
      BY <1>1, <3>1, <3>2
    <3> QED BY <1>1, <3>2, <3>3 DEF Places
  <2>3. \A k, m \in B : f[k] = f[m] => k = m
    BY <1>1, <2>1
  <2>4. f \in [B -> C]
    BY <2>1
  <2>5. \A c \in C : \E k \in B : f[k] = c
    BY <2>2
  <2> HIDE DEF f, B, C
  <2> QED BY <2>3, <2>4, <2>5 DEF Bijection, Injection, Surjection, IsInjective
<1>4. /\ IsFiniteSet(A) /\ Count(s, e) = Cardinality(A)
      /\ IsFiniteSet(B) /\ Count(t, e) = Cardinality(B)
  BY CountPlaces
<1>5. Count(s \o t, e) = Cardinality(Places(s \o t, e))
  BY <1>1, CountPlaces
<1> HIDE DEF A, B, C, f
<1>6. IsFiniteSet(C) /\ Cardinality(C) = Cardinality(B)
  BY <1>3, <1>4, FS_Bijection DEF ExistsBijection
<1>7. /\ Cardinality(A \cup C) = Cardinality(A) + Cardinality(C) - Cardinality(A \cap C)
      /\ Cardinality(A \cap C) = 0
  BY <1>2, <1>4, <1>6, FS_Union, FS_EmptySet
<1>8. Cardinality(A) \in Nat /\ Cardinality(C) \in Nat
  BY <1>4, <1>6, FS_CardinalityType
<1> QED BY <1>2, <1>4, <1>5, <1>6, <1>7, <1>8

LEMMA CountOne ==
  ASSUME NEW x, NEW e
  PROVE  Count(<<x>>, e) = IF x = e THEN 1 ELSE 0
<1>1. {k \in DOMAIN <<x>> : <<x>>[k] = e} = IF x = e THEN {1} ELSE {}
  OBVIOUS
<1> QED BY <1>1, FS_EmptySet, FS_Singleton DEF Count

LEMMA CountAppend ==
  ASSUME NEW T, NEW s \in Seq(T), NEW x \in T, NEW e
  PROVE  Count(Append(s, x), e) = Count(s, e) + IF x = e THEN 1 ELSE 0
<1>1. Append(s, x) = s \o <<x>> /\ <<x>> \in Seq(T)
  OBVIOUS
<1>2. Count(s \o <<x>>, e) = Count(s, e) + Count(<<x>>, e)
  BY <1>1, CountJoin
<1> QED BY <1>1, <1>2, CountOne

\* e is in s.
Has(s, e) == \E k \in DOMAIN s : s[k] = e

\* s is a, then e, then b; and r is s without that e.
Splits(s, e, r, a, b) == s = a \o (<<e>> \o b) /\ r = a \o b

\* RemoveFirst takes one element out and keeps the others in place.
LEMMA RemoveFirstParts ==
  ASSUME NEW T, NEW s \in Seq(T), NEW e, Has(s, e)
  PROVE  \E a, b \in Seq(T) : Splits(s, e, RemoveFirst(s, e), a, b)
<1> DEFINE I == {k \in 1 .. Len(s) : s[k] = e}
           p == CHOOSE x \in I : \A y \in I : x <= y
           a == SubSeq(s, 1, p - 1)
           b == SubSeq(s, p + 1, Len(s))
<1>1. I # {} /\ I \in SUBSET Nat
  BY DEF Has
<1>2. p \in I
  <2> HIDE DEF I
  <2> QED BY <1>1, LeastNatural
<1>3. p \in 1 .. Len(s) /\ s[p] = e /\ Len(s) \in Nat
  BY <1>2
<1>4. RemoveFirst(s, e) = a \o b
  <2>1. \E k \in 1 .. Len(s) : s[k] = e
    BY DEF Has
  <2>2. SelectInSeq(s, LAMBDA v : v = e) = p
    BY <1>1 DEF SelectInSeq, Min
  <2> QED BY <2>1, <2>2 DEF RemoveFirst, RemoveAt
<1> HIDE DEF p
<1>5. a \in Seq(T) /\ b \in Seq(T)
  BY <1>3, SubSeqProperties
<1>6. s = a \o (<<e>> \o b)
  <2>1. SubSeq(s, p, Len(s)) = <<s[p]>> \o SubSeq(s, p + 1, Len(s))
    <3>1. Len(s) \in p .. Len(s)
      BY <1>3
    <3> QED BY <1>3, <3>1, SubSeqRecursiveFirst
  <2>2. PICK c : c = p - 1
    OBVIOUS
  <2>3. c \in 0 .. Len(s) /\ c + 1 = p
    BY <1>3, <2>2
  <2>4. SubSeq(s, 1, c) \o SubSeq(s, c + 1, Len(s)) = SubSeq(s, 1, Len(s))
    <3>1. 1 \in 1 .. Len(s) + 1 /\ c \in 1 - 1 .. Len(s) /\ Len(s) \in c .. Len(s)
      BY <1>3, <2>3
    <3> QED BY <3>1, ConcatAdjacentSubSeq, Zenon
  <2>5. SubSeq(s, 1, Len(s)) = s
    BY SubSeqFull, Zenon
  <2>6. SubSeq(s, 1, c) \o (<<s[p]>> \o SubSeq(s, p + 1, Len(s))) = s
    BY <2>1, <2>3, <2>4, <2>5, Zenon
  <2> QED BY <1>3, <2>2, <2>6, Zenon
<1> HIDE DEF a, b
<1> QED BY <1>4, <1>5, <1>6, Zenon DEF Splits

\* Taking out the first element leaves the rest.
LEMMA RemoveHead ==
  ASSUME NEW T, NEW s \in Seq(T), s # <<>>
  PROVE  RemoveFirst(s, s[1]) = Tail(s)
<1> DEFINE I == {k \in 1 .. Len(s) : s[k] = s[1]}
<1>1. Len(s) \in Nat /\ Len(s) >= 1 /\ 1 \in I /\ \A k \in I : 1 <= k
  OBVIOUS
<1>2. (CHOOSE x \in I : \A y \in I : x <= y) = 1
  <2>1. ASSUME NEW x \in I, \A y \in I : x <= y
        PROVE  x = 1
    <3>1. x \in Nat /\ x <= 1 /\ 1 <= x
      BY <1>1, <2>1
    <3> QED BY <3>1
  <2> QED BY <1>1, <2>1
<1>3. SelectInSeq(s, LAMBDA v : v = s[1]) = 1
  BY <1>1, <1>2 DEF SelectInSeq, Min
<1>4. \E k \in 1 .. Len(s) : s[k] = s[1]
  BY <1>1
<1>5. RemoveFirst(s, s[1]) = SubSeq(s, 1, 1 - 1) \o SubSeq(s, 1 + 1, Len(s))
  BY <1>3, <1>4 DEF RemoveFirst, RemoveAt
<1>6. SubSeq(s, 1, 1 - 1) = <<>>
  BY SubSeqEmpty
<1>7. SubSeq(s, 1 + 1, Len(s)) = Tail(s) /\ Tail(s) \in Seq(T)
  BY TailIsSubSeq, HeadTailProperties
<1> QED BY <1>5, <1>6, <1>7, ConcatEmptySeq

------------------------------------------------------------------------------
\* d gives each element of S one of T.
Maps(d, S, T) == d \in [S -> T]

\* What the elements of s are mapped to.
Through(d, s) == [k \in DOMAIN s |-> d[s[k]]]

LEMMA ThroughType ==
  ASSUME NEW S, NEW T, NEW d, Maps(d, S, T), NEW s \in Seq(S)
  PROVE  /\ Through(d, s) \in Seq(T) /\ Len(Through(d, s)) = Len(s)
         /\ \A k \in 1 .. Len(s) : Through(d, s)[k] = d[s[k]]
BY DEF Maps, Through

LEMMA ThroughJoin ==
  ASSUME NEW S, NEW T, NEW d, Maps(d, S, T), NEW s \in Seq(S), NEW t \in Seq(S)
  PROVE  Through(d, s \o t) = Through(d, s) \o Through(d, t)
<1>0. PICK st : st = s \o t
  OBVIOUS
<1>1. PICK a : a = Through(d, s)
  OBVIOUS
<1>2. PICK b : b = Through(d, t)
  OBVIOUS
<1>3. PICK ab : ab = a \o b
  OBVIOUS
<1>4. PICK c : c = Through(d, st)
  OBVIOUS
<1>5. PICK m \in Nat, n \in Nat : m = Len(s) /\ n = Len(t)
  OBVIOUS
<1>6. /\ st \in Seq(S) /\ Len(st) = m + n
      /\ \A k \in 1 .. m + n : st[k] = IF k <= m THEN s[k] ELSE t[k - m]
  BY <1>0, <1>5, ConcatProperties, Zenon
<1>7. a \in Seq(T) /\ Len(a) = m /\ \A k \in 1 .. m : a[k] = d[s[k]]
  <2>1. /\ Through(d, s) \in Seq(T) /\ Len(Through(d, s)) = Len(s)
        /\ \A k \in 1 .. Len(s) : Through(d, s)[k] = d[s[k]]
    BY ThroughType
  <2> QED BY <1>1, <1>5, <2>1
<1>8. b \in Seq(T) /\ Len(b) = n /\ \A k \in 1 .. n : b[k] = d[t[k]]
  <2>1. /\ Through(d, t) \in Seq(T) /\ Len(Through(d, t)) = Len(t)
        /\ \A k \in 1 .. Len(t) : Through(d, t)[k] = d[t[k]]
    BY ThroughType
  <2> QED BY <1>2, <1>5, <2>1
<1>9. c \in Seq(T) /\ Len(c) = m + n /\ \A k \in 1 .. m + n : c[k] = d[st[k]]
  <2>1. /\ Through(d, st) \in Seq(T) /\ Len(Through(d, st)) = Len(st)
        /\ \A k \in 1 .. Len(st) : Through(d, st)[k] = d[st[k]]
    <3>1. \A r \in Seq(S) : /\ Through(d, r) \in Seq(T) /\ Len(Through(d, r)) = Len(r)
                            /\ \A k \in 1 .. Len(r) : Through(d, r)[k] = d[r[k]]
      BY ThroughType
    <3> QED BY <1>6, <3>1, Zenon
  <2> QED BY <1>4, <1>6, <2>1
<1>10. /\ ab \in Seq(T) /\ Len(ab) = m + n
       /\ \A k \in 1 .. m + n : ab[k] = IF k <= m THEN a[k] ELSE b[k - m]
  <2>1. /\ a \o b \in Seq(T) /\ Len(a \o b) = Len(a) + Len(b)
        /\ \A k \in 1 .. Len(a) + Len(b) :
             (a \o b)[k] = IF k <= Len(a) THEN a[k] ELSE b[k - Len(a)]
    BY <1>7, <1>8, ConcatProperties, ZenonT(30)
  <2> QED BY <1>3, <1>7, <1>8, <2>1, Zenon
<1>11. ASSUME NEW k \in 1 .. m + n PROVE c[k] = ab[k]
  <2>1. CASE k <= m
    <3>1. k \in 1 .. m
      BY <2>1
    <3>2. c[k] = d[st[k]] /\ st[k] = s[k]
      BY <1>6, <1>9, <2>1, Zenon
    <3>3. ab[k] = a[k] /\ a[k] = d[s[k]]
      BY <1>7, <1>10, <2>1, <3>1, Zenon
    <3> QED BY <3>2, <3>3
  <2>2. CASE ~(k <= m)
    <3>1. k - m \in 1 .. n
      BY <2>2
    <3>2. c[k] = d[st[k]] /\ st[k] = t[k - m]
      BY <1>6, <1>9, <2>2, Zenon
    <3>3. ab[k] = b[k - m] /\ b[k - m] = d[t[k - m]]
      BY <1>8, <1>10, <2>2, <3>1, Zenon
    <3> QED BY <3>2, <3>3
  <2> QED BY <2>1, <2>2
<1>12. c = ab
  BY <1>9, <1>10, <1>11, SeqEqual, Zenon
<1> QED BY <1>0, <1>1, <1>2, <1>3, <1>4, <1>12

\* An element that is replaced by one with the same image, wherever the new one
\* stands, changes no count of the images.
LEMMA CountThroughReplaced ==
  ASSUME NEW S, NEW T, NEW d, Maps(d, S, T), NEW s \in Seq(S), NEW e \in S, NEW x \in S,
         Has(s, e), d[x] = d[e], NEW f
  PROVE  Count(Through(d, Append(RemoveFirst(s, e), x)), f) = Count(Through(d, s), f)
<1>0. \A y, z \in Seq(S) : Through(d, y \o z) = Through(d, y) \o Through(d, z)
  BY ThroughJoin
<1>c. \A y, z \in Seq(T) : Count(y \o z, f) = Count(y, f) + Count(z, f)
  BY CountJoin
<1>1. PICK a \in Seq(S), b \in Seq(S) : Splits(s, e, RemoveFirst(s, e), a, b)
  BY RemoveFirstParts, Zenon
<1>2. PICK one : one = <<e>>
  OBVIOUS
<1>3. PICK new : new = <<x>>
  OBVIOUS
<1>4. PICK img : img = <<d[e]>>
  OBVIOUS
<1>5. /\ one \in Seq(S) /\ new \in Seq(S) /\ img \in Seq(T)
      /\ Through(d, one) = img /\ Through(d, new) = img
  BY <1>2, <1>3, <1>4 DEF Maps, Through
<1>6. PICK eb : eb = one \o b
  OBVIOUS
<1>7. PICK ab : ab = a \o b
  OBVIOUS
<1>8. eb \in Seq(S) /\ ab \in Seq(S)
  BY <1>5, <1>6, <1>7, ConcatProperties, Zenon
<1>9. s = a \o eb /\ RemoveFirst(s, e) = ab
  BY <1>1, <1>2, <1>6, <1>7, Zenon DEF Splits
<1>10. Append(ab, x) = ab \o new
  BY <1>3, <1>8, AppendIsConcat
<1>11. PICK u : u = Through(d, a)
  OBVIOUS
<1>12. PICK v : v = Through(d, b)
  OBVIOUS
<1>13. u \in Seq(T) /\ v \in Seq(T)
  BY <1>11, <1>12, ThroughType, Zenon
<1>14. Through(d, eb) = img \o v /\ Through(d, ab) = u \o v
  <2>1. Through(d, one \o b) = Through(d, one) \o Through(d, b)
    BY <1>5, <1>0, Zenon
  <2>2. Through(d, a \o b) = Through(d, a) \o Through(d, b)
    BY <1>0, Zenon
  <2> QED BY <1>5, <1>6, <1>7, <1>11, <1>12, <2>1, <2>2
<1>15. Through(d, s) = u \o (img \o v)
  <2>1. Through(d, a \o eb) = Through(d, a) \o Through(d, eb)
    BY <1>8, <1>0, Zenon
  <2> QED BY <1>9, <1>11, <1>14, <2>1
<1>16. Through(d, ab \o new) = (u \o v) \o img
  <2>1. Through(d, ab \o new) = Through(d, ab) \o Through(d, new)
    BY <1>5, <1>8, <1>0, Zenon
  <2> QED BY <1>5, <1>14, <2>1
<1>17. u \o v \in Seq(T) /\ img \o v \in Seq(T)
  BY <1>5, <1>13, ConcatProperties, Zenon
<1>18. Count(u \o (img \o v), f) = Count(u, f) + Count(img \o v, f)
  BY <1>13, <1>17, <1>c, Zenon
<1>19. Count((u \o v) \o img, f) = Count(u \o v, f) + Count(img, f)
  <2>1. PICK uv \in Seq(T) : uv = u \o v
    BY <1>17
  <2>2. Count(uv \o img, f) = Count(uv, f) + Count(img, f)
    BY <1>5, <2>1, <1>c, Zenon
  <2> QED BY <2>1, <2>2
<1>20. Count(img \o v, f) = Count(img, f) + Count(v, f)
  BY <1>5, <1>13, <1>c, Zenon
<1>21. Count(u \o v, f) = Count(u, f) + Count(v, f)
  BY <1>13, <1>c, Zenon
<1>22. Count(u, f) \in Nat /\ Count(v, f) \in Nat /\ Count(img, f) \in Nat
  BY <1>5, <1>13, CountPlaces, Zenon
<1>23. Count(u, f) + (Count(img, f) + Count(v, f))
         = (Count(u, f) + Count(v, f)) + Count(img, f)
  BY <1>22
<1> QED BY <1>9, <1>10, <1>15, <1>16, <1>18, <1>19, <1>20, <1>21, <1>23, Zenon

\* What is left when one element is taken out.
LEMMA RemoveFirstCounts ==
  ASSUME NEW T, NEW s \in Seq(T), NEW e \in T, Has(s, e)
  PROVE  /\ RemoveFirst(s, e) \in Seq(T) /\ Len(RemoveFirst(s, e)) = Len(s) - 1
         /\ \A x : Count(RemoveFirst(s, e), x) = Count(s, x) - IF x = e THEN 1 ELSE 0
<1>1. PICK a \in Seq(T), b \in Seq(T) : Splits(s, e, RemoveFirst(s, e), a, b)
  BY RemoveFirstParts, Zenon
<1>2. PICK one : one = <<e>>
  OBVIOUS
<1>3. one \in Seq(T) /\ Len(one) = 1 /\ \A x : Count(one, x) = IF x = e THEN 1 ELSE 0
  BY <1>2, CountOne
<1>4. PICK eb : eb = one \o b
  OBVIOUS
<1>5. PICK ab : ab = a \o b
  OBVIOUS
<1>6. s = a \o eb /\ RemoveFirst(s, e) = ab
  BY <1>1, <1>2, <1>4, <1>5, Zenon DEF Splits
<1>7. eb \in Seq(T) /\ Len(eb) = Len(one) + Len(b)
  BY <1>3, <1>4, ConcatProperties, Zenon
<1>8. ab \in Seq(T) /\ Len(ab) = Len(a) + Len(b)
  BY <1>5, ConcatProperties, Zenon
<1>9. Len(s) = Len(a) + Len(eb)
  BY <1>6, <1>7, ConcatProperties, Zenon
<1>10. Len(ab) = Len(s) - 1
  <2>1. Len(a) \in Nat /\ Len(b) \in Nat
    OBVIOUS
  <2>2. PICK la \in Nat, lb \in Nat : la = Len(a) /\ lb = Len(b)
    BY <2>1
  <2>3. la + lb = (la + (1 + lb)) - 1
    OBVIOUS
  <2> QED BY <1>3, <1>7, <1>8, <1>9, <2>2, <2>3, Zenon
<1>11. ASSUME NEW x
       PROVE  Count(ab, x) = Count(s, x) - IF x = e THEN 1 ELSE 0
  <2>0. \A u, w \in Seq(T) : Count(u \o w, x) = Count(u, x) + Count(w, x)
    BY CountJoin
  <2>1. Count(ab, x) = Count(a, x) + Count(b, x)
    BY <1>5, <2>0, Zenon
  <2>2. Count(s, x) = Count(a, x) + Count(eb, x)
    BY <1>6, <1>7, <2>0, Zenon
  <2>3. Count(eb, x) = Count(one, x) + Count(b, x)
    BY <1>3, <1>4, <2>0, Zenon
  <2>4. Count(one, x) = IF x = e THEN 1 ELSE 0
    BY <1>3
  <2>5. Count(a, x) \in Nat /\ Count(b, x) \in Nat
    BY CountPlaces, Zenon
  <2> QED BY <2>1, <2>2, <2>3, <2>4, <2>5
<1> QED BY <1>6, <1>8, <1>10, <1>11, Zenon

------------------------------------------------------------------------------
\* The pins of a netlist, and those that read gate g.
PinsOf(n) == UNION {{h} \X DOMAIN n.ins[h] : h \in DOMAIN n.ins}

PinsReading(n, g) == {p \in PinsOf(n) : n.ins[p[1]][p[2]] = g}

LEMMA NetlistFacts ==
  ASSUME NEW n \in Netlists
  PROVE  /\ Len(n.ins) \in Nat /\ DOMAIN n.ins = 1 .. Len(n.ins)
         /\ \A h \in DOMAIN n.ins : n.ins[h] \in Seq(1 .. Len(n.ins)) /\ n.ins[h] \in Seq(Nat)
         /\ n.outs \in Seq(DOMAIN n.ins) /\ IsInjective(n.outs)
<1>1. n.ins \in Seq(Seq(Nat)) /\ n.outs \in Seq(DOMAIN n.ins) /\ IsInjective(n.outs)
      /\ \A g \in DOMAIN n.ins : Range(n.ins[g]) \subseteq 1 .. g - 1
  BY NetlistAssumption
<1>2. Len(n.ins) \in Nat /\ DOMAIN n.ins = 1 .. Len(n.ins)
  BY <1>1
<1>3. ASSUME NEW h \in DOMAIN n.ins
      PROVE  n.ins[h] \in Seq(1 .. Len(n.ins)) /\ n.ins[h] \in Seq(Nat)
  <2>1. PICK s \in Seq(Nat) : s = n.ins[h]
    BY <1>1, <1>2
  <2>2. Range(s) \subseteq 1 .. h - 1
    BY <1>1, <2>1
  <2>3. s \in Seq(Range(s))
    BY <2>1, SeqOfRange
  <2>4. 1 .. h - 1 \subseteq 1 .. Len(n.ins)
    BY <1>2
  <2>5. s \in Seq(1 .. Len(n.ins))
    BY <2>2, <2>3, <2>4, SeqMonotonic, Zenon
  <2> QED BY <2>1, <2>5
<1> QED BY <1>1, <1>2, <1>3

\* A sequence of m times h.
Copies(m, h) == [k \in 1 .. m |-> h]

LEMMA Repeated ==
  ASSUME NEW T, NEW h \in T, NEW m \in Nat
  PROVE  /\ Copies(m, h) \in Seq(T) /\ Len(Copies(m, h)) = m
         /\ \A x : Count(Copies(m, h), x) = IF x = h THEN m ELSE 0
<1> DEFINE s == [k \in 1 .. m |-> h]
<1>1. s \in Seq(T) /\ Len(s) = m /\ DOMAIN s = 1 .. m
  OBVIOUS
<1>3. Copies(m, h) = s
  BY DEF Copies
<1>2. ASSUME NEW x
      PROVE  Count(s, x) = IF x = h THEN m ELSE 0
  <2>1. {k \in DOMAIN s : s[k] = x} = IF x = h THEN 1 .. m ELSE {}
    OBVIOUS
  <2>2. Cardinality(1 .. m) = m /\ Cardinality({}) = 0
    <3>1. Cardinality(1 .. m) = IF 1 > m THEN 0 ELSE m - 1 + 1
      BY FS_Interval
    <3> QED BY <3>1, FS_EmptySet
  <2> HIDE DEF s
  <2> QED BY <2>1, <2>2 DEF Count
<1> HIDE DEF s
<1> QED BY <1>1, <1>2, <1>3

\* The readers of g: each gate as often as it reads g; one for each pin.
ReadersAre(n, g, s) ==
  /\ s \in Seq(DOMAIN n.ins)
  /\ \A h \in DOMAIN n.ins : Count(s, h) = Count(n.ins[h], g)
  /\ IsFiniteSet(PinsReading(n, g)) /\ Len(s) = Cardinality(PinsReading(n, g))

LEMMA ReadersHold ==
  ASSUME NEW n \in Netlists, NEW g
  PROVE  ReadersAre(n, g, Readers(n.ins, g))
<1>1. PICK M \in Nat : M = Len(n.ins) /\ DOMAIN n.ins = 1 .. M
  BY NetlistFacts
<1>2. PICK reads \in [1 .. M -> Nat] :
        \A h \in 1 .. M : /\ reads[h] = Count(n.ins[h], g)
                          /\ reads[h] = Cardinality(Places(n.ins[h], g))
                          /\ IsFiniteSet(Places(n.ins[h], g))
  <2>1. ASSUME NEW h \in 1 .. M
        PROVE  /\ Count(n.ins[h], g) \in Nat
               /\ Count(n.ins[h], g) = Cardinality(Places(n.ins[h], g))
               /\ IsFiniteSet(Places(n.ins[h], g))
    <3>1. n.ins[h] \in Seq(Nat)
      BY <1>1, NetlistFacts
    <3> QED BY <3>1, CountPlaces
  <2> DEFINE r == [h \in 1 .. M |-> Count(n.ins[h], g)]
  <2>2. r \in [1 .. M -> Nat] /\ \A h \in 1 .. M : r[h] = Count(n.ins[h], g)
    BY <2>1
  <2> HIDE DEF r
  <2> QED BY <2>1, <2>2
<1> DEFINE rows == [h \in 1 .. M |-> [k \in 1 .. reads[h] |-> h]]
<1>3. Readers(n.ins, g) = FlattenSeq(rows)
  <2>1. rows = [h \in DOMAIN n.ins |-> [k \in 1 .. Count(n.ins[h], g) |-> h]]
    BY <1>1, <1>2
  <2> QED BY <2>1 DEF Readers
<1>4. \A h \in 1 .. M : /\ rows[h] \in Seq(1 .. M) /\ Len(rows[h]) = reads[h]
                        /\ \A x : Count(rows[h], x) = IF x = h THEN reads[h] ELSE 0
  <2> SUFFICES ASSUME NEW h \in 1 .. M
               PROVE  /\ rows[h] \in Seq(1 .. M) /\ Len(rows[h]) = reads[h]
                      /\ \A x : Count(rows[h], x) = IF x = h THEN reads[h] ELSE 0
    OBVIOUS
  <2>1. PICK m \in Nat : m = reads[h]
    OBVIOUS
  <2>2. PICK T : T = 1 .. M /\ h \in T
    OBVIOUS
  <2>3. /\ Copies(m, h) \in Seq(T) /\ Len(Copies(m, h)) = m
        /\ \A x : Count(Copies(m, h), x) = IF x = h THEN m ELSE 0
    BY <2>2, Repeated
  <2>4. rows[h] = Copies(m, h)
    BY <2>1 DEF Copies
  <2> HIDE DEF rows
  <2> QED BY <2>1, <2>2, <2>3, <2>4, Zenon
<1>5. rows \in [1 .. M -> Seq(1 .. M)]
  <2>1. \A h \in 1 .. M : rows[h] \in Seq(1 .. M)
    BY <1>4, Zenon
  <2>2. rows = [h \in 1 .. M |-> rows[h]]
    OBVIOUS
  <2> HIDE DEF rows
  <2> QED BY <2>1, <2>2
<1> HIDE DEF rows
<1>6. PICK part \in [0 .. M -> Seq(1 .. M)] :
        /\ part[0] = <<>>
        /\ \A k \in 1 .. M : part[k] = part[k - 1] \o rows[k]
        /\ FlattenSeq(rows) = part[M]
  <2>1. PICK T : T = 1 .. M
    OBVIOUS
  <2>2. rows \in [1 .. M -> Seq(T)]
    BY <1>5, <2>1
  <2>3. \E part \in [0 .. M -> Seq(T)] :
          /\ part[0] = <<>>
          /\ \A k \in 1 .. M : part[k] = part[k - 1] \o rows[k]
          /\ FlattenSeq(rows) = part[M]
    BY <2>2, FlattenHolds, ZenonT(30)
  <2> QED BY <2>1, <2>3
<1> DEFINE R(k) == {p \in PinsReading(n, g) : p[1] <= k}
           Good(k) == /\ IsFiniteSet(R(k)) /\ Len(part[k]) = Cardinality(R(k))
                      /\ \A h \in 1 .. M :
                           Count(part[k], h) = IF h <= k THEN reads[h] ELSE 0
           B == {k \in Nat : k <= M => Good(k)}
<1>7. \A p \in PinsReading(n, g) : p[1] \in 1 .. M
  BY <1>1 DEF PinsReading, PinsOf
<1>8. 0 \in B
  <2>1. R(0) = {}
    BY <1>7
  <2>2. \A h \in 1 .. M : ~(h <= 0) /\ Count(part[0], h) = 0
    BY <1>6, CountEmpty
  <2>3. Len(part[0]) = 0
    BY <1>6
  <2> QED BY <2>1, <2>2, <2>3, FS_EmptySet
<1>9. ASSUME NEW k \in B PROVE k + 1 \in B
  <2>1. k \in Nat
    OBVIOUS
  <2> HIDE DEF Good
  <2> SUFFICES ASSUME k + 1 <= M PROVE Good(k + 1)
    BY <2>1
  <2> USE DEF Good
  <2>2. PICK m : m = k + 1
    OBVIOUS
  <2>3. m \in 1 .. M /\ k \in 0 .. M /\ m - 1 = k /\ m \in 0 .. M
    BY <2>1, <2>2
  <2>4. Good(k)
    BY <2>1, <2>3
  <2> DEFINE Q == {m} \X Places(n.ins[m], g)
  <2>5. R(m) = R(k) \cup Q /\ R(k) \cap Q = {}
    <3>1. \A p : p \in PinsOf(n) <=> \E h \in 1 .. M : p \in {h} \X DOMAIN n.ins[h]
      BY <1>1 DEF PinsOf
    <3>2. ASSUME NEW p \in R(m) PROVE p \in R(k) \cup Q
      <4>1. PICK h \in 1 .. M : p \in {h} \X DOMAIN n.ins[h]
        <5>1. p \in PinsOf(n)
          BY <3>2 DEF PinsReading
        <5> QED BY <3>1, <5>1, Zenon
      <4>2. p = <<h, p[2]>> /\ p[1] = h /\ p[2] \in DOMAIN n.ins[h] /\ n.ins[h][p[2]] = g
        <5>1. p = <<h, p[2]>> /\ p[1] = h /\ p[2] \in DOMAIN n.ins[h]
          BY <4>1
        <5>2. n.ins[p[1]][p[2]] = g
          BY <3>2 DEF PinsReading
        <5> QED BY <5>1, <5>2
      <4>3. CASE h <= k
        BY <3>2, <4>2, <4>3
      <4>4. CASE ~(h <= k)
        <5>1. h = m
          BY <2>1, <2>2, <3>2, <4>2, <4>4
        <5> QED BY <4>2, <5>1 DEF Places
      <4> QED BY <4>3, <4>4
    <3>3. ASSUME NEW p \in Q PROVE p \in R(m) /\ p \notin R(k)
      <4>1. p \in {m} \X DOMAIN n.ins[m] /\ p[1] = m /\ n.ins[p[1]][p[2]] = g
        BY DEF Places
      <4>2. p \in PinsReading(n, g)
        BY <2>3, <3>1, <4>1 DEF PinsReading
      <4> QED BY <2>1, <2>2, <2>3, <4>1, <4>2
    <3>4. \A p \in R(k) : p \in R(m)
      BY <1>7, <2>1, <2>2
    <3> QED BY <3>2, <3>3, <3>4
  <2>6. IsFiniteSet(Q) /\ Cardinality(Q) = reads[m]
    <3>1. IsFiniteSet({m}) /\ Cardinality({m}) = 1
      BY FS_Singleton
    <3>2. IsFiniteSet(Places(n.ins[m], g)) /\ Cardinality(Places(n.ins[m], g)) = reads[m]
      BY <1>2, <2>3
    <3>3. /\ IsFiniteSet({m} \X Places(n.ins[m], g))
          /\ Cardinality({m} \X Places(n.ins[m], g))
               = Cardinality({m}) * Cardinality(Places(n.ins[m], g))
      BY <3>1, <3>2, FS_Product
    <3>4. reads[m] \in Nat
      BY <2>3
    <3> QED BY <3>1, <3>2, <3>3, <3>4
  <2> HIDE DEF Q, R, B
  <2>7. IsFiniteSet(R(m)) /\ Cardinality(R(m)) = Cardinality(R(k)) + reads[m]
    <3>1. IsFiniteSet(R(k)) /\ Cardinality(R(k)) \in Nat /\ reads[m] \in Nat
      BY <2>3, <2>4, FS_CardinalityType
    <3>2. /\ IsFiniteSet(R(k) \cup Q)
          /\ Cardinality(R(k) \cup Q)
               = Cardinality(R(k)) + Cardinality(Q) - Cardinality(R(k) \cap Q)
      BY <2>6, <3>1, FS_Union
    <3>3. Cardinality(R(k) \cap Q) = 0
      BY <2>5, FS_EmptySet
    <3> QED BY <2>5, <2>6, <3>1, <3>2, <3>3
  <2>8. /\ part[m] = part[k] \o rows[m] /\ part[k] \in Seq(1 .. M) /\ rows[m] \in Seq(1 .. M)
        /\ Len(rows[m]) = reads[m]
        /\ \A x : Count(rows[m], x) = IF x = m THEN reads[m] ELSE 0
    BY <1>4, <1>6, <2>3
  <2>9. Len(part[m]) = Len(part[k]) + reads[m]
    <3>1. Len(part[k] \o rows[m]) = Len(part[k]) + Len(rows[m])
      BY <2>8, ConcatProperties, Zenon
    <3> QED BY <2>8, <3>1, Zenon
  <2>10. ASSUME NEW h \in 1 .. M
         PROVE  Count(part[m], h) = IF h <= m THEN reads[h] ELSE 0
    <3>1. Count(part[m], h) = Count(part[k], h) + Count(rows[m], h)
      BY <2>8, CountJoin
    <3>2. Count(part[k], h) = IF h <= k THEN reads[h] ELSE 0
      BY <2>4
    <3>3. reads[h] \in Nat /\ Count(rows[m], h) = IF h = m THEN reads[m] ELSE 0
      BY <2>8
    <3>4. h <= m <=> (h <= k \/ h = m)
      BY <2>1, <2>2
    <3>5. ~(m <= k)
      BY <2>1, <2>2
    <3> QED BY <3>1, <3>2, <3>3, <3>4, <3>5
  <2>11. Good(m)
    BY <2>4, <2>7, <2>9, <2>10
  <2> QED BY <2>2, <2>11
<1>10. Good(M)
  <2>1. B = Nat
    <3> HIDE DEF B
    <3>1. B \in SUBSET Nat
      BY DEF B
    <3> QED BY <1>8, <1>9, <3>1, InductionOverNat
  <2> HIDE DEF Good
  <2>2. M \in Nat /\ M <= M
    OBVIOUS
  <2> QED BY <2>1, <2>2
<1>11. R(M) = PinsReading(n, g)
  BY <1>7
<1>12. part[M] \in Seq(1 .. M) /\ Readers(n.ins, g) = part[M]
  BY <1>3, <1>6
<1>13. \A h \in 1 .. M : Count(part[M], h) = reads[h] /\ reads[h] = Count(n.ins[h], g)
  BY <1>2, <1>10
<1> QED BY <1>1, <1>10, <1>11, <1>12, <1>13 DEF ReadersAre

------------------------------------------------------------------------------
\* The inductive invariant. The gates of the file come first, lines follow.
Size == Len(file.ins)

Originals == 1 .. Size

\* What a gate is among n gates.
GateAmong(n) ==
  [type : {"INPUT", "GATE", "LINE"}, name : Seq(Nat), fanins : Seq(1 .. n),
   fanouts : Seq(1 .. n), isPO : BOOLEAN, is_stem : BOOLEAN]

Typed ==
  /\ pc \in {"gates", "branches", "done"}
  /\ file \in Netlists
  /\ Len(gates) \in Nat /\ gates \in Seq(GateAmong(Len(gates)))
  /\ Size <= Len(gates)
  /\ POs \in Seq(DOMAIN gates)
  /\ j \in 1 .. Size + 1
  /\ i = 1

\* A line stands between its stem and one reader, or one output.
LineBetween(r, n) ==
  /\ ~r.is_stem
  /\ Len(r.fanins) = 1 /\ r.fanins[1] \in 1 .. n
  /\ IF r.isPO THEN r.fanouts = <<>> ELSE Len(r.fanouts) = 1 /\ r.fanouts[1] \in 1 .. n

LinesFollow ==
  \A g \in DOMAIN gates : /\ IsLine(g) <=> g > Size
                          /\ g > Size => LineBetween(gates[g], Size)

SameStory ==
  \A g, h \in DOMAIN gates : Count(gates[g].fanouts, h) = Count(gates[h].fanins, g)

\* No connection is gained or lost.
LengthsKept ==
  /\ \A g \in Originals : Len(gates[g].fanins) = Len(file.ins[g])
  /\ \A g \in Originals :
       Len(gates[g].fanouts) + (IF gates[g].isPO THEN 1 ELSE 0) = Branches(g)
  /\ Len(POs) = Len(file.outs)

OutputsListed ==
  \A g \in DOMAIN gates : Count(POs, g) = IF gates[g].isPO THEN 1 ELSE 0

\* The gates the walk has passed, the one it is at, and those ahead.
Passed(g) ==
  /\ gates[g].is_stem <=> Branches(g) >= 2
  /\ IF gates[g].is_stem
     THEN ~gates[g].isPO /\ \A k \in DOMAIN gates[g].fanouts : gates[g].fanouts[k] > Size
     ELSE \A k \in DOMAIN gates[g].fanouts : gates[g].fanouts[k] <= Size

Ahead(g) ==
  ~gates[g].is_stem /\ \A k \in DOMAIN gates[g].fanouts : gates[g].fanouts[k] <= Size

\* The fanouts that are left come before the lines that were put in.
AtWork(g) ==
  /\ gates[g].is_stem /\ ~gates[g].isPO /\ Branches(g) >= 2
  /\ \A k, m \in DOMAIN gates[g].fanouts :
       k < m /\ gates[g].fanouts[m] <= Size => gates[g].fanouts[k] <= Size

Progress ==
  /\ \A g \in Originals :
       IF g < j THEN Passed(g)
       ELSE IF g = j /\ pc = "branches" THEN AtWork(g) ELSE Ahead(g)
  /\ pc = "branches" => j <= Size
  /\ pc = "done" => j > Size

IInv ==
  /\ Typed /\ LinesFollow /\ SameStory /\ SameCircuit
  /\ LengthsKept /\ OutputsListed /\ Progress

\* The fields of a gate.
LEMMA GateFields ==
  ASSUME NEW n \in Nat, NEW r \in GateAmong(n)
  PROVE  /\ r.type \in {"INPUT", "GATE", "LINE"} /\ r.name \in Seq(Nat)
         /\ r.fanins \in Seq(1 .. n) /\ r.fanouts \in Seq(1 .. n)
         /\ r.isPO \in BOOLEAN /\ r.is_stem \in BOOLEAN
         /\ r = [type |-> r.type, name |-> r.name, fanins |-> r.fanins,
                 fanouts |-> r.fanouts, isPO |-> r.isPO, is_stem |-> r.is_stem]
BY DEF GateAmong

\* There is room for one more gate.
LEMMA GateGrows ==
  ASSUME NEW n \in Nat, NEW r \in GateAmong(n)
  PROVE  r \in GateAmong(n + 1)
<1>1. 1 .. n \subseteq 1 .. n + 1
  OBVIOUS
<1>2. r.fanins \in Seq(1 .. n) /\ r.fanouts \in Seq(1 .. n)
  BY GateFields
<1>3. r.fanins \in Seq(1 .. n + 1) /\ r.fanouts \in Seq(1 .. n + 1)
  BY <1>1, <1>2, SeqMonotonic, Zenon
<1> QED BY <1>3 DEF GateAmong

\* What a gate becomes: new fanins, fanouts and flags.
Become(r, fi, fo, PO, st) ==
  [type |-> r.type, name |-> r.name, fanins |-> fi, fanouts |-> fo, isPO |-> PO, is_stem |-> st]

LEMMA BecomeType ==
  ASSUME NEW n \in Nat, NEW r \in GateAmong(n), NEW fi \in Seq(1 .. n + 1),
         NEW fo \in Seq(1 .. n + 1), NEW PO \in BOOLEAN, NEW st \in BOOLEAN
  PROVE  Become(r, fi, fo, PO, st) \in GateAmong(n + 1)
BY DEF GateAmong, Become

\* BranchLine, gate by gate: ng are the gates with the line.
BranchLineAdded(n, g, out, ng) ==
  /\ Len(ng) = n + 1 /\ ng = [h \in 1 .. n + 1 |-> ng[h]]
  /\ \A h \in 1 .. n :
       ng[h] = Become(gates[h],
                      IF h = out THEN Append(RemoveFirst(gates[h].fanins, g), n + 1)
                      ELSE gates[h].fanins,
                      IF h = g THEN Append(RemoveFirst(gates[h].fanouts, out), n + 1)
                      ELSE gates[h].fanouts,
                      gates[h].isPO, gates[h].is_stem)
  /\ ng[n + 1] = [type |-> "LINE", name |-> <<g, out>>, fanins |-> <<g>>,
                  fanouts |-> <<out>>, isPO |-> FALSE, is_stem |-> FALSE]

LEMMA BranchLineHolds ==
  ASSUME NEW n \in Nat, n = Len(gates), gates \in Seq(GateAmong(n)),
         NEW g \in 1 .. n, NEW out \in 1 .. n
  PROVE  BranchLineAdded(n, g, out, BranchLine(g, out))
<1> DEFINE line == [type |-> "LINE", name |-> <<g, out>>, fanins |-> <<g>>,
                    fanouts |-> <<out>>, isPO |-> FALSE, is_stem |-> FALSE]
           fo(h) == Append(RemoveFirst(gates[h].fanouts, out), n + 1)
           fi(h) == Append(RemoveFirst(gates[h].fanins, g), n + 1)
           w == [gates EXCEPT ![g].fanouts = fo(g)]
           v == [w EXCEPT ![out].fanins = Append(RemoveFirst(@, g), n + 1)]
<1>1. BranchLine(g, out) = Append(v, line)
  BY DEF BranchLine
<1>2. /\ DOMAIN gates = 1 .. n
      /\ \A h \in 1 .. n : gates[h] \in GateAmong(n)
  OBVIOUS
<1>3. ASSUME NEW h \in 1 .. n
      PROVE  /\ w[h] = Become(gates[h], gates[h].fanins,
                              IF h = g THEN fo(h) ELSE gates[h].fanouts,
                              gates[h].isPO, gates[h].is_stem)
             /\ w[h].fanins = gates[h].fanins
  <2> HIDE DEF fo
  <2>1. gates[h] = [type |-> gates[h].type, name |-> gates[h].name, fanins |-> gates[h].fanins,
                    fanouts |-> gates[h].fanouts, isPO |-> gates[h].isPO,
                    is_stem |-> gates[h].is_stem]
    BY <1>2, GateFields
  <2>2. CASE h = g
    <3>1. w[h] = [gates[h] EXCEPT !.fanouts = fo(h)]
      BY <1>2, <2>2
    <3> HIDE DEF w
    <3> QED BY <2>1, <2>2, <3>1 DEF Become
  <2>3. CASE h # g
    <3>1. w[h] = gates[h]
      BY <1>2, <2>3
    <3> HIDE DEF w
    <3> QED BY <2>1, <2>3, <3>1 DEF Become
  <2> QED BY <2>2, <2>3
<1>4. DOMAIN w = 1 .. n
  BY <1>2
<1> HIDE DEF w
<1>5. ASSUME NEW h \in 1 .. n
      PROVE  v[h] = Become(gates[h], IF h = out THEN fi(h) ELSE gates[h].fanins,
                           IF h = g THEN fo(h) ELSE gates[h].fanouts,
                           gates[h].isPO, gates[h].is_stem)
  <2>1. CASE h = out
    <3>1. v[h] = [w[h] EXCEPT !.fanins = Append(RemoveFirst(w[h].fanins, g), n + 1)]
      BY <1>4, <2>1
    <3>2. v[h] = [w[h] EXCEPT !.fanins = fi(h)]
      BY <1>3, <3>1
    <3> HIDE DEF v, fo, fi
    <3>3. PICK x : x = IF h = g THEN fo(h) ELSE gates[h].fanouts
      OBVIOUS
    <3>4. w[h] = Become(gates[h], gates[h].fanins, x, gates[h].isPO, gates[h].is_stem)
      BY <1>3, <3>3
    <3>5. PICK y : y = fi(h)
      OBVIOUS
    <3>6. v[h] = Become(gates[h], y, x, gates[h].isPO, gates[h].is_stem)
      BY <3>2, <3>4, <3>5 DEF Become
    <3> QED BY <2>1, <3>3, <3>5, <3>6
  <2>2. CASE h # out
    <3>1. v[h] = w[h]
      BY <1>4, <2>2
    <3> HIDE DEF v, fo, fi
    <3> QED BY <1>3, <2>2, <3>1
  <2> QED BY <2>1, <2>2
<1>6. DOMAIN v = 1 .. n
  BY <1>4
<1>7. v \in Seq({v[h] : h \in 1 .. n}) /\ Len(v) = n
  <2>1. v = [h \in 1 .. n |-> v[h]]
    BY <1>6
  <2> HIDE DEF v
  <2> QED BY <2>1, FunctionIsSeq, Zenon
<1> HIDE DEF v, line, fo, fi
<1>8. /\ Len(Append(v, line)) = n + 1 /\ Append(v, line)[n + 1] = line
      /\ \A h \in 1 .. n : Append(v, line)[h] = v[h]
  <2>1. PICK T : T = {v[h] : h \in 1 .. n}
    OBVIOUS
  <2>2. v \in Seq(T) /\ Len(v) = n
    BY <1>7, <2>1
  <2> QED BY <2>2, AppendAny
<1>9. Append(v, line) = [h \in 1 .. n + 1 |-> Append(v, line)[h]]
  BY <1>7, AppendIsFunction
<1> QED BY <1>1, <1>5, <1>8, <1>9 DEF fo, fi, line, BranchLineAdded

\* OutputLine, gate by gate.
OutputLineAdded(n, g, ng) ==
  /\ Len(ng) = n + 1 /\ ng = [h \in 1 .. n + 1 |-> ng[h]]
  /\ \A h \in 1 .. n :
       ng[h] = IF h = g
               THEN Become(gates[h], gates[h].fanins, Append(gates[h].fanouts, n + 1),
                           FALSE, TRUE)
               ELSE gates[h]
  /\ ng[n + 1] = [type |-> "LINE", name |-> <<g, 0>>, fanins |-> <<g>>,
                  fanouts |-> <<>>, isPO |-> TRUE, is_stem |-> FALSE]

LEMMA OutputLineHolds ==
  ASSUME NEW n \in Nat, n = Len(gates), gates \in Seq(GateAmong(n)), NEW g \in 1 .. n
  PROVE  OutputLineAdded(n, g, OutputLine(g))
<1> DEFINE line == [type |-> "LINE", name |-> <<g, 0>>, fanins |-> <<g>>,
                    fanouts |-> <<>>, isPO |-> TRUE, is_stem |-> FALSE]
           a == [gates EXCEPT ![g].is_stem = TRUE]
           b == [a EXCEPT ![g].isPO = FALSE]
           v == [b EXCEPT ![g].fanouts = Append(@, n + 1)]
<1>1. OutputLine(g) = Append(v, line)
  BY DEF OutputLine
<1>2. /\ DOMAIN gates = 1 .. n
      /\ \A h \in 1 .. n : gates[h] \in GateAmong(n)
  OBVIOUS
<1>3. DOMAIN v = 1 .. n
  BY <1>2
<1>4. ASSUME NEW h \in 1 .. n
      PROVE  v[h] = IF h = g
                    THEN Become(gates[h], gates[h].fanins, Append(gates[h].fanouts, n + 1),
                                FALSE, TRUE)
                    ELSE gates[h]
  <2>1. CASE h # g
    BY <1>2, <2>1
  <2>2. CASE h = g
    <3>1. gates[h] = [type |-> gates[h].type, name |-> gates[h].name,
                      fanins |-> gates[h].fanins, fanouts |-> gates[h].fanouts,
                      isPO |-> gates[h].isPO, is_stem |-> gates[h].is_stem]
      BY <1>2, GateFields
    <3>2. a[h] = [gates[h] EXCEPT !.is_stem = TRUE] /\ DOMAIN a = 1 .. n
      BY <1>2, <2>2
    <3> HIDE DEF a
    <3>3. PICK no, yes : no = FALSE /\ yes = TRUE
      OBVIOUS
    <3>4. a[h] = Become(gates[h], gates[h].fanins, gates[h].fanouts, gates[h].isPO, yes)
      BY <3>1, <3>2, <3>3 DEF Become
    <3>5. b[h] = [a[h] EXCEPT !.isPO = no] /\ DOMAIN b = 1 .. n
      BY <3>2, <3>3, <2>2
    <3> HIDE DEF b
    <3>6. b[h] = Become(gates[h], gates[h].fanins, gates[h].fanouts, no, yes)
      BY <3>4, <3>5 DEF Become
    <3>7. PICK x : x = Append(gates[h].fanouts, n + 1)
      OBVIOUS
    <3>8. v[h] = [b[h] EXCEPT !.fanouts = x]
      <4>1. b[h].fanouts = gates[h].fanouts
        BY <3>6 DEF Become
      <4> QED BY <2>2, <3>5, <3>7, <4>1
    <3> HIDE DEF v
    <3>9. v[h] = Become(gates[h], gates[h].fanins, x, no, yes)
      BY <3>6, <3>8 DEF Become
    <3> QED BY <2>2, <3>3, <3>7, <3>9
  <2> QED BY <2>1, <2>2
<1>5. v \in Seq({v[h] : h \in 1 .. n}) /\ Len(v) = n
  <2>1. v = [h \in 1 .. n |-> v[h]]
    BY <1>3
  <2> HIDE DEF v
  <2> QED BY <2>1, FunctionIsSeq, Zenon
<1> HIDE DEF v, line
<1>6. /\ Len(Append(v, line)) = n + 1 /\ Append(v, line)[n + 1] = line
      /\ \A h \in 1 .. n : Append(v, line)[h] = v[h]
  <2>1. PICK T : T = {v[h] : h \in 1 .. n}
    OBVIOUS
  <2>2. v \in Seq(T) /\ Len(v) = n
    BY <1>5, <2>1
  <2> QED BY <2>2, AppendAny
<1>7. Append(v, line) = [h \in 1 .. n + 1 |-> Append(v, line)[h]]
  BY <1>5, AppendIsFunction
<1> QED BY <1>1, <1>4, <1>6, <1>7 DEF line, OutputLineAdded

------------------------------------------------------------------------------
\* Gate r, field by field, against gate d with fanins fi and fanouts fo.
Now(r, d, fi, fo, PO, st) ==
  /\ r.type = d.type /\ r.name = d.name /\ r.fanins = fi /\ r.fanouts = fo /\ r.isPO = PO /\ r.is_stem = st

LEMMA BecomeIsNow ==
  ASSUME NEW d, NEW fi, NEW fo, NEW PO, NEW st
  PROVE  Now(Become(d, fi, fo, PO, st), d, fi, fo, PO, st)
BY DEF Become, Now

\* Branch puts a line between the gate j and its first fanout.
LineIn(n, out) ==
  /\ n \in Nat /\ Len(gates) = n /\ DOMAIN gates = 1 .. n /\ gates \in Seq(GateAmong(n))
  /\ Size \in Nat /\ Size <= n /\ j \in Originals /\ out \in Originals
  /\ out = gates[j].fanouts[1] /\ gates[j].fanouts # <<>>
  /\ Has(gates[j].fanouts, out) /\ Has(gates[out].fanins, j)
  /\ Len(gates') = n + 1 /\ DOMAIN gates' = 1 .. n + 1 /\ gates' \in Seq(GateAmong(n + 1))
  /\ \A h \in 1 .. n :
       Now(gates'[h], gates[h],
           IF h = out THEN Append(RemoveFirst(gates[h].fanins, j), n + 1) ELSE gates[h].fanins,
           IF h = j THEN Append(RemoveFirst(gates[h].fanouts, out), n + 1)
           ELSE gates[h].fanouts,
           gates[h].isPO, gates[h].is_stem)
  /\ gates'[n + 1] = [type |-> "LINE", name |-> <<j, out>>, fanins |-> <<j>>,
                      fanouts |-> <<out>>, isPO |-> FALSE, is_stem |-> FALSE]

LEMMA GatesTyped ==
  ASSUME Typed
  PROVE  /\ Len(gates) \in Nat /\ DOMAIN gates = 1 .. Len(gates)
         /\ Size \in Nat /\ DOMAIN file.ins = Originals /\ Originals \subseteq DOMAIN gates
         /\ gates \in Seq(GateAmong(Len(gates)))
         /\ \A g \in DOMAIN gates :
              /\ gates[g] \in GateAmong(Len(gates))
              /\ gates[g].fanins \in Seq(DOMAIN gates) /\ gates[g].fanouts \in Seq(DOMAIN gates)
              /\ gates[g].isPO \in BOOLEAN /\ gates[g].is_stem \in BOOLEAN
         /\ POs \in Seq(DOMAIN gates)
<1>1. PICK n \in Nat : n = Len(gates)
  BY DEF Typed
<1>2. gates \in Seq(GateAmong(n)) /\ DOMAIN gates = 1 .. n
  BY <1>1 DEF Typed
<1>3. \A g \in 1 .. n : gates[g] \in GateAmong(n)
  BY <1>2
<1>4. \A g \in 1 .. n : gates[g].fanins \in Seq(1 .. n) /\ gates[g].fanouts \in Seq(1 .. n)
                        /\ gates[g].isPO \in BOOLEAN /\ gates[g].is_stem \in BOOLEAN
  BY <1>3, GateFields
<1>5. Size \in Nat /\ DOMAIN file.ins = Originals
  BY NetlistFacts DEF Typed, Size, Originals
<1>6. Originals \subseteq 1 .. n
  BY <1>1, <1>5 DEF Typed, Originals
<1>7. POs \in Seq(1 .. n)
  BY <1>2 DEF Typed
<1> QED BY <1>1, <1>2, <1>3, <1>4, <1>5, <1>6, <1>7

LEMMA BranchIs ==
  ASSUME IInv, Branch
  PROVE  LineIn(Len(gates), gates[j].fanouts[1])
<1> DEFINE n == Len(gates)
           out == gates[j].fanouts[1]
<1>1. /\ n \in Nat /\ DOMAIN gates = 1 .. n /\ gates \in Seq(GateAmong(n))
      /\ Size \in Nat /\ Size <= n
      /\ \A g \in 1 .. n : /\ gates[g] \in GateAmong(n)
                           /\ gates[g].fanins \in Seq(1 .. n) /\ gates[g].fanouts \in Seq(1 .. n)
                           /\ gates[g].isPO \in BOOLEAN /\ gates[g].is_stem \in BOOLEAN
  BY GatesTyped DEF IInv, Typed
<1>2. /\ pc = "branches" /\ i = 1 /\ 1 <= Len(gates[j].fanouts) /\ ~IsLine(out)
      /\ gates' = BranchLine(j, out)
  BY DEF Branch, More, IInv, Typed
<1>3. j \in Originals /\ j \in 1 .. n
  BY <1>1, <1>2 DEF IInv, Progress, Typed, Originals
<1>4. gates[j].fanouts \in Seq(1 .. n)
  BY <1>1, <1>3
<1>5. 1 \in DOMAIN gates[j].fanouts /\ gates[j].fanouts # <<>> /\ out \in 1 .. n
  BY <1>2, <1>4
<1>6. out \in Originals
  BY <1>1, <1>2, <1>5 DEF IInv, LinesFollow, Originals
<1>7. Has(gates[j].fanouts, out)
  BY <1>5 DEF Has
<1>8. Has(gates[out].fanins, j)
  <2>1. Count(gates[j].fanouts, out) > 0
    BY <1>4, <1>7, CountPositive DEF Has
  <2>2. Count(gates[j].fanouts, out) = Count(gates[out].fanins, j)
    BY <1>1, <1>3, <1>5 DEF IInv, SameStory
  <2>3. gates[out].fanins \in Seq(1 .. n)
    BY <1>1, <1>5
  <2> QED BY <2>1, <2>2, <2>3, CountPositive DEF Has
<1> HIDE DEF n, out
<1>9. n = Len(gates)
  BY DEF n
<1>10. BranchLineAdded(n, j, out, gates')
  BY <1>1, <1>2, <1>3, <1>5, <1>9, BranchLineHolds
<1>11. \A h \in 1 .. n :
         Now(gates'[h], gates[h],
             IF h = out THEN Append(RemoveFirst(gates[h].fanins, j), n + 1)
             ELSE gates[h].fanins,
             IF h = j THEN Append(RemoveFirst(gates[h].fanouts, out), n + 1)
             ELSE gates[h].fanouts,
             gates[h].isPO, gates[h].is_stem)
  <2> SUFFICES ASSUME NEW h \in 1 .. n
               PROVE  Now(gates'[h], gates[h],
                          IF h = out THEN Append(RemoveFirst(gates[h].fanins, j), n + 1)
                          ELSE gates[h].fanins,
                          IF h = j THEN Append(RemoveFirst(gates[h].fanouts, out), n + 1)
                          ELSE gates[h].fanouts,
                          gates[h].isPO, gates[h].is_stem)
    OBVIOUS
  <2>1. PICK fi : fi = IF h = out THEN Append(RemoveFirst(gates[h].fanins, j), n + 1)
                       ELSE gates[h].fanins
    OBVIOUS
  <2>2. PICK fo : fo = IF h = j THEN Append(RemoveFirst(gates[h].fanouts, out), n + 1)
                       ELSE gates[h].fanouts
    OBVIOUS
  <2>3. gates'[h] = Become(gates[h], fi, fo, gates[h].isPO, gates[h].is_stem)
    BY <1>10, <2>1, <2>2, Zenon DEF BranchLineAdded
  <2>4. Now(gates'[h], gates[h], fi, fo, gates[h].isPO, gates[h].is_stem)
    BY <2>3, BecomeIsNow
  <2> QED BY <2>1, <2>2, <2>4
<1>12. 1 .. n \subseteq 1 .. n + 1 /\ n + 1 \in 1 .. n + 1
  BY <1>1
<1>13. ASSUME NEW h \in 1 .. n
       PROVE  gates'[h] \in GateAmong(n + 1)
  <2>1. gates[h].fanins \in Seq(1 .. n) /\ gates[h].fanouts \in Seq(1 .. n)
    BY <1>1
  <2>2. gates[h].fanins \in Seq(1 .. n + 1) /\ gates[h].fanouts \in Seq(1 .. n + 1)
    <3>1. \A t \in Seq(1 .. n) : t \in Seq(1 .. n + 1)
      BY <1>12, SeqMonotonic, Zenon
    <3> QED BY <2>1, <3>1
  <2>3. h = out => RemoveFirst(gates[h].fanins, j) \in Seq(1 .. n + 1)
    <3> SUFFICES ASSUME h = out PROVE RemoveFirst(gates[h].fanins, j) \in Seq(1 .. n + 1)
      OBVIOUS
    <3>1. RemoveFirst(gates[h].fanins, j) \in Seq(1 .. n)
      BY <1>3, <1>8, <2>1, RemoveFirstCounts
    <3> QED BY <1>12, <3>1, SeqMonotonic, Zenon
  <2>4. h = j => RemoveFirst(gates[h].fanouts, out) \in Seq(1 .. n + 1)
    <3> SUFFICES ASSUME h = j PROVE RemoveFirst(gates[h].fanouts, out) \in Seq(1 .. n + 1)
      OBVIOUS
    <3>1. RemoveFirst(gates[h].fanouts, out) \in Seq(1 .. n)
      BY <1>5, <1>7, <2>1, RemoveFirstCounts
    <3> QED BY <1>12, <3>1, SeqMonotonic, Zenon
  <2>5. PICK fi \in Seq(1 .. n + 1) :
          fi = IF h = out THEN Append(RemoveFirst(gates[h].fanins, j), n + 1)
               ELSE gates[h].fanins
    BY <1>12, <2>2, <2>3, AppendProperties
  <2>6. PICK fo \in Seq(1 .. n + 1) :
          fo = IF h = j THEN Append(RemoveFirst(gates[h].fanouts, out), n + 1)
               ELSE gates[h].fanouts
    BY <1>12, <2>2, <2>4, AppendProperties
  <2>7. gates'[h] = Become(gates[h], fi, fo, gates[h].isPO, gates[h].is_stem)
    BY <1>10, <2>5, <2>6, Zenon DEF BranchLineAdded
  <2>8. gates[h] \in GateAmong(n) /\ gates[h].isPO \in BOOLEAN /\ gates[h].is_stem \in BOOLEAN
    BY <1>1
  <2>9. Become(gates[h], fi, fo, gates[h].isPO, gates[h].is_stem) \in GateAmong(n + 1)
    BY <1>1, <2>5, <2>6, <2>8, BecomeType, Zenon
  <2> QED BY <2>7, <2>9
<1>14. gates'[n + 1] \in GateAmong(n + 1)
  <2>1. <<j>> \in Seq(1 .. n + 1) /\ <<out>> \in Seq(1 .. n + 1) /\ <<j, out>> \in Seq(Nat)
    BY <1>1, <1>3, <1>5
  <2> QED BY <1>10, <2>1 DEF GateAmong, BranchLineAdded
<1>15. /\ Len(gates') = n + 1 /\ DOMAIN gates' = 1 .. n + 1
       /\ gates' \in Seq(GateAmong(n + 1))
  <2>1. \A h \in 1 .. n + 1 : gates'[h] \in GateAmong(n + 1)
    <3>1. \A h \in 1 .. n + 1 : h \in 1 .. n \/ h = n + 1
      BY <1>1
    <3> QED BY <1>13, <1>14, <3>1
  <2>2. gates' = [h \in 1 .. n + 1 |-> gates'[h]]
    BY <1>10, Zenon DEF BranchLineAdded
  <2>3. PICK t : t = gates'
    OBVIOUS
  <2>4. t \in [1 .. n + 1 -> GateAmong(n + 1)]
    BY <2>1, <2>2, <2>3
  <2>5. n + 1 \in Nat
    BY <1>1
  <2> HIDE DEF GateAmong
  <2> QED BY <2>3, <2>4, <2>5
<1> QED
  BY <1>1, <1>2, <1>3, <1>5, <1>6, <1>7, <1>8, <1>9, <1>10, <1>11, <1>15
  DEF LineIn, BranchLineAdded, n, out

\* One element of a sequence replaced by another.
LEMMA ReplacedCounts ==
  ASSUME NEW n \in Nat, NEW s \in Seq(1 .. n), NEW e \in 1 .. n, Has(s, e)
  PROVE  /\ Len(Append(RemoveFirst(s, e), n + 1)) = Len(s)
         /\ \A x : Count(Append(RemoveFirst(s, e), n + 1), x)
                     = Count(s, x) - (IF x = e THEN 1 ELSE 0) + (IF x = n + 1 THEN 1 ELSE 0)
<1>1. PICK r : r = RemoveFirst(s, e)
  OBVIOUS
<1>2. /\ r \in Seq(1 .. n) /\ Len(r) = Len(s) - 1
      /\ \A x : Count(r, x) = Count(s, x) - IF x = e THEN 1 ELSE 0
  BY <1>1, RemoveFirstCounts
<1>3. 1 .. n \subseteq 1 .. n + 1 /\ n + 1 \in 1 .. n + 1
  OBVIOUS
<1>4. r \in Seq(1 .. n + 1)
  BY <1>2, <1>3, SeqMonotonic, Zenon
<1>5. Len(Append(r, n + 1)) = Len(r) + 1
  BY <1>3, <1>4, AppendProperties
<1>6. \A x : Count(Append(r, n + 1), x) = Count(r, x) + IF n + 1 = x THEN 1 ELSE 0
  BY <1>3, <1>4, CountAppend
<1>7. Len(s) \in Nat
  OBVIOUS
<1>8. ASSUME NEW x
      PROVE  Count(Append(r, n + 1), x)
               = Count(s, x) - (IF x = e THEN 1 ELSE 0) + (IF x = n + 1 THEN 1 ELSE 0)
  BY <1>2, <1>6
<1> QED BY <1>1, <1>2, <1>5, <1>7, <1>8

\* No gate of a sequence over 1 .. n is n + 1.
LEMMA CountBeyond ==
  ASSUME NEW n \in Nat, NEW s \in Seq(1 .. n)
  PROVE  Count(s, n + 1) = 0
<1>1. Count(s, n + 1) \in Nat /\ (Count(s, n + 1) > 0 <=> \E k \in DOMAIN s : s[k] = n + 1)
  BY CountPlaces, CountPositive
<1>2. \A k \in DOMAIN s : s[k] \in 1 .. n
  OBVIOUS
<1> QED BY <1>1, <1>2

\* Count now, from the count before, of x in a vector; in one that moved, an e was
\* replaced by n + 1.
Shifted(now, before, moved, x, e, n) ==
  now = IF moved THEN before - (IF x = e THEN 1 ELSE 0) + (IF x = n + 1 THEN 1 ELSE 0)
        ELSE before

\* What the line changes in the counts.
FanoutsMoved(n, out) ==
  \A h \in 1 .. n :
    /\ Len(gates'[h].fanouts) = Len(gates[h].fanouts)
    /\ \A x : Shifted(Count(gates'[h].fanouts, x), Count(gates[h].fanouts, x), h = j, x, out, n)

FaninsMoved(n, out) ==
  \A h \in 1 .. n :
    /\ Len(gates'[h].fanins) = Len(gates[h].fanins)
    /\ \A x : Shifted(Count(gates'[h].fanins, x), Count(gates[h].fanins, x), h = out, x, j, n)

LEMMA LineMovesCounts ==
  ASSUME Typed, NEW n, NEW out, LineIn(n, out)
  PROVE  FanoutsMoved(n, out) /\ FaninsMoved(n, out)
<1>1. /\ n \in Nat /\ j \in 1 .. n /\ out \in 1 .. n
      /\ Has(gates[j].fanouts, out) /\ Has(gates[out].fanins, j)
  BY DEF LineIn, Originals
<1>2. \A h \in 1 .. n : gates[h].fanins \in Seq(1 .. n) /\ gates[h].fanouts \in Seq(1 .. n)
  BY GatesTyped DEF LineIn
<1>3. ASSUME NEW h \in 1 .. n
      PROVE  /\ gates'[h].fanouts = IF h = j THEN Append(RemoveFirst(gates[h].fanouts, out), n + 1)
                                    ELSE gates[h].fanouts
             /\ gates'[h].fanins = IF h = out THEN Append(RemoveFirst(gates[h].fanins, j), n + 1)
                                   ELSE gates[h].fanins
  BY DEF LineIn, Now
<1>4. ASSUME NEW h \in 1 .. n
      PROVE  /\ Len(gates'[h].fanouts) = Len(gates[h].fanouts)
             /\ \A x : Shifted(Count(gates'[h].fanouts, x), Count(gates[h].fanouts, x), h = j, x, out, n)
  <2>1. CASE h = j
    <3>1. PICK s \in Seq(1 .. n) : s = gates[h].fanouts
      BY <1>2
    <3>2. Has(s, out)
      BY <1>1, <2>1, <3>1
    <3>3. /\ Len(Append(RemoveFirst(s, out), n + 1)) = Len(s)
          /\ \A x : Count(Append(RemoveFirst(s, out), n + 1), x)
                = Count(s, x) - (IF x = out THEN 1 ELSE 0) + (IF x = n + 1 THEN 1 ELSE 0)
      BY <1>1, <3>2, ReplacedCounts
    <3>4. gates'[h].fanouts = Append(RemoveFirst(s, out), n + 1)
      BY <1>3, <2>1, <3>1
    <3> QED BY <2>1, <3>1, <3>3, <3>4 DEF Shifted
  <2>2. CASE h # j
    BY <1>3, <2>2 DEF Shifted
  <2> QED BY <2>1, <2>2
<1>5. ASSUME NEW h \in 1 .. n
      PROVE  /\ Len(gates'[h].fanins) = Len(gates[h].fanins)
             /\ \A x : Shifted(Count(gates'[h].fanins, x), Count(gates[h].fanins, x), h = out, x, j, n)
  <2>1. CASE h = out
    <3>1. PICK s \in Seq(1 .. n) : s = gates[h].fanins
      BY <1>2
    <3>2. Has(s, j)
      BY <1>1, <2>1, <3>1
    <3>3. /\ Len(Append(RemoveFirst(s, j), n + 1)) = Len(s)
          /\ \A x : Count(Append(RemoveFirst(s, j), n + 1), x)
                = Count(s, x) - (IF x = j THEN 1 ELSE 0) + (IF x = n + 1 THEN 1 ELSE 0)
      BY <1>1, <3>2, ReplacedCounts
    <3>4. gates'[h].fanins = Append(RemoveFirst(s, j), n + 1)
      BY <1>3, <2>1, <3>1
    <3> QED BY <2>1, <3>1, <3>3, <3>4 DEF Shifted
  <2>2. CASE h # out
    BY <1>3, <2>2 DEF Shifted
  <2> QED BY <2>1, <2>2
<1> QED BY <1>4, <1>5 DEF FanoutsMoved, FaninsMoved

\* Fanins and fanouts still tell the same story.
LEMMA LineKeepsStory ==
  ASSUME Typed, SameStory, NEW n, NEW out, LineIn(n, out)
  PROVE  SameStory'
<1>1. /\ n \in Nat /\ j \in 1 .. n /\ out \in 1 .. n /\ j # n + 1 /\ out # n + 1
      /\ DOMAIN gates = 1 .. n /\ DOMAIN gates' = 1 .. n + 1
  BY DEF LineIn, Originals
<1>2. \A h \in 1 .. n : gates[h].fanins \in Seq(1 .. n) /\ gates[h].fanouts \in Seq(1 .. n)
  BY GatesTyped DEF LineIn
<1>3. \A g \in 1 .. n : \A x :
        /\ Shifted(Count(gates'[g].fanouts, x), Count(gates[g].fanouts, x), g = j, x, out, n)
        /\ Shifted(Count(gates'[g].fanins, x), Count(gates[g].fanins, x), g = out, x, j, n)
  <2>1. FanoutsMoved(n, out) /\ FaninsMoved(n, out)
    BY LineMovesCounts
  <2> QED BY <2>1, Zenon DEF FanoutsMoved, FaninsMoved
<1>4. \A h \in 1 .. n : /\ Count(gates[h].fanouts, n + 1) = 0
                        /\ Count(gates[h].fanins, n + 1) = 0
  BY <1>1, <1>2, CountBeyond
<1>5. \A x : /\ Count(gates'[n + 1].fanouts, x) = IF out = x THEN 1 ELSE 0
             /\ Count(gates'[n + 1].fanins, x) = IF j = x THEN 1 ELSE 0
  <2>1. gates'[n + 1].fanouts = <<out>> /\ gates'[n + 1].fanins = <<j>>
    BY DEF LineIn
  <2> QED BY <2>1, CountOne
<1>6. \A g, h \in 1 .. n : /\ Count(gates[g].fanouts, h) = Count(gates[h].fanins, g)
                           /\ Count(gates[g].fanouts, h) \in Nat
  <2>1. \A g, h \in 1 .. n : Count(gates[g].fanouts, h) = Count(gates[h].fanins, g)
    BY <1>1 DEF SameStory
  <2>2. \A g \in 1 .. n : \A h : Count(gates[g].fanouts, h) \in Nat
    BY <1>2, CountPlaces
  <2> QED BY <2>1, <2>2
<1>7. ASSUME NEW g \in 1 .. n + 1, NEW h \in 1 .. n + 1
      PROVE  Count(gates'[g].fanouts, h) = Count(gates'[h].fanins, g)
  <2>1. CASE g \in 1 .. n /\ h \in 1 .. n
    <3>1. g # n + 1 /\ h # n + 1
      BY <1>1, <2>1
    <3>2. Count(gates[g].fanouts, h) = Count(gates[h].fanins, g)
          /\ Count(gates[g].fanouts, h) \in Nat
      BY <1>6, <2>1
    <3>3. Count(gates'[g].fanouts, h) = IF g = j /\ h = out THEN Count(gates[g].fanouts, h) - 1
                                        ELSE Count(gates[g].fanouts, h)
      <4>1. Shifted(Count(gates'[g].fanouts, h), Count(gates[g].fanouts, h), g = j, h, out, n)
        BY <1>3, <2>1, Zenon
      <4> QED BY <3>1, <3>2, <4>1 DEF Shifted
    <3>4. Count(gates'[h].fanins, g) = IF g = j /\ h = out THEN Count(gates[h].fanins, g) - 1
                                       ELSE Count(gates[h].fanins, g)
      <4>1. Shifted(Count(gates'[h].fanins, g), Count(gates[h].fanins, g), h = out, g, j, n)
        BY <1>3, <2>1, Zenon
      <4> QED BY <3>1, <3>2, <4>1 DEF Shifted
    <3> QED BY <3>2, <3>3, <3>4
  <2>2. CASE g = n + 1 /\ h \in 1 .. n
    <3>1. Count(gates'[g].fanouts, h) = IF out = h THEN 1 ELSE 0
      BY <1>5, <2>2
    <3>2. Count(gates'[h].fanins, g) = IF h = out THEN 1 ELSE 0
      <4>1. Shifted(Count(gates'[h].fanins, g), Count(gates[h].fanins, g), h = out, g, j, n)
        BY <1>3, <2>2, Zenon
      <4>2. Count(gates[h].fanins, g) = 0
        BY <1>4, <2>2
      <4> QED BY <1>1, <2>2, <4>1, <4>2 DEF Shifted
    <3> QED BY <3>1, <3>2
  <2>3. CASE g \in 1 .. n /\ h = n + 1
    <3>1. Count(gates'[g].fanouts, h) = IF g = j THEN 1 ELSE 0
      <4>1. Shifted(Count(gates'[g].fanouts, h), Count(gates[g].fanouts, h), g = j, h, out, n)
        BY <1>3, <2>3, Zenon
      <4>2. Count(gates[g].fanouts, h) = 0
        BY <1>4, <2>3
      <4> QED BY <1>1, <2>3, <4>1, <4>2 DEF Shifted
    <3>2. Count(gates'[h].fanins, g) = IF j = g THEN 1 ELSE 0
      BY <1>5, <2>3
    <3> QED BY <3>1, <3>2
  <2>4. CASE g = n + 1 /\ h = n + 1
    BY <1>1, <1>5, <2>4
  <2>5. (g \in 1 .. n \/ g = n + 1) /\ (h \in 1 .. n \/ h = n + 1)
    BY <1>1
  <2> QED BY <2>1, <2>2, <2>3, <2>4, <2>5
<1> QED BY <1>1, <1>7 DEF SameStory

------------------------------------------------------------------------------
\* The driver of each gate.
DriverOf(gs) == [g \in DOMAIN gs |-> IF gs[g].type = "LINE" THEN gs[g].fanins[1] ELSE g]

LEMMA DriversType ==
  ASSUME Typed, LinesFollow
  PROVE  /\ Maps(DriverOf(gates), 1 .. Len(gates), 1 .. Len(gates))
         /\ \A g \in Originals : DriverOf(gates)[g] = g
<1>1. PICK n \in Nat : /\ n = Len(gates) /\ DOMAIN gates = 1 .. n
                       /\ Size \in Nat /\ Size <= n /\ Originals \subseteq 1 .. n
  BY GatesTyped DEF Typed
<1>2. ASSUME NEW g \in 1 .. n
      PROVE  IF IsLine(g) THEN gates[g].fanins[1] \in 1 .. n ELSE g \in 1 .. n
  BY <1>1 DEF LinesFollow, LineBetween
<1>3. DriverOf(gates) \in [1 .. n -> 1 .. n]
  BY <1>1, <1>2 DEF DriverOf, IsLine
<1>4. \A g \in Originals : ~IsLine(g)
  BY <1>1 DEF LinesFollow, Originals
<1>5. \A g \in Originals : DriverOf(gates)[g] = g
  BY <1>1, <1>4 DEF DriverOf, IsLine
<1> QED BY <1>1, <1>3, <1>5 DEF Maps

\* A line of the gate j was appended, the others keep their drivers.
LineAppended(n) ==
  /\ n \in Nat /\ Len(gates) = n /\ DOMAIN gates = 1 .. n /\ j \in Originals
  /\ DOMAIN gates' = 1 .. n + 1
  /\ \A h \in 1 .. n : /\ gates'[h].type = gates[h].type
                       /\ IsLine(h) => gates'[h].fanins = gates[h].fanins
  /\ gates'[n + 1].type = "LINE" /\ gates'[n + 1].fanins = <<j>>

LEMMA DriversExtended ==
  ASSUME Typed, LinesFollow, NEW n, LineAppended(n)
  PROVE  /\ Maps(DriverOf(gates), 1 .. n, 1 .. n)
         /\ Maps(DriverOf(gates'), 1 .. n + 1, 1 .. n + 1)
         /\ \A g \in 1 .. n : DriverOf(gates')[g] = DriverOf(gates)[g]
         /\ DriverOf(gates')[n + 1] = j /\ DriverOf(gates)[j] = j /\ j \in 1 .. n
<1>1. Maps(DriverOf(gates), 1 .. n, 1 .. n) /\ DriverOf(gates)[j] = j
  BY DriversType DEF LineAppended
<1>2. j \in 1 .. n /\ n \in Nat
  BY GatesTyped DEF LineAppended
<1>3. \A g \in 1 .. n : DriverOf(gates')[g] = DriverOf(gates)[g]
  <2> SUFFICES ASSUME NEW g \in 1 .. n PROVE DriverOf(gates')[g] = DriverOf(gates)[g]
    OBVIOUS
  <2>1. g \in DOMAIN gates /\ g \in DOMAIN gates'
    BY <1>2 DEF LineAppended
  <2>2. gates'[g].type = gates[g].type /\ (gates[g].type = "LINE" => gates'[g].fanins = gates[g].fanins)
    BY DEF LineAppended, IsLine
  <2> QED BY <2>1, <2>2 DEF DriverOf
<1>4. DriverOf(gates')[n + 1] = j
  <2>1. n + 1 \in DOMAIN gates'
    BY <1>2 DEF LineAppended
  <2> QED BY <2>1 DEF DriverOf, LineAppended
<1>5. DriverOf(gates') \in [1 .. n + 1 -> 1 .. n + 1]
  <2>1. \A g \in 1 .. n : DriverOf(gates)[g] \in 1 .. n
    BY <1>1 DEF Maps
  <2>2. \A g \in 1 .. n + 1 : DriverOf(gates')[g] \in 1 .. n + 1
    <3>1. \A g \in 1 .. n + 1 : g \in 1 .. n \/ g = n + 1
      BY <1>2
    <3> QED BY <1>2, <1>3, <1>4, <2>1, <3>1
  <2>3. DriverOf(gates') = [g \in 1 .. n + 1 |-> DriverOf(gates')[g]]
    BY DEF DriverOf, LineAppended
  <2> QED BY <2>2, <2>3
<1> QED BY <1>1, <1>2, <1>3, <1>4, <1>5 DEF Maps

\* Seen through the lines, a vector with the line in the place of its stem counts
\* as before.
LEMMA LineIsTransparent ==
  ASSUME Typed, LinesFollow, NEW n, LineAppended(n), NEW s \in Seq(1 .. n), NEW f
  PROVE  /\ Count(Through(DriverOf(gates'), s), f) = Count(Through(DriverOf(gates), s), f)
         /\ Has(s, j) => Count(Through(DriverOf(gates'), Append(RemoveFirst(s, j), n + 1)), f)
                           = Count(Through(DriverOf(gates), s), f)
<1>1. PICK d, e : d = DriverOf(gates) /\ e = DriverOf(gates')
  OBVIOUS
<1>2. /\ Maps(d, 1 .. n, 1 .. n) /\ Maps(e, 1 .. n + 1, 1 .. n + 1)
      /\ \A g \in 1 .. n : e[g] = d[g]
      /\ e[n + 1] = j /\ d[j] = j /\ j \in 1 .. n
  BY <1>1, DriversExtended
<1>3. n \in Nat /\ 1 .. n \subseteq 1 .. n + 1 /\ n + 1 \in 1 .. n + 1 /\ j \in 1 .. n + 1
  BY <1>2 DEF LineAppended
<1>4. s \in Seq(1 .. n + 1)
  BY <1>3, SeqMonotonic, Zenon
<1>5. Through(e, s) = Through(d, s)
  <2>1. \A k \in DOMAIN s : s[k] \in 1 .. n
    BY SeqElements
  <2>2. \A k \in DOMAIN s : e[s[k]] = d[s[k]]
    BY <1>2, <2>1
  <2> QED BY <2>2 DEF Through
<1>6. ASSUME Has(s, j)
      PROVE  Count(Through(e, Append(RemoveFirst(s, j), n + 1)), f) = Count(Through(e, s), f)
  <2>1. e[n + 1] = e[j]
    BY <1>2
  <2>2. PICK S : S = 1 .. n + 1
    OBVIOUS
  <2>3. Maps(e, S, S) /\ s \in Seq(S) /\ j \in S /\ n + 1 \in S
    BY <1>2, <1>3, <1>4, <2>2
  <2> QED BY <1>6, <2>1, <2>3, CountThroughReplaced
<1> QED BY <1>1, <1>5, <1>6

\* SameCircuit in terms of Through.
CircuitOf(gs, ps, fl) ==
  /\ \A g \in DOMAIN fl.ins, f \in DOMAIN fl.ins :
       Count(Through(DriverOf(gs), gs[g].fanins), f) = Count(fl.ins[g], f)
  /\ \A g \in DOMAIN fl.ins : Count(Through(DriverOf(gs), ps), g) = Count(fl.outs, g)

LEMMA ThroughDrivers ==
  ASSUME NEW s \in Seq(DOMAIN gates)
  PROVE  Drivers(s) = Through(DriverOf(gates), s)
BY DEF Drivers, Driver, IsLine, DriverOf, Through

LEMMA SameCircuitIs ==
  ASSUME POs \in Seq(DOMAIN gates), \A g \in DOMAIN file.ins : gates[g].fanins \in Seq(DOMAIN gates)
  PROVE  SameCircuit <=> CircuitOf(gates, POs, file)
<1>1. Drivers(POs) = Through(DriverOf(gates), POs)
  BY ThroughDrivers
<1>2. \A g \in DOMAIN file.ins :
        Drivers(gates[g].fanins) = Through(DriverOf(gates), gates[g].fanins)
  BY ThroughDrivers
<1> QED BY <1>1, <1>2 DEF SameCircuit, CircuitOf

LEMMA SameCircuitNext ==
  ASSUME POs' \in Seq(DOMAIN gates'),
         \A g \in DOMAIN file'.ins : gates'[g].fanins \in Seq(DOMAIN gates')
  PROVE  SameCircuit' <=> CircuitOf(gates', POs', file')
<1>1. ASSUME NEW s \in Seq(DOMAIN gates')
      PROVE  [k \in DOMAIN s |-> IF gates'[s[k]].type = "LINE" THEN gates'[s[k]].fanins[1]
                                 ELSE s[k]]
               = Through(DriverOf(gates'), s)
  BY DEF DriverOf, Through
<1>2. Drivers(POs)' = Through(DriverOf(gates'), POs')
  BY <1>1 DEF Drivers, Driver, IsLine
<1>3. \A g \in DOMAIN file'.ins :
        Drivers(gates[g].fanins)' = Through(DriverOf(gates'), gates'[g].fanins)
  <2> SUFFICES ASSUME NEW g \in DOMAIN file'.ins
               PROVE  Drivers(gates[g].fanins)' = Through(DriverOf(gates'), gates'[g].fanins)
    OBVIOUS
  <2> QED BY <1>1 DEF Drivers, Driver, IsLine
<1> QED BY <1>2, <1>3 DEF SameCircuit, CircuitOf

------------------------------------------------------------------------------
\* The step Branch.
LEMMA BranchKeepsTypes ==
  ASSUME IInv, NEW n, NEW out, LineIn(n, out), UNCHANGED <<pc, file, POs, j, i>>
  PROVE  Typed'
<1>1. n \in Nat /\ 1 .. n \subseteq 1 .. n + 1 /\ POs \in Seq(1 .. n)
  BY DEF LineIn, IInv, Typed
<1>2. POs \in Seq(1 .. n + 1)
  BY <1>1, SeqMonotonic, Zenon
<1>3. Size' = Size
  BY DEF Size
<1>4. Len(gates') = n + 1 /\ gates' \in Seq(GateAmong(n + 1)) /\ DOMAIN gates' = 1 .. n + 1
      /\ Size \in Nat /\ Size <= n
  BY DEF LineIn
<1>5. /\ pc' \in {"gates", "branches", "done"} /\ file' \in Netlists
      /\ j' \in 1 .. Size + 1 /\ i' = 1
  BY DEF IInv, Typed
<1>6. n + 1 \in Nat /\ Size <= n + 1
  BY <1>1, <1>4
<1> QED BY <1>2, <1>3, <1>4, <1>5, <1>6 DEF Typed

LEMMA BranchKeepsLines ==
  ASSUME IInv, NEW n, NEW out, LineIn(n, out), UNCHANGED file
  PROVE  LinesFollow'
<1>1. /\ n \in Nat /\ Size \in Nat /\ Size <= n /\ j \in 1 .. Size /\ out \in 1 .. Size
      /\ DOMAIN gates = 1 .. n /\ DOMAIN gates' = 1 .. n + 1
  BY DEF LineIn, Originals
<1>2. Size' = Size
  BY DEF Size
<1>3. ASSUME NEW g \in 1 .. n
      PROVE  /\ gates'[g].type = "LINE" <=> g > Size
             /\ g > Size => LineBetween(gates'[g], Size)
  <2>1. /\ gates[g].type = "LINE" <=> g > Size
        /\ g > Size => LineBetween(gates[g], Size)
    BY <1>1 DEF IInv, LinesFollow, IsLine
  <2>2. gates'[g].type = gates[g].type
    BY DEF LineIn, Now
  <2>3. ASSUME g > Size PROVE LineBetween(gates'[g], Size)
    <3>1. g # j /\ g # out
      BY <1>1, <2>3
    <3>2. /\ gates'[g].fanins = gates[g].fanins /\ gates'[g].fanouts = gates[g].fanouts
          /\ gates'[g].isPO = gates[g].isPO /\ gates'[g].is_stem = gates[g].is_stem
      BY <3>1 DEF LineIn, Now
    <3> QED BY <2>1, <2>3, <3>2 DEF LineBetween
  <2> QED BY <2>1, <2>2, <2>3
<1>4. /\ gates'[n + 1].type = "LINE" /\ n + 1 > Size
      /\ LineBetween(gates'[n + 1], Size)
  <2>1. gates'[n + 1] = [type |-> "LINE", name |-> <<j, out>>, fanins |-> <<j>>,
                         fanouts |-> <<out>>, isPO |-> FALSE, is_stem |-> FALSE]
    BY DEF LineIn
  <2> QED BY <1>1, <2>1 DEF LineBetween
<1>5. \A g \in 1 .. n + 1 : g \in 1 .. n \/ g = n + 1
  BY <1>1
<1> QED BY <1>1, <1>2, <1>3, <1>4, <1>5 DEF LinesFollow, IsLine

LEMMA BranchKeepsCircuit ==
  ASSUME IInv, NEW n, NEW out, LineIn(n, out), UNCHANGED <<file, POs>>, Typed'
  PROVE  SameCircuit'
<1>1. /\ n \in Nat /\ DOMAIN gates = 1 .. n /\ DOMAIN gates' = 1 .. n + 1
      /\ Has(gates[out].fanins, j)
  BY DEF LineIn
<1>2. /\ DOMAIN file.ins = Originals /\ Originals \subseteq 1 .. n
      /\ \A g \in 1 .. n : gates[g].fanins \in Seq(1 .. n)
      /\ POs \in Seq(1 .. n)
  BY <1>1, GatesTyped DEF IInv
<1>3. LineAppended(n)
  <2>1. \A h \in 1 .. n : gates'[h].type = gates[h].type
    BY DEF LineIn, Now
  <2>2. ASSUME NEW h \in 1 .. n, IsLine(h)
        PROVE  gates'[h].fanins = gates[h].fanins
    <3>0. out \in 1 .. n /\ ~(out > Size)
      <4>1. out \in Originals /\ Size \in Nat
        BY DEF LineIn
      <4>2. ~(out > Size)
        BY <4>1 DEF Originals
      <4> QED BY <1>2, <4>1, <4>2
    <3>1. h # out
      <4>1. ~IsLine(out)
        BY <1>1, <3>0 DEF IInv, LinesFollow
      <4> QED BY <2>2, <4>1
    <3> QED BY <3>1 DEF LineIn, Now
  <2>3. gates'[n + 1].type = "LINE" /\ gates'[n + 1].fanins = <<j>>
    BY DEF LineIn
  <2> QED BY <1>1, <2>1, <2>2, <2>3 DEF LineIn, LineAppended
<1>4. CircuitOf(gates, POs, file)
  BY <1>1, <1>2, SameCircuitIs DEF IInv
<1>5. \A s \in Seq(1 .. n) : \A f :
        /\ Count(Through(DriverOf(gates'), s), f) = Count(Through(DriverOf(gates), s), f)
        /\ Has(s, j) => Count(Through(DriverOf(gates'), Append(RemoveFirst(s, j), n + 1)), f)
                          = Count(Through(DriverOf(gates), s), f)
  BY <1>3, LineIsTransparent DEF IInv
<1>6. ASSUME NEW g \in Originals, NEW f \in Originals
      PROVE  Count(Through(DriverOf(gates'), gates'[g].fanins), f) = Count(file.ins[g], f)
  <2>1. g \in 1 .. n /\ gates[g].fanins \in Seq(1 .. n)
    BY <1>2
  <2>2. gates'[g].fanins = IF g = out THEN Append(RemoveFirst(gates[g].fanins, j), n + 1)
                           ELSE gates[g].fanins
    BY <2>1 DEF LineIn, Now
  <2>3. Count(Through(DriverOf(gates), gates[g].fanins), f) = Count(file.ins[g], f)
    BY <1>2, <1>4 DEF CircuitOf
  <2>4. CASE g = out
    <3>1. Has(gates[g].fanins, j)
      BY <1>1, <2>4
    <3> QED BY <1>5, <2>1, <2>2, <2>3, <2>4, <3>1
  <2>5. CASE g # out
    BY <1>5, <2>1, <2>2, <2>3, <2>5
  <2> QED BY <2>4, <2>5
<1>7. ASSUME NEW g \in Originals
      PROVE  Count(Through(DriverOf(gates'), POs), g) = Count(file.outs, g)
  <2>1. Count(Through(DriverOf(gates'), POs), g) = Count(Through(DriverOf(gates), POs), g)
    BY <1>2, <1>5, Zenon
  <2>2. Count(Through(DriverOf(gates), POs), g) = Count(file.outs, g)
    BY <1>2, <1>4 DEF CircuitOf
  <2> QED BY <2>1, <2>2, Zenon
<1>8. CircuitOf(gates', POs', file')
  BY <1>2, <1>6, <1>7 DEF CircuitOf
<1>9. POs' \in Seq(DOMAIN gates')
  BY DEF Typed
<1>10. \A g \in DOMAIN file'.ins : gates'[g].fanins \in Seq(DOMAIN gates')
  <2>1. \A g \in 1 .. n + 1 : gates'[g] \in GateAmong(n + 1)
    BY <1>1 DEF LineIn
  <2>2. \A g \in 1 .. n + 1 : gates'[g].fanins \in Seq(1 .. n + 1)
    BY <1>1, <2>1, GateFields
  <2>3. DOMAIN file'.ins \subseteq 1 .. n + 1
    BY <1>1, <1>2
  <2> QED BY <1>1, <2>2, <2>3
<1> QED BY <1>8, <1>9, <1>10, SameCircuitNext

LEMMA BranchKeepsLengths ==
  ASSUME IInv, NEW n, NEW out, LineIn(n, out), UNCHANGED <<file, POs>>
  PROVE  LengthsKept' /\ OutputsListed'
<1>1. /\ n \in Nat /\ DOMAIN gates = 1 .. n /\ DOMAIN gates' = 1 .. n + 1
      /\ POs \in Seq(1 .. n) /\ Originals \subseteq 1 .. n
  BY GatesTyped DEF LineIn, IInv
<1>2. Originals' = Originals /\ \A g : Branches(g)' = Branches(g)
  BY DEF Originals, Size, Branches, Pins
<1>3. \A g \in 1 .. n : /\ Len(gates'[g].fanins) = Len(gates[g].fanins)
                        /\ Len(gates'[g].fanouts) = Len(gates[g].fanouts)
                        /\ gates'[g].isPO = gates[g].isPO
  <2>1. FanoutsMoved(n, out) /\ FaninsMoved(n, out)
    BY LineMovesCounts DEF IInv
  <2>2. \A g \in 1 .. n : gates'[g].isPO = gates[g].isPO
    BY DEF LineIn, Now
  <2> QED BY <2>1, <2>2 DEF FanoutsMoved, FaninsMoved
<1>4. LengthsKept'
  BY <1>1, <1>2, <1>3 DEF IInv, LengthsKept
<1>5. \A g \in 1 .. n : Count(POs, g) = IF gates'[g].isPO THEN 1 ELSE 0
  BY <1>1, <1>3 DEF IInv, OutputsListed
<1>6. Count(POs, n + 1) = 0 /\ gates'[n + 1].isPO = FALSE
  BY <1>1, CountBeyond DEF LineIn
<1>7. \A g \in 1 .. n + 1 : g \in 1 .. n \/ g = n + 1
  BY <1>1
<1>8. OutputsListed'
  BY <1>1, <1>5, <1>6, <1>7 DEF OutputsListed
<1> QED BY <1>4, <1>8

LEMMA BranchKeepsProgress ==
  ASSUME IInv, NEW n, NEW out, LineIn(n, out), pc = "branches", UNCHANGED <<pc, file, j>>
  PROVE  Progress'
<1>1. /\ n \in Nat /\ DOMAIN gates = 1 .. n /\ Originals \subseteq 1 .. n
      /\ Size \in Nat /\ Size <= n /\ j \in Originals
      /\ out = gates[j].fanouts[1] /\ gates[j].fanouts # <<>>
      /\ \A h \in 1 .. n : gates[h].fanouts \in Seq(1 .. n)
  BY GatesTyped DEF LineIn, IInv
<1>2. Originals' = Originals /\ Size' = Size /\ \A g : Branches(g)' = Branches(g)
  BY DEF Originals, Size, Branches, Pins
<1>3. \A g \in 1 .. n : /\ gates'[g].isPO = gates[g].isPO
                        /\ gates'[g].is_stem = gates[g].is_stem
                        /\ g # j => gates'[g].fanouts = gates[g].fanouts
  BY DEF LineIn, Now
<1>4. ASSUME NEW g \in Originals, g < j
      PROVE  Passed(g)'
  <2>1. Passed(g)
    BY <1>4 DEF IInv, Progress
  <2>2. g # j /\ g \in 1 .. n
    BY <1>1, <1>4 DEF Originals
  <2> QED BY <1>2, <1>3, <2>1, <2>2 DEF Passed
<1>5. ASSUME NEW g \in Originals, ~(g < j), g # j
      PROVE  Ahead(g)'
  <2>1. Ahead(g)
    BY <1>5 DEF IInv, Progress
  <2> QED BY <1>1, <1>2, <1>3, <1>5, <2>1 DEF Ahead
<1>6. AtWork(j)'
  <2>1. AtWork(j)
    BY <1>1 DEF IInv, Progress, Originals
  <2>2. PICK s \in Seq(1 .. n) : s = gates[j].fanouts
    BY <1>1
  <2>3. PICK t : t = Tail(s)
    OBVIOUS
  <2>4. PICK m \in Nat : m = Len(s)
    BY <2>2
  <2>5. /\ t \in Seq(1 .. n) /\ Len(t) = m - 1 /\ m >= 1
        /\ \A k \in 1 .. m - 1 : t[k] = s[k + 1]
    <3>1. s # <<>>
      BY <1>1, <2>2
    <3>2. Tail(s) \in Seq(1 .. n) /\ Len(Tail(s)) = Len(s) - 1
          /\ \A k \in 1 .. Len(Tail(s)) : Tail(s)[k] = s[k + 1]
      BY <3>1, HeadTailProperties
    <3>3. Len(t) \in Nat
      BY <2>3, <3>2
    <3> QED BY <2>3, <2>4, <3>2, <3>3
  <2>6. gates'[j].fanouts = Append(t, n + 1)
    <3>1. gates'[j].fanouts = Append(RemoveFirst(s, s[1]), n + 1)
      BY <1>1, <2>2 DEF LineIn, Now
    <3>2. RemoveFirst(s, s[1]) = t
      BY <1>1, <2>2, <2>3, RemoveHead
    <3> QED BY <3>1, <3>2
  <2>7. PICK u : u = gates'[j].fanouts
    OBVIOUS
  <2>8. /\ DOMAIN u = 1 .. m /\ u[m] = n + 1
        /\ \A k \in 1 .. m - 1 : u[k] = s[k + 1]
    <3>1. t \in Seq(1 .. n + 1)
      <4>1. 1 .. n \subseteq 1 .. n + 1
        BY <1>1
      <4> QED BY <2>5, <4>1, SeqMonotonic, Zenon
    <3>2. n + 1 \in 1 .. n + 1
      BY <1>1
    <3>3. /\ Append(t, n + 1) \in Seq(1 .. n + 1) /\ Len(Append(t, n + 1)) = Len(t) + 1
          /\ \A k \in 1 .. Len(t) : Append(t, n + 1)[k] = t[k]
          /\ Append(t, n + 1)[Len(t) + 1] = n + 1
      BY <3>1, <3>2, AppendProperties
    <3>4. (m - 1) + 1 = m
      OBVIOUS
    <3>5. DOMAIN u = 1 .. Len(u)
      BY <2>6, <2>7, <3>3, SeqElements
    <3> QED BY <2>5, <2>6, <2>7, <3>3, <3>4, <3>5
  <2>9. \A k, l \in 1 .. m : k < l /\ s[l] <= Size => s[k] <= Size
    BY <2>1, <2>2, <2>4 DEF AtWork
  <2>10. ASSUME NEW k \in 1 .. m, NEW l \in 1 .. m, k < l, u[l] <= Size
         PROVE  u[k] <= Size
    <3>1. ~(n + 1 <= Size)
      BY <1>1
    <3>2. l # m
      BY <2>8, <2>10, <3>1
    <3>3. l \in 1 .. m - 1 /\ k \in 1 .. m - 1 /\ k + 1 \in 1 .. m /\ l + 1 \in 1 .. m
          /\ k + 1 < l + 1
      BY <2>10, <3>2
    <3> QED BY <2>8, <2>9, <2>10, <3>3
  <2>11. j \in 1 .. n
    BY <1>1
  <2> QED BY <1>2, <1>3, <2>1, <2>7, <2>8, <2>10, <2>11 DEF AtWork
<1>7. j' = j /\ pc' = "branches" /\ j <= Size
  BY <1>1 DEF Originals
<1> QED BY <1>2, <1>4, <1>5, <1>6, <1>7 DEF Progress

LEMMA BranchKeepsIInv ==
  ASSUME IInv, Branch
  PROVE  IInv'
<1>1. /\ pc = "branches" /\ UNCHANGED <<pc, file, POs, j, i>>
  BY DEF Branch
<1>2. PICK n, out : LineIn(n, out)
  BY BranchIs
<1>3. Typed'
  BY <1>1, <1>2, BranchKeepsTypes
<1>4. LinesFollow'
  BY <1>1, <1>2, BranchKeepsLines
<1>5. SameStory'
  BY <1>2, LineKeepsStory DEF IInv
<1>6. SameCircuit'
  BY <1>1, <1>2, <1>3, BranchKeepsCircuit
<1>7. LengthsKept' /\ OutputsListed'
  BY <1>1, <1>2, BranchKeepsLengths
<1>8. Progress'
  BY <1>1, <1>2, BranchKeepsProgress
<1> QED BY <1>3, <1>4, <1>5, <1>6, <1>7, <1>8 DEF IInv

------------------------------------------------------------------------------
\* The step Enter at an output: a line takes the output over.
OutputLineIn(n) ==
  /\ n \in Nat /\ Len(gates) = n /\ DOMAIN gates = 1 .. n
  /\ Size \in Nat /\ Size <= n /\ j \in Originals /\ gates[j].isPO
  /\ Has(POs, j) /\ POs \in Seq(1 .. n) /\ POs' = Append(RemoveFirst(POs, j), n + 1)
  /\ Len(gates') = n + 1 /\ DOMAIN gates' = 1 .. n + 1 /\ gates' \in Seq(GateAmong(n + 1))
  /\ \A h \in 1 .. n : h # j => gates'[h] = gates[h]
  /\ Now(gates'[j], gates[j], gates[j].fanins, Append(gates[j].fanouts, n + 1), FALSE, TRUE)
  /\ gates'[n + 1] = [type |-> "LINE", name |-> <<j, 0>>, fanins |-> <<j>>,
                      fanouts |-> <<>>, isPO |-> TRUE, is_stem |-> FALSE]

LEMMA EnterOutputIs ==
  ASSUME IInv, Enter, gates[j].isPO
  PROVE  OutputLineIn(Len(gates))
<1>1. PICK n \in Nat : n = Len(gates) /\ DOMAIN gates = 1 .. n
  BY GatesTyped DEF IInv
<1>2. /\ gates \in Seq(GateAmong(n)) /\ POs \in Seq(1 .. n) /\ Size \in Nat /\ Size <= n
      /\ \A g \in 1 .. n : /\ gates[g] \in GateAmong(n)
                           /\ gates[g].fanins \in Seq(1 .. n) /\ gates[g].fanouts \in Seq(1 .. n)
                           /\ gates[g].isPO \in BOOLEAN /\ gates[g].is_stem \in BOOLEAN
  BY <1>1, GatesTyped DEF IInv, Typed
<1>3. /\ gates' = OutputLine(j) /\ POs' = Append(RemoveFirst(POs, j), n + 1)
      /\ j <= n /\ ~IsLine(j)
  BY <1>1 DEF Enter, Walking
<1>4. j \in 1 .. n /\ j \in Originals
  <2>1. j \in 1 .. n
    BY <1>1, <1>3 DEF IInv, Typed
  <2> QED BY <1>1, <1>2, <1>3, <2>1 DEF IInv, LinesFollow, Originals
<1>5. Has(POs, j)
  <2>1. Count(POs, j) = 1
    BY <1>1, <1>4 DEF IInv, OutputsListed
  <2>2. Count(POs, j) > 0 <=> \E k \in DOMAIN POs : POs[k] = j
    BY <1>2, CountPositive
  <2> QED BY <2>1, <2>2 DEF Has
<1>6. OutputLineAdded(n, j, gates')
  BY <1>1, <1>2, <1>3, <1>4, OutputLineHolds
<1>7. 1 .. n \subseteq 1 .. n + 1 /\ n + 1 \in 1 .. n + 1
  BY <1>1
<1>8. \A h \in 1 .. n : h # j => gates'[h] = gates[h]
  BY <1>6 DEF OutputLineAdded
<1>9. gates'[j] = Become(gates[j], gates[j].fanins, Append(gates[j].fanouts, n + 1), FALSE, TRUE)
  BY <1>4, <1>6 DEF OutputLineAdded
<1>10. Now(gates'[j], gates[j], gates[j].fanins, Append(gates[j].fanouts, n + 1), FALSE, TRUE)
  BY <1>9, BecomeIsNow
<1>11. gates'[j] \in GateAmong(n + 1)
  <2>1. PICK fi \in Seq(1 .. n), s \in Seq(1 .. n) : fi = gates[j].fanins /\ s = gates[j].fanouts
    BY <1>2, <1>4
  <2>2. fi \in Seq(1 .. n + 1) /\ s \in Seq(1 .. n + 1)
    <3>1. \A t \in Seq(1 .. n) : t \in Seq(1 .. n + 1)
      BY <1>7, SeqMonotonic, Zenon
    <3> QED BY <2>1, <3>1
  <2>3. PICK fo \in Seq(1 .. n + 1) : fo = Append(s, n + 1)
    BY <1>7, <2>2, AppendProperties
  <2>4. gates'[j] = Become(gates[j], fi, fo, FALSE, TRUE)
    BY <1>9, <2>1, <2>3
  <2>5. gates[j] \in GateAmong(n)
    BY <1>2, <1>4
  <2>6. \A x, y \in BOOLEAN : Become(gates[j], fi, fo, x, y) \in GateAmong(n + 1)
    BY <1>1, <2>2, <2>3, <2>5, BecomeType, Zenon
  <2> QED BY <2>4, <2>6
<1>12. gates'[n + 1] \in GateAmong(n + 1)
  <2>1. <<j>> \in Seq(1 .. n + 1) /\ <<>> \in Seq(1 .. n + 1) /\ <<j, 0>> \in Seq(Nat)
    BY <1>4
  <2> QED BY <1>6, <2>1 DEF GateAmong, OutputLineAdded
<1>13. /\ Len(gates') = n + 1 /\ DOMAIN gates' = 1 .. n + 1
       /\ gates' \in Seq(GateAmong(n + 1))
  <2>1. \A h \in 1 .. n + 1 : gates'[h] \in GateAmong(n + 1)
    <3>1. \A h \in 1 .. n + 1 : h \in 1 .. n \/ h = n + 1
      BY <1>1
    <3>2. ASSUME NEW h \in 1 .. n, h # j PROVE gates'[h] \in GateAmong(n + 1)
      BY <1>2, <1>8, <3>2, GateGrows
    <3> QED BY <1>11, <1>12, <3>1, <3>2
  <2>2. gates' = [h \in 1 .. n + 1 |-> gates'[h]]
    BY <1>6, Zenon DEF OutputLineAdded
  <2>3. PICK t : t = gates'
    OBVIOUS
  <2>4. t \in [1 .. n + 1 -> GateAmong(n + 1)]
    BY <2>1, <2>2, <2>3
  <2>5. n + 1 \in Nat
    BY <1>1
  <2> HIDE DEF GateAmong
  <2> QED BY <2>3, <2>4, <2>5
<1> QED
  BY <1>1, <1>2, <1>3, <1>4, <1>5, <1>6, <1>8, <1>10, <1>13
  DEF OutputLineIn, OutputLineAdded

LEMMA OutputKeepsTypes ==
  ASSUME IInv, NEW n, OutputLineIn(n), pc' \in {"gates", "branches", "done"},
         UNCHANGED <<file, j>>, i' = 1
  PROVE  Typed'
<1>1. n \in Nat /\ 1 .. n \subseteq 1 .. n + 1 /\ POs \in Seq(1 .. n) /\ Has(POs, j)
      /\ j \in 1 .. n /\ n + 1 \in 1 .. n + 1
  BY DEF OutputLineIn, Originals
<1>2. POs' \in Seq(1 .. n + 1)
  <2>1. PICK r : r = RemoveFirst(POs, j)
    OBVIOUS
  <2>2. r \in Seq(1 .. n)
    BY <1>1, <2>1, RemoveFirstCounts
  <2>3. r \in Seq(1 .. n + 1)
    BY <1>1, <2>2, SeqMonotonic, Zenon
  <2>4. Append(r, n + 1) \in Seq(1 .. n + 1)
    BY <1>1, <2>3, AppendProperties
  <2> QED BY <2>1, <2>4 DEF OutputLineIn
<1>3. Size' = Size
  BY DEF Size
<1>4. Len(gates') = n + 1 /\ gates' \in Seq(GateAmong(n + 1)) /\ DOMAIN gates' = 1 .. n + 1
      /\ Size \in Nat /\ Size <= n
  BY DEF OutputLineIn
<1>5. file' \in Netlists /\ j' \in 1 .. Size + 1
  BY DEF IInv, Typed
<1>6. n + 1 \in Nat /\ Size <= n + 1
  BY <1>1, <1>4
<1> QED BY <1>2, <1>3, <1>4, <1>5, <1>6 DEF Typed

LEMMA OutputKeepsLines ==
  ASSUME IInv, NEW n, OutputLineIn(n), UNCHANGED file
  PROVE  LinesFollow'
<1>1. /\ n \in Nat /\ Size \in Nat /\ Size <= n /\ j \in 1 .. Size
      /\ DOMAIN gates = 1 .. n /\ DOMAIN gates' = 1 .. n + 1
  BY DEF OutputLineIn, Originals
<1>2. Size' = Size
  BY DEF Size
<1>3. ASSUME NEW g \in 1 .. n
      PROVE  /\ gates'[g].type = "LINE" <=> g > Size
             /\ g > Size => LineBetween(gates'[g], Size)
  <2>1. /\ gates[g].type = "LINE" <=> g > Size
        /\ g > Size => LineBetween(gates[g], Size)
    BY <1>1 DEF IInv, LinesFollow, IsLine
  <2>2. gates'[g].type = gates[g].type
    BY DEF OutputLineIn, Now
  <2>3. g > Size => gates'[g] = gates[g]
    BY <1>1 DEF OutputLineIn
  <2> QED BY <2>1, <2>2, <2>3
<1>4. /\ gates'[n + 1].type = "LINE" /\ n + 1 > Size
      /\ LineBetween(gates'[n + 1], Size)
  <2>1. gates'[n + 1] = [type |-> "LINE", name |-> <<j, 0>>, fanins |-> <<j>>,
                         fanouts |-> <<>>, isPO |-> TRUE, is_stem |-> FALSE]
    BY DEF OutputLineIn
  <2> QED BY <1>1, <2>1 DEF LineBetween
<1>5. \A g \in 1 .. n + 1 : g \in 1 .. n \/ g = n + 1
  BY <1>1
<1> QED BY <1>1, <1>2, <1>3, <1>4, <1>5 DEF LinesFollow, IsLine

LEMMA OutputKeepsStory ==
  ASSUME IInv, NEW n, OutputLineIn(n)
  PROVE  SameStory'
<1>1. /\ n \in Nat /\ j \in 1 .. n /\ j # n + 1
      /\ DOMAIN gates = 1 .. n /\ DOMAIN gates' = 1 .. n + 1
  BY DEF OutputLineIn, Originals
<1>2. \A h \in 1 .. n : gates[h].fanins \in Seq(1 .. n) /\ gates[h].fanouts \in Seq(1 .. n)
  BY GatesTyped DEF OutputLineIn, IInv
<1>3. \A h \in 1 .. n : gates'[h].fanins = gates[h].fanins
  BY DEF OutputLineIn, Now
<1>4. ASSUME NEW g \in 1 .. n, NEW x
      PROVE  Count(gates'[g].fanouts, x)
               = Count(gates[g].fanouts, x) + IF g = j /\ x = n + 1 THEN 1 ELSE 0
  <2>1. PICK s \in Seq(1 .. n) : s = gates[g].fanouts
    BY <1>2
  <2>2. Count(s, x) \in Nat
    BY <2>1, CountPlaces
  <2>3. CASE g # j
    BY <2>1, <2>2, <2>3 DEF OutputLineIn
  <2>4. CASE g = j
    <3>1. 1 .. n \subseteq 1 .. n + 1 /\ n + 1 \in 1 .. n + 1
      BY <1>1
    <3>2. \A t \in Seq(1 .. n) : t \in Seq(1 .. n + 1)
      BY <3>1, SeqMonotonic, Zenon
    <3>3. Count(Append(s, n + 1), x) = Count(s, x) + IF n + 1 = x THEN 1 ELSE 0
      BY <3>1, <3>2, CountAppend
    <3>4. gates'[g].fanouts = Append(s, n + 1)
      BY <2>1, <2>4 DEF OutputLineIn, Now
    <3> QED BY <2>1, <2>4, <3>3, <3>4
  <2> QED BY <2>3, <2>4
<1>5. \A h \in 1 .. n : /\ Count(gates[h].fanouts, n + 1) = 0
                        /\ Count(gates[h].fanins, n + 1) = 0
  BY <1>1, <1>2, CountBeyond
<1>6. \A x : /\ Count(gates'[n + 1].fanouts, x) = 0
             /\ Count(gates'[n + 1].fanins, x) = IF j = x THEN 1 ELSE 0
  <2>1. gates'[n + 1].fanouts = <<>> /\ gates'[n + 1].fanins = <<j>>
    BY DEF OutputLineIn
  <2> QED BY <2>1, CountOne, CountEmpty
<1>7. \A g, h \in 1 .. n : /\ Count(gates[g].fanouts, h) = Count(gates[h].fanins, g)
                           /\ Count(gates[g].fanouts, h) \in Nat
  <2>1. \A g, h \in 1 .. n : Count(gates[g].fanouts, h) = Count(gates[h].fanins, g)
    BY <1>1 DEF IInv, SameStory
  <2>2. \A g \in 1 .. n : \A h : Count(gates[g].fanouts, h) \in Nat
    BY <1>2, CountPlaces
  <2> QED BY <2>1, <2>2
<1>8. ASSUME NEW g \in 1 .. n + 1, NEW h \in 1 .. n + 1
      PROVE  Count(gates'[g].fanouts, h) = Count(gates'[h].fanins, g)
  <2>1. CASE g \in 1 .. n /\ h \in 1 .. n
    <3>1. h # n + 1
      BY <1>1, <2>1
    <3>2. Count(gates[g].fanouts, h) = Count(gates[h].fanins, g)
          /\ Count(gates[g].fanouts, h) \in Nat
      BY <1>7, <2>1
    <3>3. Count(gates'[g].fanouts, h) = Count(gates[g].fanouts, h)
      BY <1>4, <2>1, <3>1, <3>2
    <3> QED BY <1>3, <2>1, <3>2, <3>3
  <2>2. CASE g = n + 1 /\ h \in 1 .. n
    BY <1>3, <1>5, <1>6, <2>2
  <2>3. CASE g \in 1 .. n /\ h = n + 1
    <3>1. Count(gates'[g].fanouts, h) = IF g = j THEN 1 ELSE 0
      BY <1>4, <1>5, <2>3
    <3>2. Count(gates'[h].fanins, g) = IF j = g THEN 1 ELSE 0
      BY <1>6, <2>3
    <3> QED BY <3>1, <3>2
  <2>4. CASE g = n + 1 /\ h = n + 1
    BY <1>1, <1>6, <2>4
  <2>5. (g \in 1 .. n \/ g = n + 1) /\ (h \in 1 .. n \/ h = n + 1)
    BY <1>1
  <2> QED BY <2>1, <2>2, <2>3, <2>4, <2>5
<1> QED BY <1>1, <1>8 DEF SameStory

LEMMA OutputKeepsCircuit ==
  ASSUME IInv, NEW n, OutputLineIn(n), UNCHANGED file, Typed'
  PROVE  SameCircuit'
<1>1. /\ n \in Nat /\ DOMAIN gates = 1 .. n /\ DOMAIN gates' = 1 .. n + 1
      /\ Has(POs, j)
  BY DEF OutputLineIn
<1>2. /\ DOMAIN file.ins = Originals /\ Originals \subseteq 1 .. n
      /\ \A g \in 1 .. n : gates[g].fanins \in Seq(1 .. n)
      /\ POs \in Seq(1 .. n)
  BY <1>1, GatesTyped DEF IInv
<1>3. \A g \in 1 .. n : gates'[g].fanins = gates[g].fanins /\ gates'[g].type = gates[g].type
  BY DEF OutputLineIn, Now
<1>4. LineAppended(n)
  <2>1. gates'[n + 1].type = "LINE" /\ gates'[n + 1].fanins = <<j>>
    BY DEF OutputLineIn
  <2> QED BY <1>1, <1>3, <2>1 DEF OutputLineIn, LineAppended
<1>5. CircuitOf(gates, POs, file)
  BY <1>1, <1>2, SameCircuitIs DEF IInv
<1>6. \A s \in Seq(1 .. n) : \A f :
        /\ Count(Through(DriverOf(gates'), s), f) = Count(Through(DriverOf(gates), s), f)
        /\ Has(s, j) => Count(Through(DriverOf(gates'), Append(RemoveFirst(s, j), n + 1)), f)
                          = Count(Through(DriverOf(gates), s), f)
  BY <1>4, LineIsTransparent DEF IInv
<1>7. ASSUME NEW g \in Originals, NEW f \in Originals
      PROVE  Count(Through(DriverOf(gates'), gates'[g].fanins), f) = Count(file.ins[g], f)
  <2>1. g \in 1 .. n /\ gates[g].fanins \in Seq(1 .. n)
    BY <1>2
  <2>2. Count(Through(DriverOf(gates), gates[g].fanins), f) = Count(file.ins[g], f)
    BY <1>2, <1>5 DEF CircuitOf
  <2> QED BY <1>3, <1>6, <2>1, <2>2
<1>8. ASSUME NEW g \in Originals
      PROVE  Count(Through(DriverOf(gates'), POs'), g) = Count(file.outs, g)
  <2>1. POs' = Append(RemoveFirst(POs, j), n + 1)
    BY DEF OutputLineIn
  <2>2. Count(Through(DriverOf(gates), POs), g) = Count(file.outs, g)
    BY <1>2, <1>5 DEF CircuitOf
  <2> QED BY <1>1, <1>2, <1>6, <2>1, <2>2
<1>9. CircuitOf(gates', POs', file')
  BY <1>2, <1>7, <1>8 DEF CircuitOf
<1>10. POs' \in Seq(DOMAIN gates')
  BY DEF Typed
<1>11. \A g \in DOMAIN file'.ins : gates'[g].fanins \in Seq(DOMAIN gates')
  <2>1. \A g \in 1 .. n + 1 : gates'[g] \in GateAmong(n + 1)
    BY <1>1 DEF OutputLineIn
  <2>2. \A g \in 1 .. n + 1 : gates'[g].fanins \in Seq(1 .. n + 1)
    BY <1>1, <2>1, GateFields
  <2>3. DOMAIN file'.ins \subseteq 1 .. n + 1
    BY <1>1, <1>2
  <2> QED BY <1>1, <2>2, <2>3
<1> QED BY <1>9, <1>10, <1>11, SameCircuitNext

LEMMA OutputKeepsLengths ==
  ASSUME IInv, NEW n, OutputLineIn(n), UNCHANGED file
  PROVE  LengthsKept' /\ OutputsListed'
<1>1. /\ n \in Nat /\ DOMAIN gates = 1 .. n /\ DOMAIN gates' = 1 .. n + 1
      /\ POs \in Seq(1 .. n) /\ Originals \subseteq 1 .. n /\ j \in Originals
      /\ POs' = Append(RemoveFirst(POs, j), n + 1) /\ Has(POs, j)
      /\ \A g \in 1 .. n : gates[g].fanouts \in Seq(1 .. n)
  BY GatesTyped DEF OutputLineIn, IInv
<1>2. Originals' = Originals /\ \A g : Branches(g)' = Branches(g)
  BY DEF Originals, Size, Branches, Pins
<1>3. /\ Len(POs') = Len(POs)
      /\ \A x : Count(POs', x)
                  = Count(POs, x) - (IF x = j THEN 1 ELSE 0) + (IF x = n + 1 THEN 1 ELSE 0)
  BY <1>1, ReplacedCounts
<1>4. ASSUME NEW g \in Originals
      PROVE  /\ Len(gates'[g].fanins) = Len(file.ins[g])
             /\ Len(gates'[g].fanouts) + (IF gates'[g].isPO THEN 1 ELSE 0) = Branches(g)
  <2>1. /\ Len(gates[g].fanins) = Len(file.ins[g])
        /\ Len(gates[g].fanouts) + (IF gates[g].isPO THEN 1 ELSE 0) = Branches(g)
    BY DEF IInv, LengthsKept
  <2>2. CASE g # j
    BY <1>1, <2>1, <2>2 DEF OutputLineIn
  <2>3. CASE g = j
    <3>1. PICK s \in Seq(1 .. n) : s = gates[j].fanouts
      BY <1>1
    <3>2. gates'[j].fanouts = Append(s, n + 1) /\ gates'[j].fanins = gates[j].fanins
          /\ gates'[j].isPO = FALSE /\ gates[j].isPO
      BY <3>1 DEF OutputLineIn, Now
    <3>3. Len(Append(s, n + 1)) = Len(s) + 1 /\ Len(s) \in Nat
      BY <3>1
    <3>4. Len(s) + 1 = Branches(j) /\ Len(gates[j].fanins) = Len(file.ins[j])
      BY <2>1, <2>3, <3>1, <3>2
    <3>5. Len(gates'[j].fanouts) + 0 = Branches(j)
      BY <3>2, <3>3, <3>4
    <3> QED BY <2>3, <3>2, <3>4, <3>5
  <2> QED BY <2>2, <2>3
<1>5. LengthsKept'
  BY <1>2, <1>3, <1>4 DEF IInv, LengthsKept
<1>6. ASSUME NEW g \in 1 .. n
      PROVE  Count(POs', g) = IF gates'[g].isPO THEN 1 ELSE 0
  <2>1. Count(POs, g) = IF gates[g].isPO THEN 1 ELSE 0
    BY <1>1 DEF IInv, OutputsListed
  <2>2. g # n + 1
    BY <1>1
  <2>3. CASE g # j
    <3>1. gates'[g] = gates[g]
      BY <2>3 DEF OutputLineIn
    <3>2. Count(POs', g) = Count(POs, g) - 0 + 0
      BY <1>3, <2>2, <2>3
    <3>3. Count(POs, g) \in Nat
      BY <1>1, CountPlaces
    <3> QED BY <2>1, <3>1, <3>2, <3>3
  <2>4. CASE g = j
    <3>1. gates'[g].isPO = FALSE /\ gates[g].isPO
      BY <2>4 DEF OutputLineIn, Now
    <3> QED BY <1>3, <2>1, <2>2, <2>4, <3>1
  <2> QED BY <2>3, <2>4
<1>7. Count(POs', n + 1) = 1 /\ gates'[n + 1].isPO = TRUE
  <2>1. Count(POs, n + 1) = 0
    BY <1>1, CountBeyond
  <2>2. n + 1 # j
    BY <1>1
  <2> QED BY <1>3, <2>1, <2>2 DEF OutputLineIn
<1>8. \A g \in 1 .. n + 1 : g \in 1 .. n \/ g = n + 1
  BY <1>1
<1>9. OutputsListed'
  BY <1>1, <1>6, <1>7, <1>8 DEF OutputsListed
<1> QED BY <1>5, <1>9

\* A gate is a stem if it has two branches.
LEMMA StemBranches ==
  ASSUME IInv, NEW g \in Originals
  PROVE  /\ IsStem(g) <=> Branches(g) >= 2
         /\ Len(gates[g].fanouts) \in Nat
         /\ Len(gates[g].fanouts) + (IF gates[g].isPO THEN 1 ELSE 0) = Branches(g)
<1>1. Len(gates[g].fanouts) + (IF gates[g].isPO THEN 1 ELSE 0) = Branches(g)
  BY DEF IInv, LengthsKept
<1>2. PICK s \in Seq(DOMAIN gates) : s = gates[g].fanouts
  BY GatesTyped DEF IInv
<1>3. PICK m \in Nat : m = Len(gates[g].fanouts)
  BY <1>2
<1>4. IsStem(g) <=> m + (IF gates[g].isPO THEN 1 ELSE 0) >= 2
  <2>1. CASE gates[g].isPO
    BY <1>3, <2>1 DEF IsStem
  <2>2. CASE ~gates[g].isPO
    BY <1>3, <2>2 DEF IsStem
  <2> QED BY <2>1, <2>2
<1> QED BY <1>1, <1>3, <1>4

\* The gate the walk is at.
LEMMA WalkingAt ==
  ASSUME IInv, Walking
  PROVE  pc = "gates" /\ j \in Originals /\ j \in DOMAIN gates /\ Ahead(j)
<1>1. /\ Len(gates) \in Nat /\ DOMAIN gates = 1 .. Len(gates) /\ Size \in Nat
      /\ pc = "gates" /\ j <= Len(gates) /\ ~IsLine(j) /\ j \in 1 .. Size + 1
  BY GatesTyped DEF IInv, Typed, Walking
<1>2. j \in 1 .. Len(gates)
  BY <1>1
<1>3. j \in Originals
  BY <1>1, <1>2 DEF IInv, LinesFollow, Originals
<1>4. ~(j < j) /\ pc # "branches"
  BY <1>1
<1>5. Ahead(j)
  BY <1>3, <1>4 DEF IInv, Progress
<1> QED BY <1>1, <1>2, <1>3, <1>5

\* The gates the walk is not at stay passed, or ahead.
LEMMA OthersKeepProgress ==
  ASSUME IInv, Originals' = Originals, Size' = Size, \A g : Branches(g)' = Branches(g),
         j' = j, j \in Originals, pc = "gates", pc' = "branches", AtWork(j)',
         \A g \in Originals : g # j => gates'[g] = gates[g]
  PROVE  Progress'
<1>1. ASSUME NEW g \in Originals, g < j
      PROVE  Passed(g)'
  <2>1. Passed(g)
    BY <1>1 DEF IInv, Progress
  <2>2. gates'[g] = gates[g]
    BY <1>1 DEF Originals
  <2> QED BY <2>1, <2>2 DEF Passed
<1>2. ASSUME NEW g \in Originals, ~(g < j), g # j
      PROVE  Ahead(g)'
  <2>1. Ahead(g)
    BY <1>2 DEF IInv, Progress
  <2>2. gates'[g] = gates[g]
    BY <1>2
  <2> QED BY <2>1, <2>2 DEF Ahead
<1>3. Size \in Nat
  BY GatesTyped DEF IInv
<1>4. j' <= Size'
  BY <1>3 DEF Originals
<1> QED BY <1>1, <1>2, <1>4 DEF Progress

LEMMA OutputKeepsProgress ==
  ASSUME IInv, NEW n, OutputLineIn(n), Walking, IsStem(j), pc' = "branches",
         UNCHANGED <<file, j>>
  PROVE  Progress'
<1>1. /\ n \in Nat /\ DOMAIN gates = 1 .. n /\ Originals \subseteq 1 .. n
      /\ Size \in Nat /\ Size <= n /\ j \in Originals
      /\ \A h \in 1 .. n : gates[h].fanouts \in Seq(1 .. n)
  BY GatesTyped DEF OutputLineIn, IInv
<1>2. Originals' = Originals /\ Size' = Size /\ \A g : Branches(g)' = Branches(g)
  BY DEF Originals, Size, Branches, Pins
<1>3. \A g \in Originals : g # j => gates'[g] = gates[g]
  BY <1>1 DEF OutputLineIn
<1>4. AtWork(j)'
  <2>1. PICK s \in Seq(1 .. n) : s = gates[j].fanouts
    BY <1>1
  <2>2. \A k \in DOMAIN s : s[k] <= Size
    BY <2>1, WalkingAt DEF Ahead
  <2>3. PICK m \in Nat : m = Len(s) /\ DOMAIN s = 1 .. m
    BY <2>1
  <2>4. gates'[j].fanouts = Append(s, n + 1) /\ gates'[j].isPO = FALSE
        /\ gates'[j].is_stem = TRUE
    BY <2>1 DEF OutputLineIn, Now
  <2>5. PICK u : u = gates'[j].fanouts
    OBVIOUS
  <2>6. DOMAIN u = 1 .. m + 1 /\ \A k \in 1 .. m : u[k] = s[k]
    <3>1. 1 .. n \subseteq 1 .. n + 1 /\ n + 1 \in 1 .. n + 1
      BY <1>1
    <3>2. \A t \in Seq(1 .. n) : t \in Seq(1 .. n + 1)
      BY <3>1, SeqMonotonic, Zenon
    <3>3. /\ Append(s, n + 1) \in Seq(1 .. n + 1) /\ Len(Append(s, n + 1)) = Len(s) + 1
          /\ \A k \in 1 .. Len(s) : Append(s, n + 1)[k] = s[k]
      BY <3>1, <3>2, AppendProperties
    <3> QED BY <2>3, <2>4, <2>5, <3>3, SeqElements
  <2>7. ASSUME NEW k \in 1 .. m + 1, NEW l \in 1 .. m + 1, k < l
        PROVE  u[k] <= Size
    <3>1. k \in 1 .. m
      BY <2>7
    <3> QED BY <2>2, <2>3, <2>6, <3>1
  <2>8. Branches(j) >= 2
    BY <1>1, StemBranches
  <2> QED BY <1>2, <2>4, <2>5, <2>6, <2>7, <2>8 DEF AtWork
<1>5. pc = "gates"
  BY DEF Walking
<1> QED BY <1>1, <1>2, <1>3, <1>4, <1>5, OthersKeepProgress

LEMMA EnterOutputKeepsIInv ==
  ASSUME IInv, Enter, gates[j].isPO
  PROVE  IInv'
<1>1. Walking /\ IsStem(j) /\ pc' = "branches" /\ i' = 1 /\ UNCHANGED <<file, j>>
  BY DEF Enter
<1>2. PICK n : OutputLineIn(n)
  BY EnterOutputIs
<1>3. Typed'
  BY <1>1, <1>2, OutputKeepsTypes
<1>4. LinesFollow'
  BY <1>1, <1>2, OutputKeepsLines
<1>5. SameStory'
  BY <1>2, OutputKeepsStory
<1>6. SameCircuit'
  BY <1>1, <1>2, <1>3, OutputKeepsCircuit
<1>7. LengthsKept' /\ OutputsListed'
  BY <1>1, <1>2, OutputKeepsLengths
<1>8. Progress'
  BY <1>1, <1>2, OutputKeepsProgress
<1> QED BY <1>3, <1>4, <1>5, <1>6, <1>7, <1>8 DEF IInv

------------------------------------------------------------------------------
\* Enter at a gate that is no output only marks it.
LEMMA MarkKeepsIInv ==
  ASSUME IInv, Enter, ~gates[j].isPO
  PROVE  IInv'
<1>1. /\ Walking /\ IsStem(j) /\ pc' = "branches" /\ i' = 1 /\ UNCHANGED <<file, POs, j>>
      /\ gates' = [gates EXCEPT ![j].is_stem = TRUE]
  BY DEF Enter
<1>2. PICK n \in Nat : n = Len(gates) /\ DOMAIN gates = 1 .. n
  BY GatesTyped DEF IInv
<1>3. /\ j \in Originals /\ j \in 1 .. n /\ pc = "gates" /\ Ahead(j)
      /\ Originals \subseteq 1 .. n /\ Size \in Nat
      /\ gates \in Seq(GateAmong(n)) /\ POs \in Seq(1 .. n)
      /\ \A g \in 1 .. n : /\ gates[g] \in GateAmong(n)
                           /\ gates[g].fanins \in Seq(1 .. n) /\ gates[g].fanouts \in Seq(1 .. n)
  BY <1>1, <1>2, WalkingAt, GatesTyped DEF IInv
<1>4. PICK yes : yes = TRUE
  OBVIOUS
<1>5. /\ DOMAIN gates' = 1 .. n
      /\ \A g \in 1 .. n : gates'[g] = IF g = j THEN [gates[g] EXCEPT !.is_stem = yes] ELSE gates[g]
      /\ gates' = [g \in 1 .. n |-> gates'[g]]
  BY <1>1, <1>2, <1>4
<1>6. \A g \in 1 .. n :
        /\ gates'[g] \in GateAmong(n)
        /\ gates'[g].type = gates[g].type
        /\ gates'[g].fanins = gates[g].fanins /\ gates'[g].fanouts = gates[g].fanouts
        /\ gates'[g].isPO = gates[g].isPO
        /\ gates'[g].is_stem = IF g = j THEN TRUE ELSE gates[g].is_stem
        /\ g # j => gates'[g] = gates[g]
  <2> SUFFICES ASSUME NEW g \in 1 .. n
               PROVE  /\ gates'[g] \in GateAmong(n)
                      /\ gates'[g].type = gates[g].type
                      /\ gates'[g].fanins = gates[g].fanins
                      /\ gates'[g].fanouts = gates[g].fanouts
                      /\ gates'[g].isPO = gates[g].isPO
                      /\ gates'[g].is_stem = IF g = j THEN TRUE ELSE gates[g].is_stem
                      /\ g # j => gates'[g] = gates[g]
    OBVIOUS
  <2>1. PICK r \in GateAmong(n) : r = gates[g]
    BY <1>3
  <2>2. PICK d : d = gates'[g]
    OBVIOUS
  <2>3. CASE g = j
    <3>1. d = [r EXCEPT !.is_stem = yes]
      BY <1>5, <2>1, <2>2, <2>3
    <3>2. /\ d \in GateAmong(n) /\ d.type = r.type /\ d.fanins = r.fanins
          /\ d.fanouts = r.fanouts /\ d.isPO = r.isPO /\ d.is_stem = yes
      BY <1>4, <3>1 DEF GateAmong
    <3> QED BY <1>4, <2>1, <2>2, <2>3, <3>2
  <2>4. CASE g # j
    BY <1>5, <2>1, <2>4
  <2> QED BY <2>3, <2>4
<1>7. gates' \in Seq(GateAmong(n)) /\ Len(gates') = n
  <2>1. PICK t : t = gates'
    OBVIOUS
  <2>2. t \in [1 .. n -> GateAmong(n)]
    BY <1>5, <1>6, <2>1
  <2> HIDE DEF GateAmong
  <2> QED BY <2>1, <2>2
<1>8. Originals' = Originals /\ Size' = Size /\ \A g : Branches(g)' = Branches(g)
  BY <1>1 DEF Originals, Size, Branches, Pins
<1>9. Typed'
  BY <1>1, <1>2, <1>3, <1>5, <1>7, <1>8 DEF IInv, Typed
<1>10. LinesFollow'
  <2>1. ASSUME NEW g \in 1 .. n
        PROVE  /\ IsLine(g)' <=> g > Size
               /\ g > Size => LineBetween(gates'[g], Size)
    <3>1. /\ IsLine(g) <=> g > Size
          /\ g > Size => LineBetween(gates[g], Size)
      BY <1>2 DEF IInv, LinesFollow
    <3>2. g > Size => g # j
      BY <1>3 DEF Originals
    <3> QED BY <1>6, <3>1, <3>2 DEF IsLine
  <2> QED BY <1>5, <1>8, <2>1 DEF LinesFollow
<1>11. SameStory'
  <2>1. \A g, h \in 1 .. n : Count(gates[g].fanouts, h) = Count(gates[h].fanins, g)
    BY <1>2 DEF IInv, SameStory
  <2>2. \A g \in 1 .. n : gates'[g].fanins = gates[g].fanins /\ gates'[g].fanouts = gates[g].fanouts
    BY <1>6
  <2>3. \A g, h \in 1 .. n : Count(gates'[g].fanouts, h) = Count(gates'[h].fanins, g)
    BY <2>1, <2>2
  <2> QED BY <1>5, <2>3 DEF SameStory
<1>12. SameCircuit'
  <2>1. CircuitOf(gates, POs, file)
    <3>1. Typed /\ SameCircuit
      BY DEF IInv
    <3>2. /\ POs \in Seq(DOMAIN gates)
          /\ \A g \in DOMAIN file.ins : gates[g].fanins \in Seq(DOMAIN gates)
      BY <3>1, GatesTyped
    <3> QED BY <3>1, <3>2, SameCircuitIs
  <2>2. DriverOf(gates') = DriverOf(gates)
    <3>1. \A g \in 1 .. n : gates'[g].type = gates[g].type /\ gates'[g].fanins = gates[g].fanins
      BY <1>6
    <3>2. DOMAIN gates = 1 .. n /\ DOMAIN gates' = 1 .. n
      BY <1>2, <1>5
    <3> QED BY <3>1, <3>2 DEF DriverOf
  <2>3. DOMAIN file.ins = Originals
    BY GatesTyped DEF IInv
  <2>4. CircuitOf(gates', POs', file')
    <3>1. \A g \in DOMAIN file.ins : gates'[g].fanins = gates[g].fanins
      BY <1>3, <1>6, <2>3
    <3>2. PICK d : d = DriverOf(gates)
      OBVIOUS
    <3>3. \A g \in DOMAIN file.ins : \A f :
            Count(Through(d, gates'[g].fanins), f) = Count(Through(d, gates[g].fanins), f)
      BY <3>1
    <3>4. ASSUME NEW g \in DOMAIN file.ins, NEW f \in DOMAIN file.ins
          PROVE  Count(Through(d, gates'[g].fanins), f) = Count(file.ins[g], f)
      <4>1. Count(Through(d, gates[g].fanins), f) = Count(file.ins[g], f)
        BY <2>1, <3>2 DEF CircuitOf
      <4> QED BY <3>3, <4>1, Zenon
    <3>5. ASSUME NEW g \in DOMAIN file.ins
          PROVE  Count(Through(d, POs), g) = Count(file.outs, g)
      BY <2>1, <3>2 DEF CircuitOf
    <3>6. d = DriverOf(gates') /\ POs' = POs /\ file' = file
      BY <1>1, <2>2, <3>2, Zenon
    <3> QED BY <3>4, <3>5, <3>6, Zenon DEF CircuitOf
  <2>5. POs' \in Seq(DOMAIN gates')
    BY <1>9 DEF Typed
  <2>6. \A g \in DOMAIN file'.ins : gates'[g].fanins \in Seq(DOMAIN gates')
    BY <1>1, <1>3, <1>5, <1>6, <2>3
  <2> QED BY <2>4, <2>5, <2>6, SameCircuitNext
<1>13. LengthsKept'
  <2>1. LengthsKept
    BY DEF IInv
  <2>2. \A g \in Originals : /\ gates'[g].fanins = gates[g].fanins
                             /\ gates'[g].fanouts = gates[g].fanouts
                             /\ gates'[g].isPO = gates[g].isPO
    BY <1>3, <1>6
  <2>3. /\ \A g \in Originals : Len(gates'[g].fanins) = Len(file.ins[g])
        /\ \A g \in Originals :
             Len(gates'[g].fanouts) + (IF gates'[g].isPO THEN 1 ELSE 0) = Branches(g)
    BY <2>1, <2>2 DEF LengthsKept
  <2> QED BY <1>1, <1>8, <2>1, <2>3 DEF LengthsKept
<1>14. OutputsListed'
  BY <1>1, <1>2, <1>5, <1>6 DEF IInv, OutputsListed
<1>15. AtWork(j)'
  <2>1. Branches(j) >= 2
    BY <1>1, <1>3, StemBranches
  <2>2. gates'[j].is_stem = TRUE /\ ~gates'[j].isPO /\ gates'[j].fanouts = gates[j].fanouts
    BY <1>3, <1>6
  <2>3. \A k \in DOMAIN gates[j].fanouts : gates[j].fanouts[k] <= Size
    BY <1>3 DEF Ahead
  <2> QED BY <1>1, <1>8, <2>1, <2>2, <2>3 DEF AtWork
<1>16. Progress'
  <2>1. \A g \in Originals : g # j => gates'[g] = gates[g]
    BY <1>3, <1>6
  <2> QED BY <1>1, <1>3, <1>8, <1>15, <2>1, OthersKeepProgress
<1> QED BY <1>9, <1>10, <1>11, <1>12, <1>13, <1>14, <1>16 DEF IInv

------------------------------------------------------------------------------
\* The walk itself changes no gate.
LEMMA WalkKeepsIInv ==
  ASSUME IInv, UNCHANGED <<file, gates, POs, i>>, j' \in 1 .. Size + 1,
         pc' \in {"gates", "branches", "done"},
         \A g \in Originals :
           IF g < j' THEN Passed(g)
           ELSE IF g = j' /\ pc' = "branches" THEN AtWork(g) ELSE Ahead(g),
         pc' = "branches" => j' <= Size, pc' = "done" => j' > Size
  PROVE  IInv'
<1>1. Originals' = Originals /\ Size' = Size /\ \A g : Branches(g)' = Branches(g)
  BY DEF Originals, Size, Branches, Pins
<1>2. Typed'
  BY <1>1 DEF IInv, Typed
<1>3. LinesFollow'
  BY <1>1 DEF IInv, LinesFollow, IsLine
<1>4. SameStory'
  BY DEF IInv, SameStory
<1>5. SameCircuit'
  BY DEF IInv, SameCircuit, Drivers, Driver, IsLine
<1>6. LengthsKept' /\ OutputsListed'
  BY <1>1 DEF IInv, LengthsKept, OutputsListed
<1>7. \A g : Passed(g)' = Passed(g) /\ Ahead(g)' = Ahead(g) /\ AtWork(g)' = AtWork(g)
  BY <1>1 DEF Passed, Ahead, AtWork
<1>8. Progress'
  BY <1>1, <1>7 DEF Progress
<1> QED BY <1>2, <1>3, <1>4, <1>5, <1>6, <1>8 DEF IInv

LEMMA SkipKeepsIInv ==
  ASSUME IInv, Skip
  PROVE  IInv'
<1>1. Walking /\ ~IsStem(j) /\ j' = j + 1 /\ UNCHANGED <<pc, file, gates, POs, i>>
  BY DEF Skip
<1>2. pc = "gates" /\ j \in Originals /\ Ahead(j) /\ Size \in Nat
  BY <1>1, WalkingAt, GatesTyped DEF IInv
<1>3. Passed(j)
  <2>1. ~(Branches(j) >= 2)
    BY <1>1, <1>2, StemBranches
  <2> QED BY <1>2, <2>1 DEF Passed, Ahead
<1>4. ASSUME NEW g \in Originals
      PROVE  IF g < j' THEN Passed(g) ELSE Ahead(g)
  <2>1. IF g < j THEN Passed(g) ELSE Ahead(g)
    BY <1>2 DEF IInv, Progress
  <2>2. g < j' <=> g < j \/ g = j
    BY <1>1, <1>2 DEF Originals
  <2> QED BY <1>3, <2>1, <2>2
<1>5. j' \in 1 .. Size + 1
  BY <1>1, <1>2 DEF Originals
<1>6. pc' = "gates"
  BY <1>1, <1>2
<1> QED BY <1>1, <1>4, <1>5, <1>6, WalkKeepsIInv

\* The walk leaves a stem when its first fanout is a line: then all are.
LEMMA LeaveKeepsIInv ==
  ASSUME IInv, Leave
  PROVE  IInv'
<1>1. /\ pc = "branches" /\ ~More /\ pc' = "gates" /\ j' = j + 1
      /\ UNCHANGED <<file, gates, POs, i>>
  BY DEF Leave
<1>2. PICK n \in Nat : n = Len(gates) /\ DOMAIN gates = 1 .. n
  BY GatesTyped DEF IInv
<1>3. /\ j \in Originals /\ j \in 1 .. n /\ Size \in Nat /\ i = 1
      /\ gates[j].fanouts \in Seq(1 .. n)
  <2>1. Size \in Nat /\ Originals \subseteq 1 .. n
    BY <1>2, GatesTyped DEF IInv
  <2>2. j \in Originals
    BY <1>1, <2>1 DEF IInv, Typed, Progress, Originals
  <2> QED BY <1>2, <2>1, <2>2, GatesTyped DEF IInv, Typed
<1>4. AtWork(j)
  BY <1>1, <1>3 DEF IInv, Progress, Originals
<1>5. PICK s \in Seq(1 .. n) : s = gates[j].fanouts
  BY <1>3
<1>6. Len(s) >= 2
  <2>1. Len(s) = Branches(j) /\ Branches(j) >= 2
    <3>1. Len(s) + 0 = Branches(j)
      BY <1>3, <1>4, <1>5, StemBranches DEF AtWork
    <3> QED BY <1>4, <1>5, <3>1 DEF AtWork
  <2> QED BY <2>1
<1>7. s[1] > Size
  <2>1. 1 \in DOMAIN s /\ s[1] \in 1 .. n
    BY <1>6
  <2>2. IsLine(s[1])
    BY <1>1, <1>3, <1>5, <1>6 DEF More
  <2> QED BY <1>2, <2>1, <2>2 DEF IInv, LinesFollow
<1>8. \A k \in DOMAIN s : s[k] > Size
  <2> SUFFICES ASSUME NEW k \in DOMAIN s PROVE s[k] > Size
    OBVIOUS
  <2>1. k \in Nat /\ k >= 1 /\ 1 \in DOMAIN s /\ s[k] \in 1 .. n /\ s[1] \in 1 .. n
    BY <1>6
  <2>2. 1 < k /\ s[k] <= Size => s[1] <= Size
    BY <1>4, <1>5, <2>1 DEF AtWork
  <2> QED BY <1>3, <1>7, <2>1, <2>2
<1>9. Passed(j)
  BY <1>4, <1>5, <1>8 DEF Passed, AtWork
<1>10. ASSUME NEW g \in Originals
       PROVE  IF g < j' THEN Passed(g) ELSE Ahead(g)
  <2>1. g # j => IF g < j THEN Passed(g) ELSE Ahead(g)
    BY DEF IInv, Progress
  <2>2. g < j' <=> g < j \/ g = j
    BY <1>1, <1>3 DEF Originals
  <2> QED BY <1>9, <2>1, <2>2
<1>11. j' \in 1 .. Size + 1
  BY <1>1, <1>3 DEF Originals
<1> QED BY <1>1, <1>10, <1>11, WalkKeepsIInv

\* The walk ends behind the gates of the file.
LEMMA FinishKeepsIInv ==
  ASSUME IInv, Finish
  PROVE  IInv'
<1>1. pc = "gates" /\ ~Walking /\ pc' = "done" /\ UNCHANGED <<file, gates, POs, j, i>>
  BY DEF Finish
<1>2. PICK n \in Nat : n = Len(gates) /\ DOMAIN gates = 1 .. n
  BY GatesTyped DEF IInv
<1>3. Size \in Nat /\ Size <= n /\ j \in 1 .. Size + 1
  BY <1>2, GatesTyped DEF IInv, Typed
<1>4. j > Size
  <2> SUFFICES ASSUME ~(j > Size) PROVE FALSE
    OBVIOUS
  <2>1. j \in 1 .. n /\ j <= n
    BY <1>3
  <2>2. ~IsLine(j)
    BY <1>2, <2>1 DEF IInv, LinesFollow
  <2> QED BY <1>1, <1>2, <2>1, <2>2 DEF Walking
<1>5. ASSUME NEW g \in Originals
      PROVE  IF g < j' THEN Passed(g)
             ELSE IF g = j' /\ pc' = "branches" THEN AtWork(g) ELSE Ahead(g)
  <2>1. g < j
    BY <1>3, <1>4 DEF Originals
  <2> QED BY <1>1, <2>1 DEF IInv, Progress
<1> QED BY <1>1, <1>3, <1>4, <1>5, WalkKeepsIInv

LEMMA StutterKeepsIInv ==
  ASSUME IInv, UNCHANGED vars
  PROVE  IInv'
<1>1. UNCHANGED <<pc, file, gates, POs, j, i>>
  BY DEF vars
<1>2. /\ j \in 1 .. Size + 1 /\ pc \in {"gates", "branches", "done"}
      /\ pc = "branches" => j <= Size
      /\ pc = "done" => j > Size
      /\ \A g \in Originals :
           IF g < j THEN Passed(g)
           ELSE IF g = j /\ pc = "branches" THEN AtWork(g) ELSE Ahead(g)
  BY DEF IInv, Typed, Progress
<1> QED BY <1>1, <1>2, WalkKeepsIInv

LEMMA NextKeepsIInv == IInv /\ [Next]_vars => IInv'
<1> SUFFICES ASSUME IInv, [Next]_vars PROVE IInv'
  OBVIOUS
<1>1. CASE Skip
  BY <1>1, SkipKeepsIInv
<1>2. CASE Enter
  BY <1>2, EnterOutputKeepsIInv, MarkKeepsIInv
<1>3. CASE Branch
  BY <1>3, BranchKeepsIInv
<1>4. CASE Leave
  BY <1>4, LeaveKeepsIInv
<1>5. CASE Finish
  BY <1>5, FinishKeepsIInv
<1>6. CASE Done
  BY <1>6, StutterKeepsIInv DEF Done
<1>7. CASE UNCHANGED vars
  BY <1>7, StutterKeepsIInv
<1> QED BY <1>1, <1>2, <1>3, <1>4, <1>5, <1>6, <1>7 DEF Next

------------------------------------------------------------------------------
\* An output is listed once.
LEMMA CountInjective ==
  ASSUME NEW T, NEW s \in Seq(T), IsInjective(s), NEW g
  PROVE  Count(s, g) = IF g \in Range(s) THEN 1 ELSE 0
<1>1. Count(s, g) = Cardinality(Places(s, g))
  BY CountPlaces
<1>2. CASE g \in Range(s)
  <2>1. PICK k \in DOMAIN s : s[k] = g
    BY <1>2 DEF Range
  <2>2. Places(s, g) = {k}
    BY <2>1 DEF Places, IsInjective
  <2> QED BY <1>1, <1>2, <2>2, FS_Singleton
<1>3. CASE g \notin Range(s)
  <2>1. Places(s, g) = {}
    BY <1>3 DEF Places, Range
  <2> QED BY <1>1, <1>3, <2>1, FS_EmptySet
<1> QED BY <1>2, <1>3

\* A gate as it is read from the file.
ReadAs(n, g, r) ==
  /\ r \in GateAmong(Len(n.ins))
  /\ r.type # "LINE" /\ r.fanins = n.ins[g] /\ r.fanouts = Readers(n.ins, g)
  /\ r.isPO = (g \in Range(n.outs)) /\ r.is_stem = FALSE

LEMMA ParsedGates ==
  ASSUME NEW n \in Netlists
  PROVE  /\ DOMAIN Parsed(n) = 1 .. Len(n.ins)
         /\ Parsed(n) = [g \in 1 .. Len(n.ins) |-> Parsed(n)[g]]
         /\ \A g \in 1 .. Len(n.ins) : ReadAs(n, g, Parsed(n)[g])
<1>1. PICK M \in Nat : M = Len(n.ins) /\ DOMAIN n.ins = 1 .. M
  BY NetlistFacts
<1>2. /\ DOMAIN Parsed(n) = 1 .. M
      /\ Parsed(n) = [g \in 1 .. M |-> Parsed(n)[g]]
  BY <1>1 DEF Parsed
<1>3. ASSUME NEW g \in 1 .. M PROVE ReadAs(n, g, Parsed(n)[g])
  <2>1. PICK fi \in Seq(1 .. M) : fi = n.ins[g]
    BY <1>1, NetlistFacts
  <2>2. PICK fo \in Seq(1 .. M) : fo = Readers(n.ins, g)
    BY <1>1, ReadersHold DEF ReadersAre
  <2>3. PICK PO \in BOOLEAN : PO = (g \in Range(n.outs))
    <3>1. CASE g \in Range(n.outs)
      <4>1. TRUE = (g \in Range(n.outs))
        BY <3>1
      <4> QED BY <4>1
    <3>2. CASE g \notin Range(n.outs)
      <4>1. FALSE = (g \in Range(n.outs))
        BY <3>2
      <4> QED BY <4>1
    <3> QED BY <3>1, <3>2
  <2>4. PICK no \in BOOLEAN : no = FALSE
    OBVIOUS
  <2>5. PICK ty \in {"INPUT", "GATE", "LINE"} :
          ty # "LINE" /\ ty = IF n.ins[g] = <<>> THEN "INPUT" ELSE "GATE"
    OBVIOUS
  <2>6. <<g>> \in Seq(Nat)
    OBVIOUS
  <2>7. PICK r : r = Parsed(n)[g]
    OBVIOUS
  <2>8. r = [type |-> ty, name |-> <<g>>, fanins |-> fi, fanouts |-> fo, isPO |-> PO,
             is_stem |-> no]
    BY <1>1, <2>1, <2>2, <2>3, <2>4, <2>5, <2>7 DEF Parsed
  <2>9. /\ r \in GateAmong(M) /\ r.type # "LINE" /\ r.fanins = fi /\ r.fanouts = fo
        /\ r.isPO = PO /\ r.is_stem = no
    BY <2>5, <2>6, <2>8 DEF GateAmong
  <2> QED BY <1>1, <2>1, <2>2, <2>3, <2>4, <2>7, <2>9 DEF ReadAs
<1> QED BY <1>1, <1>2, <1>3

LEMMA InitHasIInv == Init => IInv
<1> SUFFICES ASSUME Init PROVE IInv
  OBVIOUS
<1>1. file \in Netlists /\ gates = Parsed(file) /\ POs = file.outs
      /\ pc = "gates" /\ j = 1 /\ i = 1
  BY DEF Init
<1>2. PICK M \in Nat : M = Size
  BY <1>1, NetlistFacts DEF Size
<1>3. /\ DOMAIN file.ins = 1 .. M /\ Originals = 1 .. M
      /\ \A g \in 1 .. M : file.ins[g] \in Seq(1 .. M)
      /\ file.outs \in Seq(1 .. M) /\ IsInjective(file.outs)
  BY <1>1, <1>2, NetlistFacts DEF Size, Originals
<1>4. /\ DOMAIN gates = 1 .. M /\ gates = [g \in 1 .. M |-> gates[g]]
      /\ \A g \in 1 .. M : ReadAs(file, g, gates[g])
  BY <1>1, <1>2, ParsedGates DEF Size
<1>5. \A g \in 1 .. M :
        /\ gates[g] \in GateAmong(M)
        /\ gates[g].type # "LINE" /\ gates[g].fanins = file.ins[g]
        /\ gates[g].fanouts = Readers(file.ins, g)
        /\ gates[g].isPO = (g \in Range(file.outs)) /\ gates[g].is_stem = FALSE
  BY <1>2, <1>4 DEF ReadAs, Size
<1>6. \A g \in 1 .. M :
        /\ Readers(file.ins, g) \in Seq(1 .. M)
        /\ \A h \in 1 .. M : Count(Readers(file.ins, g), h) = Count(file.ins[h], g)
        /\ Len(Readers(file.ins, g)) = Cardinality(PinsReading(file, g))
  BY <1>1, <1>3, ReadersHold DEF ReadersAre
<1>7. \A g : Count(file.outs, g) = IF g \in Range(file.outs) THEN 1 ELSE 0
  BY <1>3, CountInjective
<1>8. gates \in Seq(GateAmong(M)) /\ Len(gates) = M
  <2>1. PICK t : t = gates
    OBVIOUS
  <2>2. t \in [1 .. M -> GateAmong(M)]
    BY <1>4, <1>5, <2>1
  <2> HIDE DEF GateAmong
  <2> QED BY <2>1, <2>2
<1>9. Typed
  BY <1>1, <1>2, <1>3, <1>4, <1>8 DEF Typed
<1>10. LinesFollow
  <2>1. \A g \in 1 .. M : ~IsLine(g) /\ ~(g > Size)
    BY <1>2, <1>5 DEF IsLine
  <2> QED BY <1>4, <2>1 DEF LinesFollow
<1>11. SameStory
  <2>1. \A g, h \in 1 .. M : Count(gates[g].fanouts, h) = Count(gates[h].fanins, g)
    BY <1>5, <1>6
  <2> QED BY <1>4, <2>1 DEF SameStory
<1>12. SameCircuit
  <2>1. ASSUME NEW s \in Seq(1 .. M) PROVE Drivers(s) = s
    <3>1. \A k \in DOMAIN s : Driver(s[k]) = s[k]
      BY <1>5 DEF Driver, IsLine
    <3>2. s = [k \in DOMAIN s |-> s[k]]
      OBVIOUS
    <3> QED BY <3>1, <3>2 DEF Drivers
  <2>2. \A g \in 1 .. M : Drivers(gates[g].fanins) = file.ins[g]
    BY <1>3, <1>5, <2>1, SMTT(30)
  <2>3. Drivers(POs) = file.outs
    BY <1>1, <1>3, <2>1
  <2> QED BY <1>3, <2>2, <2>3 DEF SameCircuit
<1>13. LengthsKept
  <2>1. ASSUME NEW g \in 1 .. M
        PROVE  Len(gates[g].fanouts) + (IF gates[g].isPO THEN 1 ELSE 0) = Branches(g)
    <3>1. Branches(g) = Cardinality(PinsReading(file, g)) + Count(file.outs, g)
      BY DEF Branches, Pins, PinsOf, PinsReading
    <3>2. Len(gates[g].fanouts) = Cardinality(PinsReading(file, g))
      BY <1>5, <1>6
    <3>3. gates[g].isPO <=> g \in Range(file.outs)
      BY <1>5
    <3> QED BY <1>7, <3>1, <3>2, <3>3
  <2>2. \A g \in 1 .. M : gates[g].fanins = file.ins[g]
    BY <1>5
  <2> QED BY <1>1, <1>3, <2>1, <2>2 DEF LengthsKept
<1>14. OutputsListed
  <2>1. \A g \in 1 .. M : gates[g].isPO <=> g \in Range(file.outs)
    BY <1>5
  <2> QED BY <1>1, <1>4, <1>7, <2>1 DEF OutputsListed
<1>15. Progress
  <2>1. ASSUME NEW g \in Originals PROVE Ahead(g) /\ ~(g < j)
    <3>1. g \in 1 .. M /\ gates[g].is_stem = FALSE
      BY <1>3, <1>5
    <3>2. gates[g].fanouts \in Seq(1 .. M)
      BY <1>5, <1>6, <3>1
    <3>3. \A k \in DOMAIN gates[g].fanouts : gates[g].fanouts[k] <= Size
      BY <1>2, <3>2
    <3> QED BY <1>1, <3>1, <3>3 DEF Ahead
  <2> QED BY <1>1, <2>1 DEF Progress
<1> QED BY <1>9, <1>10, <1>11, <1>12, <1>13, <1>14, <1>15 DEF IInv

LEMMA SpecHasIInv == Spec => []IInv
BY InitHasIInv, NextKeepsIInv, PTL DEF Spec

------------------------------------------------------------------------------
\* What can be read off a finite set is not more than the set.
LEMMA NotMoreThanPlaces ==
  ASSUME NEW W, IsFiniteSet(W), NEW f, NEW L, \A x \in L : \E w \in W : f[w] = x
  PROVE  IsFiniteSet(L) /\ Cardinality(L) <= Cardinality(W)
<1> DEFINE T == {f[w] : w \in W}
           g == [w \in W |-> f[w]]
<1>1. g \in [W -> T] /\ \A t \in T : \E w \in W : g[w] = t
  OBVIOUS
<1>2. g \in Surjection(W, T)
  BY <1>1 DEF Surjection
<1>3. L \in SUBSET T
  OBVIOUS
<1> HIDE DEF g, T
<1>4. IsFiniteSet(T) /\ Cardinality(T) <= Cardinality(W)
  BY <1>2, FS_Surjection
<1>5. IsFiniteSet(L) /\ Cardinality(L) <= Cardinality(T)
  BY <1>3, <1>4, FS_Subset
<1>6. Cardinality(L) \in Nat /\ Cardinality(T) \in Nat /\ Cardinality(W) \in Nat
  BY <1>4, <1>5, FS_CardinalityType
<1> QED BY <1>4, <1>5, <1>6

LEMMA PinsFinite ==
  ASSUME file \in Netlists
  PROVE  IsFiniteSet(Pins)
<1> DEFINE f == [h \in DOMAIN file.ins |-> {h} \X DOMAIN file.ins[h]]
           R == {f[h] : h \in DOMAIN file.ins}
<1>1. IsFiniteSet(DOMAIN file.ins)
  <2>1. DOMAIN file.ins = 1 .. Len(file.ins) /\ Len(file.ins) \in Nat
    BY NetlistFacts
  <2> QED BY <2>1, FS_Interval
<1>2. \A h \in DOMAIN file.ins : IsFiniteSet(f[h])
  <2> SUFFICES ASSUME NEW h \in DOMAIN file.ins PROVE IsFiniteSet(f[h])
    OBVIOUS
  <2>1. DOMAIN file.ins[h] = 1 .. Len(file.ins[h]) /\ Len(file.ins[h]) \in Nat
    BY NetlistFacts, SeqElements
  <2>2. IsFiniteSet(DOMAIN file.ins[h]) /\ IsFiniteSet({h})
    <3>1. PICK m \in Nat : m = Len(file.ins[h])
      BY <2>1
    <3>2. IsFiniteSet(1 .. m)
      BY FS_Interval
    <3> QED BY <2>1, <3>1, <3>2, FS_Singleton
  <2>3. IsFiniteSet({h} \X DOMAIN file.ins[h])
    BY <2>2, FS_Product
  <2> QED BY <2>3
<1>3. Pins = UNION R
  BY DEF Pins
<1> HIDE DEF f
<1>4. IsFiniteSet(R)
  BY <1>1, FiniteValues
<1>5. \A x \in R : IsFiniteSet(x)
  BY <1>2
<1> HIDE DEF R
<1> QED BY <1>3, <1>4, <1>5, FS_UNION

\* Every line stands at a pin, or at an output: there are not more of them.
LEMMA GrowthBound ==
  ASSUME IInv
  PROVE  Len(gates) <= Size + Connections
<1>1. PICK n \in Nat : n = Len(gates) /\ DOMAIN gates = 1 .. n
  BY GatesTyped DEF IInv
<1>2. /\ DOMAIN file.ins = Originals /\ Originals = 1 .. Size /\ Size \in Nat /\ Size <= n
      /\ POs \in Seq(1 .. n) /\ file \in Netlists
      /\ \A g \in 1 .. n : gates[g].fanins \in Seq(1 .. n) /\ gates[g].fanouts \in Seq(1 .. n)
  BY <1>1, GatesTyped DEF IInv, Typed, Originals
<1>3. PICK m \in Nat : m = Len(file.outs) /\ m = Len(POs)
  BY <1>2 DEF IInv, LengthsKept
<1> DEFINE O == {0} \X (1 .. m)
           W == Pins \cup O
           f == [w \in W |-> IF w[1] = 0 THEN POs[w[2]] ELSE gates[w[1]].fanins[w[2]]]
           L == Size + 1 .. n
<1>4. ASSUME NEW g \in L PROVE \E w \in W : f[w] = g
  <2>1. g \in 1 .. n /\ g > Size
    BY <1>2
  <2>2. LineBetween(gates[g], Size)
    BY <1>1, <2>1 DEF IInv, LinesFollow
  <2>3. CASE gates[g].isPO
    <3>1. Count(POs, g) = 1
      BY <1>1, <2>1, <2>3 DEF IInv, OutputsListed
    <3>2. PICK k \in DOMAIN POs : POs[k] = g
      <4>1. Count(POs, g) > 0 <=> \E k \in DOMAIN POs : POs[k] = g
        BY <1>2, CountPositive
      <4>2. Count(POs, g) > 0
        BY <3>1
      <4> QED BY <4>1, <4>2
    <3>3. k \in 1 .. m
      BY <1>2, <1>3, <3>2, SeqElements
    <3>4. <<0, k>> \in W
      BY <3>3
    <3>5. f[<<0, k>>] = g
      BY <3>2, <3>4
    <3> QED BY <3>4, <3>5
  <2>4. CASE ~gates[g].isPO
    <3>1. PICK s \in Seq(1 .. n) : s = gates[g].fanouts
      BY <1>2, <2>1
    <3>2. PICK o \in 1 .. Size : Len(s) = 1 /\ s[1] = o
      BY <2>2, <2>4, <3>1 DEF LineBetween
    <3>3. Count(s, o) > 0
      <4>1. 1 \in DOMAIN s
        BY <3>1, <3>2
      <4> QED BY <3>1, <3>2, <4>1, CountPositive
    <3>4. Count(gates[o].fanins, g) > 0
      <4>1. o \in 1 .. n
        BY <1>2
      <4>2. Count(gates[g].fanouts, o) = Count(gates[o].fanins, g)
        BY <1>1, <2>1, <4>1 DEF IInv, SameStory
      <4> QED BY <3>1, <3>3, <4>2
    <3>5. PICK t \in Seq(1 .. n) : t = gates[o].fanins
      <4>1. o \in 1 .. n
        BY <1>2
      <4> QED BY <1>2, <4>1
    <3>6. PICK k \in DOMAIN t : t[k] = g
      BY <3>4, <3>5, CountPositive
    <3>7. o \in DOMAIN file.ins /\ k \in DOMAIN file.ins[o]
      <4>1. Len(t) = Len(file.ins[o])
        BY <1>2, <3>5 DEF IInv, LengthsKept
      <4>2. file.ins[o] \in Seq(1 .. Size)
        BY <1>2, NetlistFacts DEF Size
      <4>3. DOMAIN file.ins[o] = 1 .. Len(file.ins[o]) /\ DOMAIN t = 1 .. Len(t)
        BY <3>5, <4>2, SeqElements
      <4> QED BY <1>2, <3>6, <4>1, <4>3
    <3>8. <<o, k>> \in Pins
      BY <3>7 DEF Pins
    <3>9. o # 0 /\ <<o, k>> \in W
      BY <3>8
    <3>10. f[<<o, k>>] = g
      BY <3>5, <3>6, <3>9
    <3> QED BY <3>9, <3>10
  <2> QED BY <2>3, <2>4
<1>5. \A p \in Pins : p[1] # 0
  BY <1>2 DEF Pins
<1>6. Pins \cap O = {}
  BY <1>5
<1>7. IsFiniteSet(O) /\ Cardinality(O) = m
  <2>1. IsFiniteSet(1 .. m) /\ Cardinality(1 .. m) = m
    BY FS_Interval
  <2>2. IsFiniteSet({0}) /\ Cardinality({0}) = 1
    BY FS_Singleton
  <2>3. IsFiniteSet({0} \X (1 .. m))
        /\ Cardinality({0} \X (1 .. m)) = Cardinality({0}) * Cardinality(1 .. m)
    BY <2>1, <2>2, FS_Product
  <2> QED BY <2>1, <2>2, <2>3
<1>8. IsFiniteSet(Pins)
  BY <1>2, PinsFinite
<1> HIDE DEF O, f
<1>9. IsFiniteSet(W) /\ Cardinality(W) = Connections
  <2>1. IsFiniteSet(Pins \cup O)
        /\ Cardinality(Pins \cup O) = Cardinality(Pins) + Cardinality(O) - Cardinality(Pins \cap O)
    BY <1>7, <1>8, FS_Union
  <2>2. Cardinality(Pins \cap O) = 0 /\ Cardinality(Pins) \in Nat
    BY <1>6, <1>8, FS_EmptySet, FS_CardinalityType
  <2>3. Connections = Cardinality(Pins) + m
    BY <1>3 DEF Connections
  <2> QED BY <1>7, <2>1, <2>2, <2>3
<1> HIDE DEF W
<1>10. Cardinality(L) <= Cardinality(W)
  <2> HIDE DEF L
  <2> QED BY <1>4, <1>9, NotMoreThanPlaces
<1>11. Cardinality(L) = n - Size
  <2>1. Cardinality(Size + 1 .. n) = IF Size + 1 > n THEN 0 ELSE n - (Size + 1) + 1
    BY <1>2, FS_Interval
  <2> QED BY <1>2, <2>1
<1>12. Cardinality(W) \in Nat
  BY <1>9, FS_CardinalityType
<1> HIDE DEF L
<1> QED BY <1>1, <1>2, <1>9, <1>10, <1>11, <1>12

LEMMA IInvGivesMirrored == IInv => Mirrored
<1> SUFFICES ASSUME IInv PROVE Mirrored
  OBVIOUS
<1>1. PICK n \in Nat : n = Len(gates) /\ DOMAIN gates = 1 .. n
  BY GatesTyped DEF IInv
<1>2. \A g \in DOMAIN gates : gates[g] \in GateData
  <2>1. GateData = GateAmong(n)
    BY <1>1 DEF GateData, GateAmong
  <2> QED BY <1>1, <2>1, GatesTyped DEF IInv
<1>3. Len(gates) <= Len(file.ins) + Connections
  BY GrowthBound DEF Size
<1>4. j \in 1 .. Len(gates) + 1 /\ i \in 1 .. Len(gates) + 1
  <2>1. Size \in Nat /\ Size <= n /\ j \in 1 .. Size + 1 /\ i = 1
    BY <1>1, GatesTyped DEF IInv, Typed
  <2> QED BY <1>1, <2>1
<1>5. TypeOK
  BY <1>2, <1>3, <1>4 DEF IInv, Typed, TypeOK
<1> QED BY <1>5 DEF IInv, SameStory, Mirrored

LEMMA IInvGivesStemsAreSplit == IInv => StemsAreSplit
<1> SUFFICES ASSUME IInv, pc = "done" PROVE StemsAreSplit
  BY DEF StemsAreSplit
<1>1. PICK n \in Nat : n = Len(gates) /\ DOMAIN gates = 1 .. n
  BY GatesTyped DEF IInv
<1>2. /\ Originals = 1 .. Size /\ Size \in Nat /\ Size <= n /\ POs \in Seq(1 .. n)
      /\ \A g \in 1 .. n : gates[g].fanouts \in Seq(1 .. n)
  BY <1>1, GatesTyped DEF IInv, Typed, Originals
<1>3. \A g \in 1 .. n : IsLine(g) <=> g > Size
  BY <1>1 DEF IInv, LinesFollow
<1>4. \A g \in 1 .. n : g > Size => LineBetween(gates[g], Size)
  BY <1>1 DEF IInv, LinesFollow
<1>5. \A g \in 1 .. Size : Passed(g)
  <2>1. j > Size /\ j \in Nat
    BY <1>2 DEF IInv, Progress, Typed
  <2>2. \A g \in 1 .. Size : g < j
    BY <1>2, <2>1
  <2> QED BY <1>2, <2>2 DEF IInv, Progress
<1>6. Range(POs) = {g \in DOMAIN gates : gates[g].isPO}
  <2>1. \A g \in 1 .. n : Count(POs, g) = IF gates[g].isPO THEN 1 ELSE 0
    BY <1>1 DEF IInv, OutputsListed
  <2>2. \A g : Count(POs, g) > 0 <=> \E k \in DOMAIN POs : POs[k] = g
    BY <1>2, CountPositive
  <2>3. \A g \in 1 .. n : gates[g].isPO <=> g \in Range(POs)
    BY <2>1, <2>2 DEF Range
  <2>4. \A g \in Range(POs) : g \in 1 .. n
    BY <1>2 DEF Range
  <2> QED BY <1>1, <2>3, <2>4
<1>7. ASSUME NEW g \in 1 .. n, gates[g].isPO
      PROVE  gates[g].fanouts = <<>>
  <2>1. CASE g > Size
    BY <1>4, <1>7, <2>1 DEF LineBetween
  <2>2. CASE ~(g > Size)
    <3>1. g \in 1 .. Size
      BY <1>2, <2>2
    <3>2. ~(Branches(g) >= 2)
      BY <1>5, <1>7, <3>1 DEF Passed
    <3>3. PICK s \in Seq(1 .. n) : s = gates[g].fanouts
      BY <1>2
    <3>4. Len(s) + 1 = Branches(g)
      BY <1>2, <1>7, <3>1, <3>3, StemBranches
    <3>5. Len(s) = 0
      BY <3>2, <3>3, <3>4
    <3> QED BY <3>3, <3>5
  <2> QED BY <2>1, <2>2
<1>8. ASSUME NEW g \in 1 .. n, IsLine(g)
      PROVE  /\ Len(gates[g].fanins) = 1 /\ ~IsLine(gates[g].fanins[1])
             /\ Len(gates[g].fanouts) = IF gates[g].isPO THEN 0 ELSE 1
             /\ ~gates[g].is_stem
  <2>1. LineBetween(gates[g], Size)
    BY <1>3, <1>4, <1>8
  <2>2. gates[g].fanins[1] \in 1 .. Size
    BY <2>1 DEF LineBetween
  <2>3. ~IsLine(gates[g].fanins[1])
    <3>1. \A h \in 1 .. Size : h \in 1 .. n /\ ~(h > Size)
      BY <1>2
    <3> QED BY <1>3, <2>2, <3>1
  <2>4. CASE gates[g].isPO
    <3>1. Len(<<>>) = 0
      OBVIOUS
    <3> QED BY <2>1, <2>3, <2>4, <3>1 DEF LineBetween
  <2>5. CASE ~gates[g].isPO
    BY <2>1, <2>3, <2>5 DEF LineBetween
  <2> QED BY <2>4, <2>5
<1>9. ASSUME NEW g \in 1 .. n, ~IsLine(g)
      PROVE  /\ gates[g].is_stem <=> Branches(g) >= 2
             /\ IF Branches(g) >= 2
                THEN Len(gates[g].fanouts) = Branches(g)
                     /\ \A k \in DOMAIN gates[g].fanouts : IsLine(gates[g].fanouts[k])
                ELSE \A k \in DOMAIN gates[g].fanouts : ~IsLine(gates[g].fanouts[k])
  <2>1. g \in 1 .. Size
    BY <1>2, <1>3, <1>9
  <2>2. PICK s \in Seq(1 .. n) : s = gates[g].fanouts
    BY <1>2
  <2>3. \A k \in DOMAIN s : s[k] \in 1 .. n
    BY <2>2
  <2>4. gates[g].is_stem <=> Branches(g) >= 2
    BY <1>5, <2>1 DEF Passed
  <2>5. CASE Branches(g) >= 2
    <3>1. ~gates[g].isPO /\ \A k \in DOMAIN s : s[k] > Size
      BY <1>5, <2>1, <2>2, <2>4, <2>5 DEF Passed
    <3>2. Len(s) + 0 = Branches(g) /\ Len(s) \in Nat
      BY <1>2, <2>1, <2>2, <3>1, StemBranches
    <3>3. \A k \in DOMAIN s : IsLine(s[k])
      BY <1>3, <2>3, <3>1
    <3> QED BY <2>2, <2>4, <2>5, <3>2, <3>3
  <2>6. CASE ~(Branches(g) >= 2)
    <3>1. \A k \in DOMAIN s : s[k] <= Size
      BY <1>5, <2>1, <2>2, <2>4, <2>6 DEF Passed
    <3>2. \A k \in DOMAIN s : ~IsLine(s[k])
      BY <1>2, <1>3, <2>3, <3>1
    <3> QED BY <2>2, <2>4, <2>6, <3>2
  <2> QED BY <2>5, <2>6
<1>10. \A g \in Range(POs) : gates[g].fanouts = <<>>
  BY <1>1, <1>6, <1>7
<1> QED BY <1>1, <1>6, <1>8, <1>9, <1>10 DEF StemsAreSplit

------------------------------------------------------------------------------
\* Circuit::insert_lines_for_stem keeps fanins and fanouts mirrored at every step
\* of its walk, although it changes the vectors it walks, and gives a gate no
\* more lines than it has connections.
THEOREM FaninsMirrorFanouts == Spec => []Mirrored
BY SpecHasIInv, IInvGivesMirrored, PTL

\* The lines that are put in do not change the circuit: each gate reads what the
\* file says, as often, and so do the outputs, in the middle of the walk too.
THEOREM LinesAreTransparent == Spec => []SameCircuit
<1>1. IInv => SameCircuit
  BY DEF IInv
<1> QED BY <1>1, SpecHasIInv, PTL

\* When the walk ends, is_stem marks the gates with two branches or more, and each
\* branch of these has its own line, for the fault of the branch.
THEOREM EveryBranchHasItsLine == Spec => []StemsAreSplit
BY SpecHasIInv, IInvGivesStemsAreSplit, PTL
\* What is chosen of s after k places, from what is chosen before.
ChosenUpTo(s, S, c, k) ==
  IF k = 0 THEN <<>> ELSE IF s[k] \in S THEN Append(c[k - 1], s[k]) ELSE c[k - 1]

\* c[k] is what is chosen after k places.
Chooses(c, s, S, T, n) ==
  /\ c \in [0 .. n -> Seq(T)]
  /\ \A k \in 0 .. n : c[k] = ChosenUpTo(s, S, c, k)
  /\ Chosen(s, S) = c[n]

LEMMA ChosenParts ==
  ASSUME NEW T, NEW s \in Seq(T), NEW S, NEW n, n = Len(s)
  PROVE  \E c : Chooses(c, s, S, T, n)
<1> DEFINE I == 0 .. n
           Q == Seq(T)
           D == [k \in I |-> [f \in [I -> Q] |-> ChosenUpTo(s, S, f, k)]]
           rank == [k \in I |-> k]
<1>1. n \in Nat /\ DOMAIN s = 1 .. n
  OBVIOUS
<1>2. rank \in [I -> Nat] /\ Q # {} /\ <<>> \in Q
  OBVIOUS
<1>3. \A k \in I : k = 0 \/ (k - 1 \in I /\ k - 1 < k /\ k \in 1 .. n /\ k # 0)
  BY <1>1
<1>4. ASSUME NEW k \in I, NEW f \in [I -> Q]
      PROVE  D[k][f] = ChosenUpTo(s, S, f, k) /\ ChosenUpTo(s, S, f, k) \in Q
  <2>1. D[k][f] = ChosenUpTo(s, S, f, k)
    OBVIOUS
  <2>2. CASE k = 0
    BY <1>2, <2>2 DEF ChosenUpTo
  <2>3. CASE k # 0
    <3>1. f[k - 1] \in Q /\ s[k] \in T
      BY <1>1, <1>3, <2>3
    <3>2. Append(f[k - 1], s[k]) \in Q
      BY <3>1, AppendProperties
    <3> HIDE DEF Q
    <3> QED BY <2>3, <3>1, <3>2 DEF ChosenUpTo
  <2> QED BY <2>1, <2>2, <2>3
<1>5. ASSUME NEW k \in I, NEW f \in [I -> Q], NEW g \in [I -> Q],
             \A m \in I : rank[m] < rank[k] => f[m] = g[m]
      PROVE  D[k][f] = D[k][g]
  <2>1. CASE k = 0
    BY <1>4, <2>1 DEF ChosenUpTo
  <2>2. CASE k # 0
    <3>1. f[k - 1] = g[k - 1]
      BY <1>3, <1>5, <2>2
    <3> QED BY <1>4, <3>1 DEF ChosenUpTo
  <2> QED BY <2>1, <2>2
<1>6. Delivers(D, I, Q) /\ ReadsBelow(D, I, Q, rank)
  BY <1>4, <1>5 DEF Delivers, ReadsBelow
<1>7. \E f \in [I -> Q] : Solves(f, D, I)
  <2> HIDE DEF D, I, Q, rank
  <2> QED BY <1>2, <1>6, RankedRecursion
<1>8. PICK f \in [I -> Q] : \A k \in I : f[k] = ChosenUpTo(s, S, f, k)
  BY <1>4, <1>7 DEF Solves
<1> DEFINE Rec(h) == [k \in I |-> IF k = 0 THEN <<>>
                                  ELSE IF s[k] \in S THEN Append(h[k - 1], s[k]) ELSE h[k - 1]]
           c == CHOOSE h : h = Rec(h)
<1>9. f = Rec(f)
  BY <1>8 DEF ChosenUpTo
<1>10. c = Rec(c)
  <2> HIDE DEF Rec
  <2> QED BY <1>9
<1>11. Chosen(s, S) = c[n]
  BY DEF Chosen
<1> HIDE DEF c
<1>12. DOMAIN c = I /\ \A k \in I : c[k] = ChosenUpTo(s, S, c, k)
  BY <1>10 DEF ChosenUpTo
<1> DEFINE B == {k \in Nat : k \in I => c[k] \in Q}
<1>13. 0 \in B
  BY <1>1, <1>2, <1>12 DEF ChosenUpTo
<1>14. ASSUME NEW k \in B PROVE k + 1 \in B
  <2> SUFFICES ASSUME k + 1 \in I PROVE c[k + 1] \in Q
    OBVIOUS
  <2>1. PICK m \in I : m = k + 1 /\ m - 1 = k /\ m # 0 /\ k \in I
    BY <1>1
  <2>2. c[m - 1] \in Q /\ s[m] \in T
    BY <1>1, <2>1
  <2>3. Append(c[m - 1], s[m]) \in Q
    BY <2>2, AppendProperties
  <2>4. c[m] = ChosenUpTo(s, S, c, m)
    BY <1>12
  <2>5. c[m] \in Q
    <3> HIDE DEF Q, I
    <3> QED BY <2>1, <2>2, <2>3, <2>4 DEF ChosenUpTo
  <2> QED BY <2>1, <2>5
<1>15. B = Nat
  <2>1. B \in SUBSET Nat
    OBVIOUS
  <2> HIDE DEF B
  <2> QED BY <1>13, <1>14, <2>1, InductionOverNat
<1>16. \A k \in I : c[k] \in Q
  <2>1. \A k \in I : k \in B
    BY <1>15
  <2> HIDE DEF I, Q
  <2> QED BY <2>1
<1>17. c \in [I -> Q]
  <2>1. c = [k \in I |-> c[k]]
    BY <1>10
  <2> HIDE DEF I, Q
  <2> QED BY <1>16, <2>1
<1> QED BY <1>11, <1>12, <1>17 DEF Chooses

LEMMA AppendNew ==
  ASSUME NEW T, NEW c \in Seq(T), NEW x \in T, IsInjective(c), x \notin Range(c)
  PROVE  /\ Append(c, x) \in Seq(T) /\ IsInjective(Append(c, x))
         /\ Range(Append(c, x)) = Range(c) \cup {x}
<1>1. PICK m \in Nat : m = Len(c) /\ DOMAIN c = 1 .. m
  OBVIOUS
<1>2. PICK a : a = Append(c, x)
  OBVIOUS
<1>3. /\ a \in Seq(T) /\ DOMAIN a = 1 .. m + 1 /\ a[m + 1] = x
      /\ \A k \in 1 .. m : a[k] = c[k]
  <2>1. /\ Append(c, x) \in Seq(T) /\ Len(Append(c, x)) = Len(c) + 1
        /\ Append(c, x)[Len(c) + 1] = x
        /\ \A k \in 1 .. Len(c) : Append(c, x)[k] = c[k]
    BY AppendProperties
  <2> QED BY <1>1, <1>2, <2>1, SeqElements
<1>4. \A k \in 1 .. m + 1 : k \in 1 .. m \/ k = m + 1
  OBVIOUS
<1>5. m + 1 \in 1 .. m + 1 /\ \A k \in 1 .. m : k \in 1 .. m + 1
  OBVIOUS
<1>6. \A k \in 1 .. m : c[k] # x /\ c[k] \in Range(c)
  BY <1>1 DEF Range
<1>7. IsInjective(a)
  <2>1. \A k, l \in 1 .. m : c[k] = c[l] => k = l
    BY <1>1 DEF IsInjective
  <2>2. ASSUME NEW k \in 1 .. m + 1, NEW l \in 1 .. m + 1, a[k] = a[l]
        PROVE  k = l
    BY <1>3, <1>4, <1>6, <2>1, <2>2
  <2> QED BY <1>3, <2>2 DEF IsInjective
<1>8. Range(a) = Range(c) \cup {x}
  <2>1. \A y \in Range(a) : y \in Range(c) \/ y = x
    BY <1>1, <1>3, <1>4 DEF Range
  <2>2. \A y \in Range(c) : y \in Range(a)
    BY <1>1, <1>3, <1>5 DEF Range
  <2>3. x \in Range(a)
    BY <1>3, <1>5 DEF Range
  <2> QED BY <2>1, <2>2, <2>3
<1> QED BY <1>2, <1>3, <1>7, <1>8

\* c lists the elements of s that are in S, each once.
Lists(c, s, S, T) ==
  c \in Seq(T) /\ IsInjective(c) /\ Range(c) = Range(s) \cap S

LEMMA ChosenLists ==
  ASSUME NEW T, NEW s \in Seq(T), IsInjective(s), NEW S
  PROVE  Lists(Chosen(s, S), s, S, T)
<1>1. PICK n \in Nat : n = Len(s) /\ DOMAIN s = 1 .. n
  OBVIOUS
<1>a. PICK c : Chooses(c, s, S, T, n)
  BY <1>1, ChosenParts
<1>2. /\ c \in [0 .. n -> Seq(T)]
      /\ \A k \in 0 .. n : c[k] = ChosenUpTo(s, S, c, k)
      /\ Chosen(s, S) = c[n]
  BY <1>a DEF Chooses
<1> DEFINE Seen(k) == {s[l] : l \in 1 .. k}
           Good(k) == IsInjective(c[k]) /\ Range(c[k]) = Seen(k) \cap S
           B == {k \in Nat : k <= n => Good(k)}
<1>3. 0 \in B
  <2>1. c[0] = <<>>
    BY <1>2 DEF ChosenUpTo
  <2>2. IsInjective(<<>>) /\ Range(<<>>) = {}
    BY DEF IsInjective, Range
  <2>3. Seen(0) = {}
    OBVIOUS
  <2> QED BY <2>1, <2>2, <2>3
<1>4. ASSUME NEW k \in B PROVE k + 1 \in B
  <2>1. k \in Nat
    OBVIOUS
  <2> HIDE DEF Good
  <2> SUFFICES ASSUME k + 1 <= n PROVE Good(k + 1)
    BY <2>1
  <2>2. PICK m \in 1 .. n : m = k + 1 /\ m - 1 = k /\ m # 0 /\ m \in 0 .. n /\ k \in 0 .. n
    BY <2>1
  <2>3. Good(k)
    BY <2>1, <2>2
  <2> USE DEF Good
  <2>4. Seen(m) = Seen(k) \cup {s[m]}
    <3>1. \A l : l \in 1 .. m <=> l \in 1 .. k \/ l = m
      BY <2>1, <2>2
    <3> QED BY <3>1
  <2>5. s[m] \notin Seen(k)
    <3>1. \A l \in 1 .. k : l \in 1 .. n /\ l # m
      BY <2>1, <2>2
    <3>2. \A l \in 1 .. n : s[l] = s[m] => l = m
      BY <1>1, <2>2 DEF IsInjective
    <3> QED BY <3>1, <3>2
  <2>6. c[m] = ChosenUpTo(s, S, c, m) /\ c[k] \in Seq(T) /\ s[m] \in T
    <3>1. c[m] = ChosenUpTo(s, S, c, m)
      BY <1>2, <2>2
    <3>2. c[k] \in Seq(T)
      BY <1>2, <2>2
    <3>3. s[m] \in T
      BY <1>1, <2>2
    <3> QED BY <3>1, <3>2, <3>3
  <2> HIDE DEF Seen
  <2>7. CASE s[m] \in S
    <3>1. c[m] = Append(c[k], s[m])
      BY <2>2, <2>6, <2>7 DEF ChosenUpTo
    <3>2. s[m] \notin Range(c[k])
      BY <2>3, <2>5
    <3>3. IsInjective(Append(c[k], s[m])) /\ Range(Append(c[k], s[m])) = Range(c[k]) \cup {s[m]}
      BY <2>3, <2>6, <3>2, AppendNew
    <3>4. Range(c[m]) = Seen(m) \cap S
      BY <2>3, <2>4, <2>7, <3>1, <3>3
    <3> QED BY <2>2, <3>1, <3>3, <3>4
  <2>8. CASE s[m] \notin S
    <3>1. c[m] = c[k]
      BY <2>2, <2>6, <2>8 DEF ChosenUpTo
    <3>2. Range(c[m]) = Seen(m) \cap S
      BY <2>3, <2>4, <2>8, <3>1
    <3> QED BY <2>2, <2>3, <3>1, <3>2
  <2> QED BY <2>7, <2>8
<1>5. Good(n)
  <2>1. B = Nat
    <3>1. B \in SUBSET Nat
      OBVIOUS
    <3> HIDE DEF B
    <3> QED BY <1>3, <1>4, <3>1, InductionOverNat
  <2> HIDE DEF Good
  <2>2. n \in Nat /\ n <= n
    BY <1>1
  <2>3. n \in B
    BY <2>1, <2>2
  <2> QED BY <2>2, <2>3
<1>6. Seen(n) = Range(s)
  BY <1>1 DEF Range
<1>7. c[n] \in Seq(T)
  BY <1>2
<1> QED BY <1>2, <1>5, <1>6, <1>7 DEF Lists

------------------------------------------------------------------------------
\* The numbers below t are given out, each to one of n gates; 0 is none.
GivenOut(n, num, t) ==
  /\ t \in Nat /\ t >= 1 /\ num \in [1 .. n -> Nat]
  /\ \A g \in 1 .. n : num[g] < t
  /\ \A g, h \in 1 .. n : num[g] = num[h] /\ num[g] > 0 => g = h
  /\ \A k \in 1 .. t - 1 : \E g \in 1 .. n : num[g] = k

\* The gates of c get the numbers from t.
GoesOn(n, num, new, c, t) ==
  /\ new \in [1 .. n -> Nat]
  /\ \A k \in 1 .. Len(c) : new[c[k]] = t - 1 + k
  /\ \A g \in 1 .. n : g \notin Range(c) => new[g] = num[g]

LEMMA NumbersGoOn ==
  ASSUME NEW n \in Nat, NEW num, NEW t, GivenOut(n, num, t), NEW c \in Seq(1 .. n),
         IsInjective(c), NEW new,
         new = [g \in 1 .. n |-> IF g \in Range(c) THEN t - 1 + (CHOOSE k \in DOMAIN c : c[k] = g)
                                 ELSE num[g]]
  PROVE  GoesOn(n, num, new, c, t)
<1>1. PICK m \in Nat : m = Len(c) /\ DOMAIN c = 1 .. m
  OBVIOUS
<1>2. t \in Nat /\ t >= 1 /\ num \in [1 .. n -> Nat]
  BY DEF GivenOut
<1>3. ASSUME NEW g \in Range(c)
      PROVE  (CHOOSE k \in DOMAIN c : c[k] = g) \in DOMAIN c
  BY DEF Range
<1>4. ASSUME NEW g \in 1 .. n
      PROVE  new[g] \in Nat
  <2>1. CASE g \in Range(c)
    <3>1. PICK k : k = CHOOSE l \in DOMAIN c : c[l] = g
      OBVIOUS
    <3>2. k \in 1 .. m
      BY <1>1, <1>3, <2>1, <3>1
    <3>3. new[g] = t - 1 + k
      BY <2>1, <3>1
    <3> QED BY <1>2, <3>2, <3>3
  <2>2. CASE g \notin Range(c)
    BY <1>2, <2>2
  <2> QED BY <2>1, <2>2
<1>5. new \in [1 .. n -> Nat]
  BY <1>4
<1>6. ASSUME NEW k \in 1 .. m
      PROVE  new[c[k]] = t - 1 + k
  <2>1. c[k] \in 1 .. n /\ c[k] \in Range(c)
    BY <1>1 DEF Range
  <2>2. \A l \in DOMAIN c : c[l] = c[k] => l = k
    BY <1>1 DEF IsInjective
  <2>3. (CHOOSE l \in DOMAIN c : c[l] = c[k]) = k
    BY <1>1, <2>2
  <2> QED BY <2>1, <2>3
<1> QED BY <1>1, <1>5, <1>6 DEF GoesOn

LEMMA StillGivenOut ==
  ASSUME NEW n \in Nat, NEW num, NEW t, GivenOut(n, num, t), NEW c \in Seq(1 .. n),
         \A g \in Range(c) : num[g] = 0, NEW new, GoesOn(n, num, new, c, t)
  PROVE  GivenOut(n, new, t + Len(c))
<1>1. PICK m \in Nat : m = Len(c) /\ DOMAIN c = 1 .. m
  OBVIOUS
<1>2. /\ t \in Nat /\ t >= 1 /\ num \in [1 .. n -> Nat]
      /\ \A g \in 1 .. n : num[g] < t
      /\ \A g, h \in 1 .. n : num[g] = num[h] /\ num[g] > 0 => g = h
      /\ \A k \in 1 .. t - 1 : \E g \in 1 .. n : num[g] = k
  BY DEF GivenOut
<1>3. /\ new \in [1 .. n -> Nat]
      /\ \A k \in 1 .. m : new[c[k]] = t - 1 + k
      /\ \A g \in 1 .. n : g \notin Range(c) => new[g] = num[g]
  BY <1>1 DEF GoesOn
<1>4. \A g \in Range(c) : \E k \in 1 .. m : c[k] = g
  BY <1>1 DEF Range
<1>5. ASSUME NEW g \in Range(c)
      PROVE  new[g] >= t /\ new[g] < t + m
  <2>1. PICK k \in 1 .. m : c[k] = g
    BY <1>4
  <2>2. new[g] = t - 1 + k
    BY <1>3, <2>1
  <2> QED BY <1>2, <2>2
<1>6. ASSUME NEW g \in 1 .. n
      PROVE  new[g] < t + m
  <2>1. CASE g \in Range(c)
    BY <1>5, <2>1
  <2>2. CASE g \notin Range(c)
    <3>1. new[g] = num[g] /\ num[g] < t /\ num[g] \in Nat
      BY <1>2, <1>3, <2>2
    <3> QED BY <1>2, <3>1
  <2> QED BY <2>1, <2>2
<1>7. ASSUME NEW g \in 1 .. n, NEW h \in 1 .. n, new[g] = new[h], new[g] > 0
      PROVE  g = h
  <2>1. CASE g \in Range(c) /\ h \in Range(c)
    <3>1. PICK k \in 1 .. m : c[k] = g
      BY <1>4, <2>1
    <3>2. PICK l \in 1 .. m : c[l] = h
      BY <1>4, <2>1
    <3>3. t - 1 + k = t - 1 + l
      BY <1>3, <1>7, <3>1, <3>2
    <3> QED BY <1>2, <3>1, <3>2, <3>3
  <2>2. CASE g \notin Range(c) /\ h \notin Range(c)
    BY <1>2, <1>3, <1>7, <2>2
  <2>3. CASE g \in Range(c) /\ h \notin Range(c)
    BY <1>2, <1>3, <1>5, <1>7, <2>3
  <2>4. CASE g \notin Range(c) /\ h \in Range(c)
    BY <1>2, <1>3, <1>5, <1>7, <2>4
  <2> QED BY <2>1, <2>2, <2>3, <2>4
<1>8. ASSUME NEW k \in 1 .. (t + m) - 1
      PROVE  \E g \in 1 .. n : new[g] = k
  <2>1. CASE k < t
    <3>1. k \in 1 .. t - 1 /\ k > 0
      BY <1>2, <2>1
    <3>2. PICK g \in 1 .. n : num[g] = k
      BY <1>2, <3>1
    <3>3. g \notin Range(c)
      BY <3>1, <3>2
    <3> QED BY <1>3, <3>2, <3>3
  <2>2. CASE ~(k < t)
    <3>1. PICK l \in 1 .. m : l = k - t + 1
      BY <1>2, <2>2
    <3>2. new[c[l]] = k /\ c[l] \in 1 .. n
      <4>1. new[c[l]] = t - 1 + l
        BY <1>3, <3>1
      <4>2. c[l] \in 1 .. n
        BY <1>1
      <4>3. t - 1 + l = k
        BY <1>2, <3>1
      <4> QED BY <4>1, <4>2, <4>3
    <3> QED BY <3>2
  <2> QED BY <2>1, <2>2
<1>9. t + m \in Nat /\ t + m >= 1
  BY <1>2
<1> QED BY <1>1, <1>3, <1>6, <1>7, <1>8, <1>9 DEF GivenOut

------------------------------------------------------------------------------
\* The places of g in a walk whose gate has no number below b.
Missing(pre, num, g, b) ==
  {k \in DOMAIN pre[g] : ~(0 < num[pre[g][k]] /\ num[pre[g][k]] < b)}

\* A walk along the connections, suc ahead and pre behind, with the queue s: the
\* gates below the first of the queue have been walked, w counts the connections
\* to a gate that have not, and a gate has its number when there are none.
Walks(n, pre, num, w, s, t) ==
  /\ n \in Nat /\ GivenOut(n, num, t)
  /\ s \in Seq(1 .. n) /\ Len(s) < t
  /\ \A k \in 1 .. Len(s) : num[s[k]] = t - Len(s) - 1 + k
  /\ w \in [1 .. n -> Nat]
  /\ \A g \in 1 .. n : w[g] = Cardinality(Missing(pre, num, g, t - Len(s)))
  /\ \A g \in 1 .. n : w[g] = 0 <=> num[g] > 0
  /\ \A g \in 1 .. n : num[g] > 0 =>
       \A k \in DOMAIN pre[g] : 0 < num[pre[g][k]] /\ num[pre[g][k]] < num[g]

\* suc leads where pre comes from, and no gate leads to another twice.
Connects(n, pre, suc) ==
  /\ pre \in [1 .. n -> Seq(1 .. n)] /\ suc \in [1 .. n -> Seq(1 .. n)]
  /\ \A g, h \in 1 .. n : Count(suc[g], h) = Count(pre[h], g)
  /\ \A g \in 1 .. n : IsInjective(suc[g])

\* One turn of the walk: u leaves the queue, the gates c get their numbers.
Turns(n, suc, num, w, s, t, u, c, new) ==
  /\ s # <<>> /\ u = s[1]
  /\ Lists(c, suc[u], {g \in 1 .. n : w[g] = 1}, 1 .. n)
  /\ GoesOn(n, num, new, c, t)

\* What the turn does to the numbers: u is the gate with the number b.
TurnFacts(n, num, s, t, u, c, new, b) ==
  /\ n \in Nat /\ b \in Nat /\ b >= 1 /\ b + 1 <= t /\ t \in Nat
  /\ u \in 1 .. n /\ num[u] = b /\ s \in Seq(1 .. n) /\ c \in Seq(1 .. n)
  /\ num \in [1 .. n -> Nat] /\ new \in [1 .. n -> Nat]
  /\ \A g \in Range(c) : num[g] = 0 /\ new[g] >= t /\ g \in 1 .. n
  /\ \A g \in 1 .. n : g \notin Range(c) => new[g] = num[g]
  /\ \A g \in 1 .. n : (0 < new[g] /\ new[g] < b + 1)
                         <=> (0 < num[g] /\ num[g] < b) \/ g = u
  /\ GivenOut(n, new, t + Len(c))

LEMMA TurnNumbers ==
  ASSUME NEW n, NEW pre, NEW suc, NEW num, NEW w, NEW s, NEW t, NEW u, NEW c, NEW new, NEW b,
         Walks(n, pre, num, w, s, t), Connects(n, pre, suc),
         Turns(n, suc, num, w, s, t, u, c, new), b = t - Len(s)
  PROVE  TurnFacts(n, num, s, t, u, c, new, b)
<1>1. PICK m \in Nat : m = Len(s)
  BY DEF Walks
<1>2. /\ n \in Nat /\ t \in Nat /\ num \in [1 .. n -> Nat] /\ GivenOut(n, num, t)
      /\ \A g, h \in 1 .. n : num[g] = num[h] /\ num[g] > 0 => g = h
      /\ \A g \in 1 .. n : num[g] < t
      /\ s \in Seq(1 .. n) /\ m < t
      /\ \A k \in 1 .. m : num[s[k]] = t - m - 1 + k
      /\ \A g \in 1 .. n : w[g] = 0 <=> num[g] > 0
  BY <1>1 DEF Walks, GivenOut
<1>3. s # <<>> /\ u = s[1]
  BY DEF Turns
<1>4. m >= 1 /\ 1 \in 1 .. m /\ u \in 1 .. n
  BY <1>1, <1>2, <1>3
<1>5. b \in Nat /\ b >= 1 /\ b + 1 <= t /\ num[u] = b
  <2>1. num[u] = t - m - 1 + 1
    BY <1>2, <1>3, <1>4
  <2> QED BY <1>1, <1>2, <1>4, <2>1
<1>6. /\ c \in Seq(1 .. n) /\ IsInjective(c)
      /\ \A g \in Range(c) : g \in 1 .. n /\ w[g] = 1
  BY DEF Turns, Lists
<1>7. \A g \in Range(c) : num[g] = 0
  <2> SUFFICES ASSUME NEW g \in Range(c) PROVE num[g] = 0
    OBVIOUS
  <2>1. g \in 1 .. n /\ w[g] = 1
    BY <1>6
  <2>2. num[g] \in Nat /\ (w[g] = 0 <=> num[g] > 0)
    BY <1>2, <2>1
  <2> QED BY <2>1, <2>2
<1>8. PICK l \in Nat : l = Len(c) /\ DOMAIN c = 1 .. l
  BY <1>6
<1>9. /\ new \in [1 .. n -> Nat]
      /\ \A k \in 1 .. l : new[c[k]] = t - 1 + k
      /\ \A g \in 1 .. n : g \notin Range(c) => new[g] = num[g]
  BY <1>8 DEF Turns, GoesOn
<1>10. ASSUME NEW g \in Range(c) PROVE new[g] >= t
  <2>1. PICK k \in 1 .. l : c[k] = g
    BY <1>8 DEF Range
  <2>2. new[g] = t - 1 + k
    BY <1>9, <2>1
  <2> QED BY <1>2, <2>2
<1>11. GivenOut(n, new, t + Len(c))
  BY <1>2, <1>6, <1>7, StillGivenOut DEF Turns
<1>12. ASSUME NEW g \in 1 .. n
       PROVE  (0 < new[g] /\ new[g] < b + 1) <=> (0 < num[g] /\ num[g] < b) \/ g = u
  <2>1. num[g] \in Nat /\ new[g] \in Nat
    BY <1>2, <1>9
  <2>2. CASE g \in Range(c)
    <3>1. num[g] = 0 /\ new[g] >= t
      BY <1>7, <1>10, <2>2
    <3>2. g # u
      BY <1>5, <3>1
    <3> QED BY <1>2, <1>5, <2>1, <3>1, <3>2
  <2>3. CASE g \notin Range(c)
    <3>1. new[g] = num[g]
      BY <1>9, <2>3
    <3>2. num[g] = b <=> g = u
      <4>1. num[g] = num[u] /\ num[g] > 0 => g = u
        BY <1>2, <1>4
      <4>2. num[u] = b /\ b > 0
        BY <1>5
      <4> QED BY <4>1, <4>2
    <3> QED BY <1>5, <2>1, <3>1, <3>2
  <2> QED BY <2>2, <2>3
<1> QED
  BY <1>2, <1>4, <1>5, <1>6, <1>7, <1>9, <1>10, <1>11, <1>12 DEF TurnFacts

\* What the turn leaves missing.
LEMMA TurnCounts ==
  ASSUME NEW n, NEW pre, NEW suc, NEW num, NEW w, NEW s, NEW t, NEW u, NEW c, NEW new, NEW b,
         Walks(n, pre, num, w, s, t), Connects(n, pre, suc),
         Turns(n, suc, num, w, s, t, u, c, new), b = t - Len(s), NEW g \in 1 .. n
  PROVE  /\ w[g] - Count(suc[u], g) = Cardinality(Missing(pre, new, g, b + 1))
         /\ IsFiniteSet(Missing(pre, new, g, b + 1))
         /\ w[g] - Count(suc[u], g) \in Nat
         /\ w[g] - Count(suc[u], g) = 0 <=> new[g] > 0
<1>1. /\ u \in 1 .. n /\ num[u] = b /\ b \in Nat /\ b >= 1
      /\ num \in [1 .. n -> Nat] /\ new \in [1 .. n -> Nat]
      /\ \A x \in 1 .. n : (0 < new[x] /\ new[x] < b + 1)
                             <=> (0 < num[x] /\ num[x] < b) \/ x = u
      /\ \A x \in Range(c) : new[x] >= t /\ num[x] = 0
      /\ \A x \in 1 .. n : x \notin Range(c) => new[x] = num[x]
      /\ t \in Nat /\ b + 1 <= t
  <2>1. TurnFacts(n, num, s, t, u, c, new, b)
    BY TurnNumbers
  <2> QED BY <2>1 DEF TurnFacts
<1>2. /\ w \in [1 .. n -> Nat]
      /\ w[g] = Cardinality(Missing(pre, num, g, b))
      /\ w[g] = 0 <=> num[g] > 0
  BY DEF Walks
<1>3. /\ pre[g] \in Seq(1 .. n) /\ suc[u] \in Seq(1 .. n) /\ IsInjective(suc[u])
      /\ Count(suc[u], g) = Count(pre[g], u)
  BY <1>1 DEF Connects
<1>4. PICK d \in Nat : d = Len(pre[g]) /\ DOMAIN pre[g] = 1 .. d
  BY <1>3
<1>5. \A k \in 1 .. d : pre[g][k] \in 1 .. n
  BY <1>3, <1>4, SeqElements
<1> DEFINE Before == Missing(pre, num, g, b)
           After == Missing(pre, new, g, b + 1)
           Walked == Places(pre[g], u)
<1>6. After = Before \ Walked /\ Walked \subseteq Before
  <2>1. ASSUME NEW k \in 1 .. d
        PROVE  k \in After <=> k \in Before /\ k \notin Walked
    <3>1. PICK x \in 1 .. n : x = pre[g][k]
      BY <1>5
    <3>2. (0 < new[x] /\ new[x] < b + 1) <=> (0 < num[x] /\ num[x] < b) \/ x = u
      BY <1>1
    <3> QED BY <1>4, <3>1, <3>2 DEF Missing, Places
  <2>2. ASSUME NEW k \in Walked PROVE k \in Before
    <3>1. k \in 1 .. d /\ pre[g][k] = u
      BY <1>4 DEF Places
    <3>2. ~(num[u] < b)
      BY <1>1
    <3> QED BY <1>4, <3>1, <3>2 DEF Missing
  <2>3. After \subseteq 1 .. d /\ Before \subseteq 1 .. d
    BY <1>4 DEF Missing
  <2> HIDE DEF After, Before, Walked
  <2> QED BY <2>1, <2>2, <2>3
<1>7. IsFiniteSet(Before) /\ IsFiniteSet(Walked) /\ Cardinality(Walked) = Count(suc[u], g)
  <2>1. IsFiniteSet(1 .. d)
    BY FS_Interval
  <2>2. Before \in SUBSET (1 .. d)
    BY <1>4 DEF Missing
  <2>3. IsFiniteSet(Before)
    <3> HIDE DEF Before
    <3> QED BY <2>1, <2>2, FS_Subset
  <2> QED BY <1>3, <2>3, CountPlaces
<1> HIDE DEF Before, After, Walked
<1>8. IsFiniteSet(After) /\ Cardinality(After) = w[g] - Count(suc[u], g)
  <2>1. Cardinality(Before \cap Walked) = Cardinality(Walked)
    <3>1. Before \cap Walked = Walked
      BY <1>6
    <3> QED BY <3>1
  <2>2. IsFiniteSet(Before \ Walked)
        /\ Cardinality(Before \ Walked) = Cardinality(Before) - Cardinality(Before \cap Walked)
    BY <1>7, FS_Difference
  <2> QED BY <1>2, <1>6, <1>7, <2>1, <2>2 DEF Before
<1>9. Cardinality(After) \in Nat
  BY <1>8, FS_CardinalityType
<1>10. Count(suc[u], g) = IF g \in Range(suc[u]) THEN 1 ELSE 0
  BY <1>3, CountInjective
<1>11. g \in Range(c) <=> g \in Range(suc[u]) /\ w[g] = 1
  BY DEF Turns, Lists
<1>12. w[g] - Count(suc[u], g) = 0 <=> new[g] > 0
  <2>1. PICK v \in Nat : v = w[g]
    BY <1>2
  <2>2. PICK k \in Nat : k = Count(suc[u], g) /\ v - k \in Nat
                         /\ k = IF g \in Range(suc[u]) THEN 1 ELSE 0
    BY <1>8, <1>9, <1>10, <2>1
  <2>3. num[g] \in Nat /\ new[g] \in Nat
    BY <1>1
  <2>4. CASE g \in Range(c)
    <3>1. new[g] >= t
      BY <1>1, <2>4
    <3>2. v = 1 /\ k = 1
      BY <1>11, <2>1, <2>2, <2>4
    <3> QED BY <1>1, <2>1, <2>2, <2>3, <3>1, <3>2
  <2>5. CASE g \notin Range(c)
    <3>1. new[g] = num[g]
      BY <1>1, <2>5
    <3>2. ~(g \in Range(suc[u]) /\ v = 1)
      BY <1>11, <2>1, <2>5
    <3>3. v - k = 0 <=> v = 0
      BY <2>2, <3>2
    <3> QED BY <1>2, <2>1, <2>2, <3>1, <3>3
  <2> QED BY <2>4, <2>5
<1> QED BY <1>8, <1>9, <1>12 DEF After

\* The queue has the numbers from b + 1 on, in their order.
LEMMA TurnQueue ==
  ASSUME NEW n, NEW pre, NEW suc, NEW num, NEW w, NEW s, NEW t, NEW u, NEW c, NEW new, NEW b,
         Walks(n, pre, num, w, s, t), Connects(n, pre, suc),
         Turns(n, suc, num, w, s, t, u, c, new), b = t - Len(s)
  PROVE  /\ Tail(s) \o c \in Seq(1 .. n)
         /\ (t + Len(c)) - Len(Tail(s) \o c) = b + 1
         /\ Len(Tail(s) \o c) < t + Len(c)
         /\ \A k \in 1 .. Len(Tail(s) \o c) : new[(Tail(s) \o c)[k]] = b + k
<1>1. /\ n \in Nat /\ b \in Nat /\ b >= 1 /\ t \in Nat /\ b + 1 <= t
      /\ s \in Seq(1 .. n) /\ c \in Seq(1 .. n) /\ num \in [1 .. n -> Nat]
      /\ \A x \in Range(c) : num[x] = 0
      /\ \A x \in 1 .. n : x \notin Range(c) => new[x] = num[x]
  <2>1. TurnFacts(n, num, s, t, u, c, new, b)
    BY TurnNumbers
  <2> QED BY <2>1 DEF TurnFacts
<1>2. PICK m \in Nat : m = Len(s) /\ DOMAIN s = 1 .. m /\ m >= 1
  BY <1>1 DEF Turns
<1>3. PICK l \in Nat : l = Len(c) /\ DOMAIN c = 1 .. l
  BY <1>1
<1>4. PICK r : r = Tail(s)
  OBVIOUS
<1>5. /\ r \in Seq(1 .. n) /\ Len(r) = m - 1 /\ \A k \in 1 .. m - 1 : r[k] = s[k + 1]
  <2>1. s # <<>>
    BY DEF Turns
  <2>2. Tail(s) \in Seq(1 .. n) /\ Len(Tail(s)) = Len(s) - 1
        /\ \A k \in 1 .. Len(Tail(s)) : Tail(s)[k] = s[k + 1]
    BY <1>1, <2>1, HeadTailProperties
  <2>3. m - 1 \in Nat
    BY <1>2
  <2>4. r \in Seq(1 .. n) /\ Len(r) = m - 1
    BY <1>2, <1>4, <2>2
  <2>5. \A k \in 1 .. Len(r) : r[k] = s[k + 1]
    BY <1>4, <2>2
  <2> QED BY <2>4, <2>5
<1>6. PICK j2 : j2 = r \o c
  OBVIOUS
<1>7. /\ j2 \in Seq(1 .. n) /\ Len(j2) = m - 1 + l
      /\ \A k \in 1 .. m - 1 + l : j2[k] = IF k <= m - 1 THEN r[k] ELSE c[k - (m - 1)]
  <2>1. /\ r \o c \in Seq(1 .. n) /\ Len(r \o c) = Len(r) + Len(c)
        /\ \A k \in 1 .. Len(r) + Len(c) :
             (r \o c)[k] = IF k <= Len(r) THEN r[k] ELSE c[k - Len(r)]
    BY <1>1, <1>5, ConcatProperties
  <2> QED BY <1>3, <1>5, <1>6, <2>1
<1>8. ASSUME NEW k \in 1 .. m - 1 + l
      PROVE  new[j2[k]] = b + k
  <2>1. CASE k <= m - 1
    <3>1. PICK y \in 1 .. m : y = k + 1
      BY <2>1
    <3>2. j2[k] = s[y]
      BY <1>5, <1>7, <2>1, <3>1
    <3>3. num[s[y]] = b - 1 + y
      <4>1. \A k2 \in 1 .. Len(s) : num[s[k2]] = t - Len(s) - 1 + k2
        BY DEF Walks
      <4> QED BY <1>2, <4>1
    <3>4. s[y] \in 1 .. n
      <4>1. s \in Seq(1 .. n) /\ y \in DOMAIN s
        BY <1>1, <1>2
      <4> QED BY <4>1, SeqElements
    <3>5. num[s[y]] = b + k
      BY <1>1, <3>1, <3>3
    <3>6. s[y] \notin Range(c)
      BY <1>1, <3>5
    <3> QED BY <1>1, <3>2, <3>4, <3>5, <3>6
  <2>2. CASE ~(k <= m - 1)
    <3>1. PICK y \in 1 .. l : y = k - (m - 1)
      BY <1>2, <2>2
    <3>2. j2[k] = c[y]
      BY <1>7, <2>2, <3>1
    <3>3. new[c[y]] = t - 1 + y
      BY <1>3 DEF Turns, GoesOn
    <3>4. t - 1 + y = b + k
      BY <1>1, <1>2, <3>1
    <3> QED BY <3>2, <3>3, <3>4
  <2> QED BY <2>1, <2>2
<1>9. (t + l) - (m - 1 + l) = b + 1 /\ m - 1 + l < t + l
  BY <1>1, <1>2
<1> QED BY <1>3, <1>4, <1>6, <1>7, <1>8, <1>9

LEMMA TurnKeepsWalks ==
  ASSUME NEW n, NEW pre, NEW suc, NEW num, NEW w, NEW s, NEW t, NEW u, NEW c, NEW new,
         Walks(n, pre, num, w, s, t), Connects(n, pre, suc),
         Turns(n, suc, num, w, s, t, u, c, new),
         NEW v, v = [g \in 1 .. n |-> w[g] - Count(suc[u], g)]
  PROVE  Walks(n, pre, new, v, Tail(s) \o c, t + Len(c))
<1>1. PICK b : b = t - Len(s)
  OBVIOUS
<1>2. /\ n \in Nat /\ b \in Nat /\ b >= 1 /\ t \in Nat /\ b + 1 <= t
      /\ num \in [1 .. n -> Nat] /\ new \in [1 .. n -> Nat]
      /\ \A g \in Range(c) : num[g] = 0 /\ new[g] >= t
      /\ \A g \in 1 .. n : g \notin Range(c) => new[g] = num[g]
      /\ GivenOut(n, new, t + Len(c)) /\ c \in Seq(1 .. n)
  <2>1. TurnFacts(n, num, s, t, u, c, new, b)
    BY <1>1, TurnNumbers
  <2> QED BY <2>1 DEF TurnFacts
<1>3. PICK r : r = Tail(s) \o c
  OBVIOUS
<1>4. PICK t2 : t2 = t + Len(c)
  OBVIOUS
<1>5. /\ r \in Seq(1 .. n) /\ t2 - Len(r) = b + 1 /\ Len(r) < t2
      /\ \A k \in 1 .. Len(r) : new[r[k]] = b + k
  <2>1. /\ Tail(s) \o c \in Seq(1 .. n)
        /\ (t + Len(c)) - Len(Tail(s) \o c) = b + 1
        /\ Len(Tail(s) \o c) < t + Len(c)
        /\ \A k \in 1 .. Len(Tail(s) \o c) : new[(Tail(s) \o c)[k]] = b + k
    BY <1>1, TurnQueue
  <2>2. r \in Seq(1 .. n)
    BY <1>3, <2>1
  <2>3. t2 - Len(r) = b + 1
    BY <1>3, <1>4, <2>1
  <2>4. Len(r) < t2
    BY <1>3, <1>4, <2>1
  <2>5. \A k \in 1 .. Len(r) : new[r[k]] = b + k
    BY <1>3, <2>1
  <2> QED BY <2>2, <2>3, <2>4, <2>5
<1>6. \A g \in 1 .. n :
        /\ v[g] = Cardinality(Missing(pre, new, g, b + 1))
        /\ IsFiniteSet(Missing(pre, new, g, b + 1))
        /\ v[g] \in Nat /\ (v[g] = 0 <=> new[g] > 0)
  <2> SUFFICES ASSUME NEW g \in 1 .. n
               PROVE  /\ v[g] = Cardinality(Missing(pre, new, g, b + 1))
                      /\ IsFiniteSet(Missing(pre, new, g, b + 1))
                      /\ v[g] \in Nat /\ (v[g] = 0 <=> new[g] > 0)
    OBVIOUS
  <2>1. /\ w[g] - Count(suc[u], g) = Cardinality(Missing(pre, new, g, b + 1))
        /\ IsFiniteSet(Missing(pre, new, g, b + 1))
        /\ w[g] - Count(suc[u], g) \in Nat
        /\ w[g] - Count(suc[u], g) = 0 <=> new[g] > 0
    BY <1>1, TurnCounts
  <2>2. v[g] = w[g] - Count(suc[u], g)
    OBVIOUS
  <2> QED BY <2>1, <2>2
<1>7. v \in [1 .. n -> Nat]
  BY <1>6
<1>8. \A k \in 1 .. Len(r) : new[r[k]] = t2 - Len(r) - 1 + k
  <2>1. b \in Int /\ t2 - Len(r) - 1 = b
    <3>1. t2 \in Int /\ Len(r) \in Int
      BY <1>2, <1>4, <1>5
    <3> QED BY <1>2, <1>5, <3>1
  <2> QED BY <1>5, <2>1
<1>9. ASSUME NEW g \in 1 .. n, new[g] > 0, NEW k \in DOMAIN pre[g]
      PROVE  0 < new[pre[g][k]] /\ new[pre[g][k]] < new[g]
  <2>1. PICK x \in 1 .. n : x = pre[g][k]
    <3>1. PICK y \in Seq(1 .. n) : y = pre[g]
      BY DEF Connects
    <3>2. \A l \in DOMAIN y : y[l] \in 1 .. n
      BY SeqElements
    <3> QED BY <3>1, <3>2
  <2>2. num[g] \in Nat /\ num[x] \in Nat /\ new[g] \in Nat /\ new[x] \in Nat
    BY <1>2
  <2>3. CASE g \in Range(c)
    <3>1. Missing(pre, new, g, b + 1) = {}
      <4>1. Cardinality(Missing(pre, new, g, b + 1)) = 0
        BY <1>6, <1>9
      <4> QED BY <1>6, <4>1, FS_EmptySet
    <3>2. 0 < new[x] /\ new[x] < b + 1
      BY <2>1, <3>1 DEF Missing
    <3>3. new[g] >= t
      BY <1>2, <2>3
    <3>4. PICK a \in Nat, e \in Nat : a = new[x] /\ e = new[g]
      BY <2>2
    <3>5. b + 1 <= t /\ t \in Nat /\ b \in Nat
      BY <1>2
    <3>6. 0 < a /\ a < e
      BY <3>2, <3>3, <3>4, <3>5
    <3> QED BY <2>1, <3>4, <3>6
  <2>4. CASE g \notin Range(c)
    <3>1. new[g] = num[g]
      BY <1>2, <2>4
    <3>2. 0 < num[x] /\ num[x] < num[g]
      <4>1. num[g] > 0 => \A l \in DOMAIN pre[g] : 0 < num[pre[g][l]] /\ num[pre[g][l]] < num[g]
        BY DEF Walks
      <4> QED BY <1>9, <2>1, <3>1, <4>1
    <3>3. x \notin Range(c)
      <4>1. x \in Range(c) => num[x] = 0
        BY <1>2
      <4> QED BY <2>2, <3>2, <4>1
    <3>4. new[x] = num[x]
      BY <1>2, <3>3
    <3> QED BY <2>1, <3>1, <3>2, <3>4
  <2> QED BY <2>3, <2>4
<1>10. \A g \in 1 .. n : v[g] = Cardinality(Missing(pre, new, g, t2 - Len(r)))
  BY <1>5, <1>6
<1>11. Walks(n, pre, new, v, r, t2)
  BY <1>2, <1>4, <1>5, <1>6, <1>7, <1>8, <1>9, <1>10 DEF Walks
<1> QED BY <1>3, <1>4, <1>11

\* The walk starts with the gates that nothing is behind.
LEMMA WalkStarts ==
  ASSUME NEW n \in Nat, NEW pre, pre \in [1 .. n -> Seq(1 .. n)],
         NEW c \in Seq(1 .. n), \A g \in 1 .. n : g \in Range(c) <=> Len(pre[g]) = 0,
         NEW none, none = [g \in 1 .. n |-> 0], NEW num, GoesOn(n, none, num, c, 1),
         NEW w, w = [g \in 1 .. n |-> Len(pre[g])]
  PROVE  Walks(n, pre, num, w, c, Len(c) + 1)
<1>1. PICK m \in Nat : m = Len(c) /\ DOMAIN c = 1 .. m
  OBVIOUS
<1>2. \A g \in 1 .. n : none[g] = 0
  OBVIOUS
<1>3. /\ num \in [1 .. n -> Nat]
      /\ \A k \in 1 .. m : num[c[k]] = k
      /\ \A g \in 1 .. n : g \notin Range(c) => num[g] = 0
  BY <1>1, <1>2 DEF GoesOn
<1>4. GivenOut(n, num, m + 1)
  <2>1. none \in [1 .. n -> Nat]
    OBVIOUS
  <2>2. GivenOut(n, none, 1)
    BY <1>2, <2>1 DEF GivenOut
  <2>3. \A g \in Range(c) : none[g] = 0
    <3>1. \A g \in Range(c) : g \in 1 .. n
      BY <1>1 DEF Range
    <3> QED BY <1>2, <3>1
  <2>4. GivenOut(n, num, 1 + Len(c))
    BY <2>2, <2>3, StillGivenOut
  <2>5. 1 + Len(c) = m + 1
    BY <1>1
  <2> QED BY <2>4, <2>5
<1>5. \A g \in 1 .. n : pre[g] \in Seq(1 .. n) /\ Len(pre[g]) \in Nat /\ DOMAIN pre[g] = 1 .. Len(pre[g])
  <2> SUFFICES ASSUME NEW g \in 1 .. n
               PROVE  pre[g] \in Seq(1 .. n) /\ Len(pre[g]) \in Nat /\ DOMAIN pre[g] = 1 .. Len(pre[g])
    OBVIOUS
  <2>1. PICK y \in Seq(1 .. n) : y = pre[g]
    OBVIOUS
  <2> QED BY <2>1, SeqElements
<1>6. w \in [1 .. n -> Nat]
  BY <1>5
<1>7. ASSUME NEW g \in 1 .. n
      PROVE  w[g] = Cardinality(Missing(pre, num, g, 1))
  <2>1. PICK y \in Seq(1 .. n) : y = pre[g]
    OBVIOUS
  <2>2. \A k \in DOMAIN y : ~(0 < num[y[k]] /\ num[y[k]] < 1)
    <3> SUFFICES ASSUME NEW k \in DOMAIN y PROVE ~(0 < num[y[k]] /\ num[y[k]] < 1)
      OBVIOUS
    <3>1. y[k] \in 1 .. n
      BY SeqElements
    <3>2. num[y[k]] \in Nat
      BY <1>3, <3>1
    <3> QED BY <3>2
  <2>3. Missing(pre, num, g, 1) = 1 .. Len(pre[g])
    BY <1>5, <2>1, <2>2 DEF Missing
  <2>4. Cardinality(1 .. Len(pre[g])) = Len(pre[g])
    <3>1. PICK l \in Nat : l = Len(pre[g])
      BY <1>5
    <3>2. Cardinality(1 .. l) = l
      <4>1. 1 \in Int /\ l \in Int
        OBVIOUS
      <4>2. Cardinality(1 .. l) = IF 1 > l THEN 0 ELSE l - 1 + 1
        BY <4>1, FS_Interval
      <4> QED BY <4>2
    <3> QED BY <3>1, <3>2
  <2> QED BY <2>3, <2>4
<1>8. ASSUME NEW g \in 1 .. n
      PROVE  (w[g] = 0 <=> num[g] > 0) /\ (num[g] > 0 => DOMAIN pre[g] = {})
  <2>1. w[g] = 0 <=> g \in Range(c)
    OBVIOUS
  <2>2. CASE g \in Range(c)
    <3>1. PICK k \in 1 .. m : c[k] = g
      BY <1>1, <2>2 DEF Range
    <3>2. num[g] = k
      BY <1>3, <3>1
    <3>3. DOMAIN pre[g] = {}
      <4>1. Len(pre[g]) = 0
        BY <2>2
      <4>2. DOMAIN pre[g] = 1 .. 0
        BY <1>5, <4>1
      <4> QED BY <4>2
    <3> QED BY <2>1, <2>2, <3>2, <3>3
  <2>3. CASE g \notin Range(c)
    BY <1>3, <2>1, <2>3
  <2> QED BY <2>2, <2>3
<1>9. (m + 1) - m = 1 /\ m < m + 1 /\ \A k \in 1 .. m : (m + 1) - m - 1 + k = k
  BY <1>1
<1>10. \A g \in 1 .. n : w[g] = Cardinality(Missing(pre, num, g, (m + 1) - m))
  BY <1>7, <1>9
<1>11. \A g \in 1 .. n : num[g] > 0 =>
         \A k \in DOMAIN pre[g] : 0 < num[pre[g][k]] /\ num[pre[g][k]] < num[g]
  BY <1>8
<1>12. \A k \in 1 .. m : num[c[k]] = (m + 1) - m - 1 + k
  BY <1>3, <1>9
<1> HIDE DEF Missing
<1> QED BY <1>1, <1>4, <1>6, <1>8, <1>9, <1>10, <1>11, <1>12 DEF Walks

\* rank grows along the connections.
Grows(n, pre, rank) ==
  /\ rank \in [1 .. n -> Nat]
  /\ \A g \in 1 .. n : \A k \in DOMAIN pre[g] : rank[pre[g][k]] < rank[g]

\* The gates are numbered 1, 2, ..., n, each behind the ones it depends on.
AllNumbered(n, pre, num) ==
  /\ DOMAIN num = 1 .. n /\ IsInjective(num) /\ Range(num) = 1 .. n
  /\ \A g \in 1 .. n : \A k \in DOMAIN pre[g] : num[pre[g][k]] < num[g]

LEMMA WalkEnds ==
  ASSUME NEW n, NEW pre, NEW num, NEW w, NEW t, Walks(n, pre, num, w, <<>>, t),
         pre \in [1 .. n -> Seq(1 .. n)], NEW rank, Grows(n, pre, rank)
  PROVE  AllNumbered(n, pre, num)
<1>1. /\ n \in Nat /\ t \in Nat /\ t >= 1 /\ num \in [1 .. n -> Nat] /\ w \in [1 .. n -> Nat]
      /\ \A g \in 1 .. n : num[g] < t
      /\ \A g, h \in 1 .. n : num[g] = num[h] /\ num[g] > 0 => g = h
      /\ \A k \in 1 .. t - 1 : \E g \in 1 .. n : num[g] = k
      /\ \A g \in 1 .. n : w[g] = 0 <=> num[g] > 0
      /\ \A g \in 1 .. n : num[g] > 0 =>
           \A k \in DOMAIN pre[g] : 0 < num[pre[g][k]] /\ num[pre[g][k]] < num[g]
  BY DEF Walks, GivenOut
<1>2. \A g \in 1 .. n : w[g] = Cardinality(Missing(pre, num, g, t))
  <2>1. Len(<<>>) = 0 /\ t - 0 = t
    BY <1>1
  <2>2. \A g \in 1 .. n : w[g] = Cardinality(Missing(pre, num, g, t - Len(<<>>)))
    BY DEF Walks
  <2> QED BY <2>1, <2>2
<1>3. /\ rank \in [1 .. n -> Nat]
      /\ \A g \in 1 .. n : \A k \in DOMAIN pre[g] : rank[pre[g][k]] < rank[g]
  BY DEF Grows
<1>4. ASSUME NEW g \in 1 .. n, NEW k \in DOMAIN pre[g]
      PROVE  pre[g][k] \in 1 .. n
  <2>1. PICK y \in Seq(1 .. n) : y = pre[g]
    OBVIOUS
  <2> QED BY <2>1, SeqElements
<1> DEFINE B == {m \in Nat : \A g \in 1 .. n : rank[g] < m => num[g] > 0}
<1>5. 0 \in B
  BY <1>3
<1>6. ASSUME NEW m \in B PROVE m + 1 \in B
  <2>1. m \in Nat /\ \A g \in 1 .. n : rank[g] < m => num[g] > 0
    OBVIOUS
  <2>2. ASSUME NEW g \in 1 .. n, rank[g] < m + 1 PROVE num[g] > 0
    <3>1. ASSUME NEW k \in DOMAIN pre[g]
          PROVE  0 < num[pre[g][k]] /\ num[pre[g][k]] < t
      <4>1. PICK x \in 1 .. n : x = pre[g][k]
        BY <1>4
      <4>2. rank[x] < rank[g] /\ rank[x] \in Nat /\ rank[g] \in Nat
        BY <1>3, <4>1
      <4>3. rank[x] < m
        BY <2>1, <2>2, <4>2
      <4>4. num[x] > 0 /\ num[x] < t /\ num[x] \in Nat
        BY <1>1, <2>1, <4>3
      <4> QED BY <4>1, <4>4
    <3>2. Missing(pre, num, g, t) = {}
      BY <3>1 DEF Missing
    <3>3. w[g] = 0
      BY <1>2, <3>2, FS_EmptySet
    <3> QED BY <1>1, <3>3
  <2>3. m + 1 \in Nat
    BY <2>1
  <2> QED BY <2>2, <2>3
<1>7. B = Nat
  <2>1. B \in SUBSET Nat
    OBVIOUS
  <2> HIDE DEF B
  <2> QED BY <1>5, <1>6, <2>1, InductionOverNat
<1>8. ASSUME NEW g \in 1 .. n PROVE num[g] > 0
  <2>1. rank[g] \in Nat
    BY <1>3
  <2>2. rank[g] + 1 \in B
    BY <1>7, <2>1
  <2> QED BY <2>1, <2>2
<1>9. num \in Bijection(1 .. n, 1 .. t - 1)
  <2>1. \A g \in 1 .. n : num[g] \in 1 .. t - 1
    BY <1>1, <1>8
  <2>2. num \in [1 .. n -> 1 .. t - 1]
    BY <1>1, <2>1
  <2>3. \A g, h \in 1 .. n : num[g] = num[h] => g = h
    BY <1>1, <1>8
  <2> QED BY <1>1, <2>2, <2>3 DEF Bijection, Injection, Surjection, IsInjective
<1>10. t - 1 = n
  <2>1. t - 1 \in Nat /\ n \in Nat /\ 1 \in Int
    BY <1>1
  <2>2. PICK l \in Nat : l = t - 1
    BY <2>1
  <2>3. IsFiniteSet(1 .. n) /\ Cardinality(1 .. n) = n
    <3>1. IsFiniteSet(1 .. n) /\ Cardinality(1 .. n) = IF 1 > n THEN 0 ELSE n - 1 + 1
      BY <2>1, FS_Interval
    <3> QED BY <2>1, <3>1
  <2>4. Cardinality(1 .. l) = l
    <3>1. Cardinality(1 .. l) = IF 1 > l THEN 0 ELSE l - 1 + 1
      BY <2>1, FS_Interval
    <3> QED BY <3>1
  <2>5. Cardinality(1 .. l) = Cardinality(1 .. n)
    <3>1. ExistsBijection(1 .. n, 1 .. l)
      BY <1>9, <2>2 DEF ExistsBijection
    <3> QED BY <2>3, <3>1, FS_Bijection
  <2> QED BY <2>2, <2>3, <2>4, <2>5
<1>11. DOMAIN num = 1 .. n /\ IsInjective(num) /\ Range(num) = 1 .. n
  <2>1. DOMAIN num = 1 .. n
    BY <1>1
  <2>2. IsInjective(num)
    BY <1>1, <1>8, <2>1 DEF IsInjective
  <2>3. \A k \in 1 .. n : \E g \in 1 .. n : num[g] = k
    BY <1>1, <1>10
  <2>4. ASSUME NEW g \in 1 .. n PROVE num[g] \in 1 .. n
    <3>1. PICK x \in Nat : x = num[g] /\ x < t /\ x > 0
      BY <1>1, <1>8
    <3>2. t \in Nat /\ n \in Nat
      BY <1>1
    <3>3. x \in 1 .. n
      BY <1>10, <3>1, <3>2
    <3> QED BY <3>1, <3>3
  <2>5. Range(num) = 1 .. n
    BY <2>1, <2>3, <2>4 DEF Range
  <2> QED BY <2>1, <2>2, <2>5
<1>12. \A g \in 1 .. n : \A k \in DOMAIN pre[g] : num[pre[g][k]] < num[g]
  BY <1>1, <1>8
<1> QED BY <1>11, <1>12 DEF AllNumbered

------------------------------------------------------------------------------
\* The two directions of the netlist.
Fanins  == [g \in DOMAIN gates |-> gates[g].fanins]
Fanouts == [g \in DOMAIN gates |-> gates[g].fanouts]

\* Nothing is twice in a sequence that counts nothing twice.
LEMMA CountedOnceIsInjective ==
  ASSUME NEW T, NEW s \in Seq(T), \A e : Count(s, e) <= 1
  PROVE  IsInjective(s)
<1>1. SUFFICES ASSUME NEW k \in DOMAIN s, NEW l \in DOMAIN s, s[k] = s[l], k # l
               PROVE  FALSE
  BY DEF IsInjective
<1>2. PICK e : e = s[k]
  OBVIOUS
<1>3. /\ Count(s, e) = Cardinality(Places(s, e)) /\ IsFiniteSet(Places(s, e))
      /\ Count(s, e) \in Nat
  BY CountPlaces
<1>4. Count(s, e) <= 1
  OBVIOUS
<1>5. k \in Places(s, e) /\ l \in Places(s, e)
  BY <1>1, <1>2 DEF Places
<1>6. IsFiniteSet(Places(s, e) \ {k})
      /\ Cardinality(Places(s, e) \ {k}) = Cardinality(Places(s, e)) - 1
  BY <1>3, <1>5, FS_RemoveElement
<1>7. Cardinality(Places(s, e) \ {k}) \in Nat /\ l \in Places(s, e) \ {k}
  BY <1>1, <1>5, <1>6, FS_CardinalityType
<1>8. Cardinality(Places(s, e) \ {k}) = 0
  BY <1>3, <1>4, <1>6, <1>7
<1> QED BY <1>6, <1>7, <1>8, FS_EmptySet

LEMMA ShortIsInjective ==
  ASSUME NEW T, NEW s \in Seq(T), Len(s) <= 1
  PROVE  IsInjective(s)
<1>1. Len(s) \in Nat /\ DOMAIN s = 1 .. Len(s)
  BY SeqElements
<1>2. \A k, l \in DOMAIN s : k = l
  BY <1>1
<1> QED BY <1>2 DEF IsInjective

\* What holds of a gate when the lines are in.
LEMMA SplitNetlist ==
  ASSUME IInv, pc = "done"
  PROVE  /\ Len(gates) \in Nat /\ DOMAIN gates = 1 .. Len(gates)
         /\ Size \in Nat /\ Size <= Len(gates)
         /\ \A g \in 1 .. Len(gates) :
              /\ gates[g].fanins \in Seq(1 .. Len(gates)) /\ gates[g].fanouts \in Seq(1 .. Len(gates))
              /\ g > Size => LineBetween(gates[g], Size)
              /\ \/ Len(gates[g].fanouts) <= 1
                 \/ \A k \in DOMAIN gates[g].fanouts : gates[g].fanouts[k] > Size
<1>1. PICK n \in Nat : n = Len(gates) /\ DOMAIN gates = 1 .. n
  BY GatesTyped DEF IInv
<1>2. /\ Originals = 1 .. Size /\ Size \in Nat /\ Size <= n
      /\ \A g \in 1 .. n : gates[g].fanins \in Seq(1 .. n) /\ gates[g].fanouts \in Seq(1 .. n)
  BY <1>1, GatesTyped DEF IInv, Typed, Originals
<1>3. \A g \in 1 .. n : g > Size => LineBetween(gates[g], Size)
  BY <1>1 DEF IInv, LinesFollow
<1>4. \A g \in 1 .. Size : Passed(g)
  <2>1. j > Size /\ j \in Nat
    BY <1>2 DEF IInv, Progress, Typed
  <2>2. \A g \in 1 .. Size : g < j
    BY <1>2, <2>1
  <2> QED BY <1>2, <2>2 DEF IInv, Progress
<1>5. ASSUME NEW g \in 1 .. n
      PROVE  \/ Len(gates[g].fanouts) <= 1
             \/ \A k \in DOMAIN gates[g].fanouts : gates[g].fanouts[k] > Size
  <2>1. CASE g > Size
    <3>1. LineBetween(gates[g], Size)
      BY <1>3, <2>1
    <3>2. Len(<<>>) = 0
      OBVIOUS
    <3>3. Len(gates[g].fanouts) = 0 \/ Len(gates[g].fanouts) = 1
      BY <3>1, <3>2 DEF LineBetween
    <3>4. PICK x : x = Len(gates[g].fanouts)
      OBVIOUS
    <3>5. x = 0 \/ x = 1
      BY <3>3, <3>4, Zenon
    <3>6. x <= 1
      BY <3>5
    <3> QED BY <3>4, <3>6
  <2>2. CASE ~(g > Size)
    <3>1. g \in 1 .. Size /\ Passed(g)
      BY <1>2, <1>4, <2>2
    <3>2. CASE gates[g].is_stem
      BY <3>1, <3>2 DEF Passed
    <3>3. CASE ~gates[g].is_stem
      <4>1. ~(Branches(g) >= 2)
        BY <3>1, <3>3 DEF Passed
      <4>2. /\ Len(gates[g].fanouts) \in Nat
            /\ Len(gates[g].fanouts) + (IF gates[g].isPO THEN 1 ELSE 0) = Branches(g)
        BY <1>2, <3>1, StemBranches
      <4>3. PICK x \in Nat : x = IF gates[g].isPO THEN 1 ELSE 0
        OBVIOUS
      <4>4. PICK b : b = Branches(g)
        OBVIOUS
      <4>5. PICK l \in Nat : l = Len(gates[g].fanouts)
        BY <4>2
      <4>6. l + x = b /\ ~(b >= 2)
        BY <4>1, <4>2, <4>3, <4>4, <4>5
      <4>7. l <= 1
        BY <4>3, <4>6
      <4> QED BY <4>5, <4>7
    <3> QED BY <3>2, <3>3
  <2> QED BY <2>1, <2>2
<1> QED BY <1>1, <1>2, <1>3, <1>5

\* The counts of the two directions, taken from the netlist.
LEMMA CountsMirror ==
  ASSUME IInv
  PROVE  /\ \A g, h \in DOMAIN gates : Count(Fanouts[g], h) = Count(Fanins[h], g)
         /\ \A g \in DOMAIN gates : Fanouts[g] = gates[g].fanouts /\ Fanins[g] = gates[g].fanins
BY DEF IInv, SameStory, Fanins, Fanouts

LEMMA NothingTwice ==
  ASSUME IInv, pc = "done", NEW n, n = Len(gates)
  PROVE  Connects(n, Fanins, Fanouts) /\ Connects(n, Fanouts, Fanins)
<1>1. /\ n \in Nat /\ DOMAIN gates = 1 .. n /\ Size \in Nat /\ Size <= n
      /\ \A g \in 1 .. n :
           /\ gates[g].fanins \in Seq(1 .. n) /\ gates[g].fanouts \in Seq(1 .. n)
           /\ g > Size => LineBetween(gates[g], Size)
           /\ \/ Len(gates[g].fanouts) <= 1
              \/ \A k \in DOMAIN gates[g].fanouts : gates[g].fanouts[k] > Size
  BY SplitNetlist
<1>2. /\ \A g, h \in 1 .. n : Count(Fanouts[g], h) = Count(Fanins[h], g)
      /\ \A g \in 1 .. n : Fanouts[g] = gates[g].fanouts /\ Fanins[g] = gates[g].fanins
  BY <1>1, CountsMirror
<1>3. Fanins \in [1 .. n -> Seq(1 .. n)] /\ Fanouts \in [1 .. n -> Seq(1 .. n)]
  BY <1>1 DEF Fanins, Fanouts
<1>4. ASSUME NEW s \in Seq(1 .. n), NEW e, e \notin 1 .. n
      PROVE  Count(s, e) <= 1
  <2>1. \A k \in DOMAIN s : s[k] # e
    BY <1>4, SeqElements
  <2>2. Count(s, e) \in Nat /\ ~(Count(s, e) > 0)
    BY <2>1, CountPositive, CountPlaces
  <2> QED BY <2>2
<1>5. ASSUME NEW g \in 1 .. n PROVE IsInjective(Fanouts[g])
  <2>1. PICK s \in Seq(1 .. n) : s = Fanouts[g] /\ s = gates[g].fanouts
    BY <1>1, <1>2
  <2>2. CASE Len(s) <= 1
    BY <2>1, <2>2, ShortIsInjective
  <2>3. CASE \A k \in DOMAIN s : s[k] > Size
    <3>1. ASSUME NEW e \in 1 .. n PROVE Count(s, e) <= 1
      <4>1. Count(s, e) \in Nat /\ (Count(s, e) > 0 <=> \E k \in DOMAIN s : s[k] = e)
        BY CountPositive, CountPlaces
      <4>2. CASE e > Size
        <5>1. PICK p \in Seq(1 .. n) : p = Fanins[e] /\ p = gates[e].fanins
          BY <1>1, <1>2
        <5>2. Len(p) = 1
          BY <1>1, <4>2, <5>1 DEF LineBetween
        <5>3. IsInjective(p)
          <6>1. Len(p) <= 1
            BY <5>2
          <6> QED BY <6>1, ShortIsInjective
        <5>4. Count(p, g) = IF g \in Range(p) THEN 1 ELSE 0
          BY <5>3, CountInjective
        <5>5. Count(s, e) = Count(p, g)
          BY <1>2, <2>1, <5>1
        <5> QED BY <4>1, <5>4, <5>5
      <4>3. CASE ~(e > Size)
        <5>1. \A k \in DOMAIN s : s[k] # e
          BY <2>3, <4>3
        <5> QED BY <4>1, <5>1
      <4> QED BY <4>2, <4>3
    <3>2. \A e : Count(s, e) <= 1
      BY <1>4, <3>1
    <3> QED BY <2>1, <3>2, CountedOnceIsInjective
  <2> QED BY <1>1, <2>1, <2>2, <2>3
<1>6. ASSUME NEW g \in 1 .. n PROVE IsInjective(Fanins[g])
  <2>1. PICK s \in Seq(1 .. n) : s = Fanins[g]
    BY <1>3
  <2>2. ASSUME NEW e \in 1 .. n PROVE Count(s, e) <= 1
    <3>1. PICK p \in Seq(1 .. n) : p = Fanouts[e]
      BY <1>3
    <3>2. IsInjective(p)
      BY <1>5, <3>1
    <3>3. Count(p, g) = IF g \in Range(p) THEN 1 ELSE 0
      BY <3>2, CountInjective
    <3>4. Count(s, e) = Count(p, g)
      BY <1>2, <2>1, <3>1
    <3>5. Count(p, g) = 1 \/ Count(p, g) = 0
      BY <3>3
    <3> QED BY <3>4, <3>5
  <2>3. \A e : Count(s, e) <= 1
    BY <1>4, <2>2
  <2> QED BY <2>1, <2>3, CountedOnceIsInjective
<1> QED BY <1>2, <1>3, <1>5, <1>6 DEF Connects

\* A rank for the walk forward: a line comes between its stem and the readers.
FileRank == [g \in DOMAIN gates |-> IF g > Size THEN 2 * gates[g].fanins[1] + 1 ELSE 2 * g]

LEMMA FileRankIs ==
  ASSUME IInv, pc = "done", NEW n, n = Len(gates)
  PROVE  \A g \in 1 .. n :
           /\ FileRank[g] \in Nat /\ FileRank[g] <= 2 * Size + 1
           /\ g <= Size => FileRank[g] = 2 * g
           /\ g > Size => /\ gates[g].fanins[1] \in 1 .. Size /\ Len(gates[g].fanins) = 1
                          /\ FileRank[g] = 2 * gates[g].fanins[1] + 1
<1>1. /\ n \in Nat /\ DOMAIN gates = 1 .. n /\ Size \in Nat /\ Size <= n
      /\ \A g \in 1 .. n : g > Size => LineBetween(gates[g], Size)
  BY SplitNetlist
<1> SUFFICES ASSUME NEW g \in 1 .. n
             PROVE  /\ FileRank[g] \in Nat /\ FileRank[g] <= 2 * Size + 1
                    /\ g <= Size => FileRank[g] = 2 * g
                    /\ g > Size => /\ gates[g].fanins[1] \in 1 .. Size /\ Len(gates[g].fanins) = 1
                                   /\ FileRank[g] = 2 * gates[g].fanins[1] + 1
  OBVIOUS
<1>2. FileRank[g] = IF g > Size THEN 2 * gates[g].fanins[1] + 1 ELSE 2 * g
  BY <1>1 DEF FileRank
<1>3. CASE g > Size
  <2>1. gates[g].fanins[1] \in 1 .. Size /\ Len(gates[g].fanins) = 1
    BY <1>1, <1>3 DEF LineBetween
  <2>2. PICK x \in 1 .. Size : x = gates[g].fanins[1]
    BY <2>1
  <2>3. PICK r : r = FileRank[g]
    OBVIOUS
  <2>4. r = 2 * x + 1
    BY <1>2, <1>3, <2>2, <2>3
  <2>5. r \in Nat /\ r <= 2 * Size + 1 /\ ~(g <= Size)
    BY <1>1, <1>3, <2>2, <2>4
  <2> QED BY <2>1, <2>2, <2>3, <2>4, <2>5
<1>4. CASE ~(g > Size)
  <2>1. PICK r : r = FileRank[g]
    OBVIOUS
  <2>2. r = 2 * g
    BY <1>2, <1>4, <2>1
  <2>3. r \in Nat /\ r <= 2 * Size + 1
    BY <1>1, <1>4, <2>2
  <2> QED BY <1>4, <2>1, <2>2, <2>3
<1> QED BY <1>3, <1>4

\* The gate that drives a fanin of a gate of the file is above it in the file.
LEMMA DriverAbove ==
  ASSUME IInv, pc = "done", NEW n, n = Len(gates), NEW g \in 1 .. Size,
         NEW k \in DOMAIN gates[g].fanins, NEW x, x = gates[g].fanins[k],
         NEW d, d = IF x > Size THEN gates[x].fanins[1] ELSE x
  PROVE  d \in 1 .. g - 1
<1>1. /\ n \in Nat /\ DOMAIN gates = 1 .. n /\ Size \in Nat /\ Size <= n
      /\ \A h \in 1 .. n : /\ gates[h].fanins \in Seq(1 .. n)
                           /\ h > Size => LineBetween(gates[h], Size)
  BY SplitNetlist
<1>2. g \in 1 .. n
  BY <1>1
<1>3. PICK s \in Seq(1 .. n) : s = gates[g].fanins
  BY <1>1, <1>2
<1>4. k \in DOMAIN s /\ s[k] = x /\ x \in 1 .. n
  BY <1>3, SeqElements
<1>5. d \in 1 .. Size
  <2>1. CASE x > Size
    BY <1>1, <1>4, <2>1 DEF LineBetween
  <2>2. CASE ~(x > Size)
    BY <1>1, <1>4, <2>2
  <2> QED BY <2>1, <2>2
<1>6. Driver(x) = d
  <2>1. IsLine(x) <=> x > Size
    BY <1>1, <1>4 DEF IInv, LinesFollow
  <2> QED BY <2>1 DEF Driver
<1>7. PICK t : t = Drivers(s)
  OBVIOUS
<1>8. t \in Seq(1 .. n) /\ k \in DOMAIN t /\ t[k] = d
  <2>1. DOMAIN t = DOMAIN s /\ t[k] = d
    BY <1>4, <1>6, <1>7 DEF Drivers
  <2>2. \A h \in 1 .. n : Driver(h) \in 1 .. n
    <3> SUFFICES ASSUME NEW h \in 1 .. n PROVE Driver(h) \in 1 .. n
      OBVIOUS
    <3>1. IsLine(h) <=> h > Size
      BY <1>1 DEF IInv, LinesFollow
    <3>2. CASE h > Size
      <4>1. gates[h].fanins[1] \in 1 .. Size
        BY <1>1, <3>2 DEF LineBetween
      <4>2. Driver(h) = gates[h].fanins[1]
        BY <3>1, <3>2 DEF Driver
      <4>3. \A y \in 1 .. Size : y \in 1 .. n
        BY <1>1
      <4> QED BY <4>1, <4>2, <4>3
    <3>3. CASE ~(h > Size)
      BY <3>1, <3>3 DEF Driver
    <3> QED BY <3>2, <3>3
  <2>3. PICK l \in Nat : l = Len(s) /\ DOMAIN s = 1 .. l
    BY SeqElements
  <2>4. \A m \in 1 .. l : s[m] \in 1 .. n
    BY <2>3, SeqElements
  <2>5. t \in [1 .. l -> 1 .. n]
    <3>1. t = [m \in 1 .. l |-> Driver(s[m])]
      BY <1>7, <2>3 DEF Drivers
    <3>2. \A m \in 1 .. l : Driver(s[m]) \in 1 .. n
      BY <2>2, <2>4
    <3> QED BY <3>1, <3>2
  <2>6. t \in Seq(1 .. n)
    <3>1. PICK S : S = 1 .. n
      OBVIOUS
    <3>2. t \in [1 .. l -> S] /\ l \in Nat
      BY <2>5, <3>1
    <3>3. t \in Seq(S)
      BY <3>2
    <3> QED BY <3>1, <3>3
  <2> QED BY <1>4, <2>1, <2>6
<1>9. Count(t, d) > 0
  BY <1>8, CountPositive
<1>10. Count(file.ins[g], d) > 0
  <2>1. DOMAIN file.ins = 1 .. Size
    BY GatesTyped DEF IInv, Originals
  <2>2. Count(Drivers(gates[g].fanins), d) = Count(file.ins[g], d)
    BY <1>5, <2>1 DEF IInv, SameCircuit
  <2>3. t = Drivers(gates[g].fanins)
    BY <1>3, <1>7
  <2>4. Count(t, d) = Count(file.ins[g], d)
    BY <2>2, <2>3
  <2> QED BY <1>9, <2>4
<1>11. file \in Netlists /\ g \in DOMAIN file.ins
  BY GatesTyped DEF IInv, Typed, Originals
<1>12. PICK y \in Seq(Nat) : y = file.ins[g]
  BY <1>11, NetlistFacts
<1>13. Range(y) \subseteq 1 .. g - 1
  BY <1>11, <1>12, NetlistAssumption
<1>14. PICK l \in DOMAIN y : y[l] = d
  BY <1>10, <1>12, CountPositive, SMTT(30)
<1>15. d \in Range(y)
  BY <1>14 DEF Range
<1> QED BY <1>13, <1>15

LEMMA FaninsGrow ==
  ASSUME IInv, pc = "done", NEW n, n = Len(gates)
  PROVE  Grows(n, Fanins, FileRank)
<1>1. /\ n \in Nat /\ DOMAIN gates = 1 .. n /\ Size \in Nat /\ Size <= n
      /\ \A g \in 1 .. n : gates[g].fanins \in Seq(1 .. n)
  BY SplitNetlist
<1>2. \A g \in 1 .. n :
        /\ FileRank[g] \in Nat /\ FileRank[g] <= 2 * Size + 1
        /\ g <= Size => FileRank[g] = 2 * g
        /\ g > Size => /\ gates[g].fanins[1] \in 1 .. Size /\ Len(gates[g].fanins) = 1
                       /\ FileRank[g] = 2 * gates[g].fanins[1] + 1
  BY FileRankIs
<1>3. \A g \in 1 .. n : Fanins[g] = gates[g].fanins
  BY <1>1 DEF Fanins
<1>4. FileRank \in [1 .. n -> Nat]
  <2>1. FileRank = [g \in 1 .. n |-> FileRank[g]]
    BY <1>1 DEF FileRank
  <2> QED BY <1>2, <2>1
<1>5. ASSUME NEW g \in 1 .. n, NEW k \in DOMAIN gates[g].fanins
      PROVE  FileRank[gates[g].fanins[k]] < FileRank[g]
  <2>1. PICK x : x = gates[g].fanins[k]
    OBVIOUS
  <2>2. x \in 1 .. n
    <3>1. PICK s \in Seq(1 .. n) : s = gates[g].fanins
      BY <1>1
    <3> QED BY <2>1, <3>1, SeqElements
  <2>3. PICK r \in Nat, rx \in Nat : r = FileRank[g] /\ rx = FileRank[x]
    BY <1>2, <2>2
  <2>4. CASE g > Size
    <3>1. k = 1
      <4>1. PICK s \in Seq(1 .. n) : s = gates[g].fanins
        BY <1>1
      <4>2. DOMAIN s = 1 .. 1
        BY <1>2, <2>4, <4>1, SeqElements
      <4> QED BY <4>1, <4>2
    <3>2. x \in 1 .. Size /\ r = 2 * x + 1
      BY <1>2, <2>1, <2>3, <2>4, <3>1
    <3>3. x <= Size
      BY <1>1, <3>2
    <3>4. rx = 2 * x
      BY <1>2, <2>2, <2>3, <3>3
    <3>5. rx < r
      BY <1>1, <3>2, <3>4
    <3> QED BY <2>1, <2>3, <3>5
  <2>5. CASE ~(g > Size)
    <3>1. g \in 1 .. Size /\ r = 2 * g
      BY <1>1, <1>2, <2>3, <2>5
    <3>2. PICK d : d = IF x > Size THEN gates[x].fanins[1] ELSE x
      OBVIOUS
    <3>3. d \in 1 .. g - 1
      BY <2>1, <3>1, <3>2, DriverAbove
    <3>4. rx = IF x > Size THEN 2 * d + 1 ELSE 2 * d
      <4>1. CASE x > Size
        BY <1>2, <2>2, <2>3, <3>2, <4>1
      <4>2. CASE ~(x > Size)
        <5>1. x <= Size
          BY <1>1, <2>2, <4>2
        <5> QED BY <1>2, <2>2, <2>3, <3>2, <4>2, <5>1
      <4> QED BY <4>1, <4>2
    <3>5. rx = 2 * d + 1 \/ rx = 2 * d
      BY <3>4
    <3>6. rx < r
      BY <1>1, <3>1, <3>3, <3>5
    <3> QED BY <2>1, <2>3, <3>6
  <2> QED BY <2>4, <2>5
<1> QED BY <1>3, <1>4, <1>5 DEF Grows

\* Backward, the rank is turned round.
LEMMA RankTurned ==
  ASSUME NEW n \in Nat, NEW pre, NEW suc, Connects(n, pre, suc), NEW rank, Grows(n, pre, rank),
         NEW top \in Nat, \A g \in 1 .. n : rank[g] <= top
  PROVE  \E back : Grows(n, suc, back)
<1> DEFINE back == [g \in 1 .. n |-> top - rank[g]]
<1>1. rank \in [1 .. n -> Nat] /\ \A g \in 1 .. n : \A k \in DOMAIN pre[g] : rank[pre[g][k]] < rank[g]
  BY DEF Grows
<1>2. back \in [1 .. n -> Nat]
  BY <1>1
<1>3. ASSUME NEW g \in 1 .. n, NEW k \in DOMAIN suc[g]
      PROVE  back[suc[g][k]] < back[g]
  <2>1. PICK s \in Seq(1 .. n) : s = suc[g]
    BY DEF Connects
  <2>2. PICK x \in 1 .. n : x = suc[g][k]
    BY <2>1, SeqElements
  <2>3. PICK p \in Seq(1 .. n) : p = pre[x]
    BY DEF Connects
  <2>4. Count(s, x) > 0
    BY <2>1, <2>2, CountPositive
  <2>5. Count(s, x) = Count(p, g)
    BY <2>1, <2>3 DEF Connects
  <2>6. PICK l \in DOMAIN p : p[l] = g
    BY <2>4, <2>5, CountPositive
  <2>7. PICK r \in Nat, rx \in Nat : r = rank[g] /\ rx = rank[x]
    BY <1>1
  <2>8. r < rx
    BY <1>1, <2>3, <2>6, <2>7
  <2>9. back[g] = top - r /\ back[x] = top - rx
    BY <2>7
  <2>10. top - rx < top - r
    BY <2>8
  <2> QED BY <2>2, <2>9, <2>10
<1> HIDE DEF back
<1> QED BY <1>2, <1>3 DEF Grows

------------------------------------------------------------------------------
\* The gates of S in the order of the vector.
LEMMA InOrderLists ==
  ASSUME NEW n \in Nat, DOMAIN gates = 1 .. n, NEW S, S \subseteq 1 .. n
  PROVE  InOrder(S) \in Seq(1 .. n) /\ IsInjective(InOrder(S)) /\ Range(InOrder(S)) = S
<1>1. PICK s : s = [g \in 1 .. n |-> g]
  OBVIOUS
<1>2. s \in Seq(1 .. n) /\ DOMAIN s = 1 .. n /\ \A g \in 1 .. n : s[g] = g
  BY <1>1
<1>3. IsInjective(s) /\ Range(s) = 1 .. n
  BY <1>2 DEF IsInjective, Range
<1>4. Lists(Chosen(s, S), s, S, 1 .. n)
  BY <1>2, <1>3, ChosenLists
<1>5. InOrder(S) = Chosen(s, S)
  BY <1>1 DEF InOrder
<1> QED BY <1>3, <1>4, <1>5 DEF Lists

\* The gates of c numbered from 1 by new, as code counting from 1 and code adding
\* to the number 1 - 1 write it.
FromOne(n, none, new, c) ==
  \/ new = [g \in 1 .. n |-> IF g \in Range(c) THEN CHOOSE k \in DOMAIN c : c[k] = g ELSE 0]
  \/ new = [g \in 1 .. n |-> IF g \in Range(c) THEN 1 - 1 + (CHOOSE k \in DOMAIN c : c[k] = g)
                             ELSE none[g]]

\* The numbers that are given out first.
LEMMA StartsAtOne ==
  ASSUME NEW n \in Nat, NEW c \in Seq(1 .. n), IsInjective(c),
         NEW none, none = [g \in 1 .. n |-> 0], NEW new, FromOne(n, none, new, c)
  PROVE  GoesOn(n, none, new, c, 1)
<1>1. PICK m \in Nat : m = Len(c) /\ DOMAIN c = 1 .. m
  OBVIOUS
<1>2. \A g \in 1 .. n : none[g] = 0
  OBVIOUS
<1>3. ASSUME NEW g \in Range(c)
      PROVE  (CHOOSE k \in DOMAIN c : c[k] = g) \in 1 .. m
  BY <1>1 DEF Range
<1>4. ASSUME NEW k \in 1 .. m
      PROVE  (CHOOSE l \in DOMAIN c : c[l] = c[k]) = k
  <2>1. \A l \in DOMAIN c : c[l] = c[k] => l = k
    BY <1>1 DEF IsInjective
  <2> QED BY <1>1, <2>1
<1>5. DOMAIN new = 1 .. n /\ new = [g \in 1 .. n |-> new[g]]
  BY DEF FromOne
<1>6. ASSUME NEW g \in 1 .. n
      PROVE  IF g \in Range(c) THEN new[g] = CHOOSE k \in DOMAIN c : c[k] = g ELSE new[g] = 0
  <2>1. PICK x : x = CHOOSE k \in DOMAIN c : c[k] = g
    OBVIOUS
  <2>2. CASE g \in Range(c)
    <3>1. x \in 1 .. m
      BY <1>3, <2>1, <2>2
    <3>2. new[g] = x \/ new[g] = 1 - 1 + x
      BY <2>1, <2>2 DEF FromOne
    <3>3. 1 - 1 + x = x
      BY <3>1
    <3> QED BY <2>1, <2>2, <3>2, <3>3
  <2>3. CASE g \notin Range(c)
    BY <1>2, <2>3 DEF FromOne
  <2> QED BY <2>2, <2>3
<1>7. new \in [1 .. n -> Nat]
  <2>1. ASSUME NEW g \in 1 .. n PROVE new[g] \in Nat
    <3>1. CASE g \in Range(c)
      <4>1. PICK x : x = CHOOSE k \in DOMAIN c : c[k] = g
        OBVIOUS
      <4>2. x \in 1 .. m /\ new[g] = x
        BY <1>3, <1>6, <3>1, <4>1
      <4> QED BY <4>2
    <3>2. CASE g \notin Range(c)
      BY <1>6, <3>2
    <3> QED BY <3>1, <3>2
  <2> QED BY <1>5, <2>1
<1>8. ASSUME NEW k \in 1 .. m PROVE new[c[k]] = 1 - 1 + k
  <2>1. c[k] \in 1 .. n /\ c[k] \in Range(c)
    BY <1>1 DEF Range
  <2>2. new[c[k]] = k
    BY <1>4, <1>6, <2>1
  <2>3. 1 - 1 + k = k
    OBVIOUS
  <2> QED BY <2>2, <2>3
<1>9. \A g \in 1 .. n : g \notin Range(c) => new[g] = none[g]
  BY <1>2, <1>6
<1> QED BY <1>1, <1>7, <1>8, <1>9 DEF GoesOn

------------------------------------------------------------------------------
\* The inductive invariant: what StemLines keeps, then the walk forward, with the
\* inputs in front, and the walk backward.
InputsKept == \A g \in Originals : gates[g].type = "INPUT" <=> file.ins[g] = <<>>

InputsFirst == \A k \in DOMAIN PIs : id[PIs[k]] = k

Stages ==
  /\ stage = "lines" <=> pc # "done"
  /\ stage \in {"lines", "inputs"} => topo = 1

WalkForward ==
  /\ stage = "forward" => Walks(Len(gates), Fanins, id, waiting, q, topo) /\ InputsFirst
  /\ stage \notin {"lines", "inputs", "forward"} =>
       AllNumbered(Len(gates), Fanins, id) /\ InputsFirst

WalkBackward ==
  /\ stage = "backward" => Walks(Len(gates), Fanouts, rtopo, waiting, q, topo)
  /\ stage \in {"next_po", "walk", "done", "giveup", "abort"} =>
       AllNumbered(Len(gates), Fanouts, rtopo)

TInv == IInv /\ InputsKept /\ Stages /\ WalkForward /\ WalkBackward

LEMMA TypesKept ==
  ASSUME IInv, InputsKept, [Next]_vars
  PROVE  InputsKept'
<1>1. Size' = Size /\ Originals' = Originals /\ file' = file
  BY DEF Next, vars, Skip, Enter, Branch, Leave, Finish, Done, Size, Originals
<1>2. Originals \subseteq 1 .. Len(gates) /\ DOMAIN gates = 1 .. Len(gates)
  BY GatesTyped DEF IInv
<1>3. SUFFICES ASSUME NEW g \in Originals PROVE gates'[g].type = gates[g].type
  BY <1>1 DEF InputsKept
<1>4. g \in 1 .. Len(gates)
  BY <1>2
<1>5. CASE Branch
  <2>1. PICK n, out : n = Len(gates) /\ LineIn(n, out)
    BY <1>5, BranchIs
  <2> QED BY <1>4, <2>1 DEF LineIn, Now
<1>6. CASE Enter /\ gates[j].isPO
  <2>1. PICK n : n = Len(gates) /\ OutputLineIn(n)
    BY <1>6, EnterOutputIs
  <2> QED BY <1>4, <2>1 DEF OutputLineIn, Now
<1>7. CASE Enter /\ ~gates[j].isPO
  <2>1. gates' = [gates EXCEPT ![j].is_stem = TRUE]
    BY <1>7 DEF Enter
  <2>2. PICK n \in Nat : n = Len(gates) /\ gates \in Seq(GateAmong(n)) /\ DOMAIN gates = 1 .. n
    BY DEF IInv, Typed
  <2>3. gates[g] \in GateAmong(n)
    BY <1>4, <2>2, SeqElements
  <2>4. PICK yes \in BOOLEAN : yes = TRUE
    OBVIOUS
  <2>5. gates'[g] = IF g = j THEN [gates[g] EXCEPT !.is_stem = yes] ELSE gates[g]
    BY <1>4, <2>1, <2>2, <2>4
  <2> QED BY <2>3, <2>5 DEF GateAmong
<1>8. CASE UNCHANGED gates
  BY <1>8
<1> QED BY <1>5, <1>6, <1>7, <1>8 DEF Next, vars, Skip, Leave, Finish, Done

LEMMA TypesAtFirst ==
  ASSUME Init
  PROVE  InputsKept
<1>1. file \in Netlists /\ gates = Parsed(file)
  BY DEF Init
<1>2. DOMAIN file.ins = 1 .. Size
  BY <1>1, NetlistFacts DEF Size
<1>3. ASSUME NEW g \in 1 .. Size
      PROVE  gates[g].type = IF file.ins[g] = <<>> THEN "INPUT" ELSE "GATE"
  <2>1. PICK r : r = gates[g]
    OBVIOUS
  <2>2. PICK ty : ty = IF file.ins[g] = <<>> THEN "INPUT" ELSE "GATE"
    OBVIOUS
  <2>3. r.type = ty
    BY <1>1, <1>2, <2>1, <2>2 DEF Parsed
  <2> QED BY <2>1, <2>2, <2>3
<1> QED BY <1>3 DEF InputsKept, Originals

\* The inputs are the gates without fanins.
LEMMA InputsAre ==
  ASSUME IInv, InputsKept, pc = "done", NEW n, n = Len(gates)
  PROVE  /\ PIs \in Seq(1 .. n) /\ IsInjective(PIs)
         /\ \A g \in 1 .. n : g \in Range(PIs) <=> Len(Fanins[g]) = 0
<1>1. /\ n \in Nat /\ DOMAIN gates = 1 .. n /\ Size \in Nat /\ Size <= n
      /\ \A g \in 1 .. n : g > Size => LineBetween(gates[g], Size)
  BY SplitNetlist
<1>2. PICK S : S = {g \in DOMAIN gates : gates[g].type = "INPUT"}
  OBVIOUS
<1>3. S \subseteq 1 .. n
  BY <1>1, <1>2
<1>4. PIs = InOrder(S)
  BY <1>2 DEF PIs
<1>5. PIs \in Seq(1 .. n) /\ IsInjective(PIs) /\ Range(PIs) = S
  BY <1>1, <1>3, <1>4, InOrderLists
<1>6. ASSUME NEW g \in 1 .. n
      PROVE  gates[g].type = "INPUT" <=> Len(Fanins[g]) = 0
  <2>1. Fanins[g] = gates[g].fanins
    BY <1>1 DEF Fanins
  <2>2. CASE g > Size
    <3>1. gates[g].type = "LINE"
      BY <1>1, <2>2 DEF IInv, LinesFollow, IsLine
    <3>2. Len(gates[g].fanins) = 1
      BY <1>1, <2>2 DEF LineBetween
    <3>3. gates[g].type # "INPUT" /\ Len(gates[g].fanins) # 0
      BY <3>1, <3>2
    <3> QED BY <2>1, <3>3
  <2>3. CASE ~(g > Size)
    <3>1. g \in Originals
      BY <1>1, <2>3 DEF Originals
    <3>2. Len(gates[g].fanins) = Len(file.ins[g])
      BY <3>1 DEF IInv, LengthsKept
    <3>3. PICK y \in Seq(Nat) : y = file.ins[g]
      <4>1. file \in Netlists /\ g \in DOMAIN file.ins
        BY <3>1, GatesTyped DEF IInv, Typed, Originals
      <4> QED BY <4>1, NetlistFacts
    <3>4. Len(y) = 0 <=> y = <<>>
      OBVIOUS
    <3>5. gates[g].type = "INPUT" <=> file.ins[g] = <<>>
      BY <3>1 DEF InputsKept
    <3> QED BY <2>1, <3>2, <3>3, <3>4, <3>5
  <2> QED BY <2>2, <2>3
<1> QED BY <1>1, <1>2, <1>5, <1>6

------------------------------------------------------------------------------
\* The netlist after the lines: all that the walks use.
LEMMA WalkNetlist ==
  ASSUME IInv, InputsKept, pc = "done"
  PROVE  /\ Len(gates) \in Nat /\ DOMAIN gates = 1 .. Len(gates)
         /\ Connects(Len(gates), Fanins, Fanouts) /\ Connects(Len(gates), Fanouts, Fanins)
         /\ Grows(Len(gates), Fanins, FileRank)
         /\ \E back : Grows(Len(gates), Fanouts, back)
<1>1. PICK n \in Nat : n = Len(gates) /\ DOMAIN gates = 1 .. n /\ Size \in Nat
  BY SplitNetlist
<1>2. Connects(n, Fanins, Fanouts) /\ Connects(n, Fanouts, Fanins)
  BY <1>1, NothingTwice
<1>3. Grows(n, Fanins, FileRank)
  BY <1>1, FaninsGrow
<1>4. \E back : Grows(n, Fanouts, back)
  <2>1. PICK top \in Nat : top = 2 * Size + 1
    BY <1>1
  <2>2. \A g \in 1 .. n : FileRank[g] <= top
    BY <1>1, <2>1, FileRankIs
  <2> QED BY <1>1, <1>2, <1>3, <2>1, <2>2, RankTurned
<1> QED BY <1>1, <1>2, <1>3, <1>4

\* The primary inputs get the first numbers.
LEMMA NumberInputsStarts ==
  ASSUME IInv, InputsKept, pc = "done", topo = 1, NumberInputs
  PROVE  /\ Walks(Len(gates), Fanins, id', waiting', q', topo')
         /\ \A k \in DOMAIN PIs : id'[PIs[k]] = k
<1>1. PICK n \in Nat : n = Len(gates) /\ DOMAIN gates = 1 .. n
  BY WalkNetlist
<1>2. Fanins \in [1 .. n -> Seq(1 .. n)]
  BY <1>1, WalkNetlist DEF Connects
<1>3. PICK c : c = PIs
  OBVIOUS
<1>4. /\ c \in Seq(1 .. n) /\ IsInjective(c)
      /\ \A g \in 1 .. n : g \in Range(c) <=> Len(Fanins[g]) = 0
  BY <1>1, <1>3, InputsAre
<1>5. PICK none : none = [g \in 1 .. n |-> 0]
  OBVIOUS
<1>6. id' = [g \in 1 .. n |-> IF g \in Range(c) THEN 1 - 1 + (CHOOSE k \in DOMAIN c : c[k] = g)
                              ELSE none[g]]
  <2>1. PerGate(LAMBDA g : 0) = none
    BY <1>1, <1>5 DEF PerGate
  <2>2. id' = Numbered(PerGate(LAMBDA g : 0), PIs)
    BY DEF NumberInputs
  <2>3. id' = Numbered(none, c)
    BY <1>3, <2>1, <2>2
  <2> QED BY <1>1, <2>3 DEF Numbered
<1>7. GoesOn(n, none, id', c, 1)
  <2>1. PICK new : new = id'
    OBVIOUS
  <2>2. new = [g \in 1 .. n |-> IF g \in Range(c) THEN 1 - 1 + (CHOOSE k \in DOMAIN c : c[k] = g)
                                ELSE none[g]]
    BY <1>6, <2>1
  <2>3. FromOne(n, none, new, c)
    BY <2>2, Zenon DEF FromOne
  <2>4. GoesOn(n, none, new, c, 1)
    BY <1>4, <1>5, <2>3, StartsAtOne
  <2> QED BY <2>1, <2>4
<1>8. waiting' = [g \in 1 .. n |-> Len(Fanins[g])]
  <2>1. waiting' = [g \in DOMAIN gates |-> Len(gates[g].fanins)]
    BY DEF NumberInputs, PerGate
  <2> QED BY <1>1, <2>1 DEF Fanins
<1>9. q' = c /\ topo' = 1 + Len(c)
  BY <1>3 DEF NumberInputs
<1>10. Walks(n, Fanins, id', waiting', c, Len(c) + 1)
  BY <1>2, <1>4, <1>5, <1>7, <1>8, WalkStarts
<1>11. PICK m \in Nat : m = Len(c) /\ DOMAIN c = 1 .. m
  BY <1>4
<1>12. topo' = Len(c) + 1
  BY <1>9, <1>11
<1>13. \A k \in 1 .. m : id'[c[k]] = k
  <2>1. \A k \in 1 .. m : id'[c[k]] = 1 - 1 + k
    BY <1>7, <1>11 DEF GoesOn
  <2>2. \A k \in 1 .. m : 1 - 1 + k = k
    OBVIOUS
  <2> QED BY <2>1, <2>2
<1> QED BY <1>1, <1>3, <1>9, <1>10, <1>11, <1>12, <1>13

\* A turn of either walk, s being the connections of the gate at its front.
LEMMA WalkTurns ==
  ASSUME NEW n \in Nat, DOMAIN gates = 1 .. n, NEW pre, NEW suc, Connects(n, pre, suc),
         NEW num, Walks(n, pre, num, waiting, q, topo), q # <<>>,
         NEW s, s = suc[Head(q)], NEW c, c = Ready(s), NEW new, new = Numbered(num, c)
  PROVE  /\ Walks(n, pre, new, Counted(s), Tail(q) \o c, topo + Len(c))
         /\ \A g \in Range(c) : num[g] = 0
         /\ \A g \in 1 .. n : g \notin Range(c) => new[g] = num[g]
<1>1. q \in Seq(1 .. n) /\ GivenOut(n, num, topo)
  BY DEF Walks
<1>2. PICK u \in 1 .. n : u = q[1] /\ u = Head(q)
  BY <1>1
<1>3. s \in Seq(1 .. n) /\ IsInjective(s) /\ s = suc[u]
  BY <1>2 DEF Connects
<1>4. PICK S : S = {g \in 1 .. n : waiting[g] = 1}
  OBVIOUS
<1>5. c = Chosen(s, S)
  BY <1>4 DEF Ready
<1>6. Lists(c, s, S, 1 .. n)
  BY <1>3, <1>5, ChosenLists
<1>7. c \in Seq(1 .. n) /\ IsInjective(c)
  BY <1>6 DEF Lists
<1>8. new = [g \in 1 .. n |-> IF g \in Range(c) THEN topo - 1 + (CHOOSE k \in DOMAIN c : c[k] = g)
                              ELSE num[g]]
  BY DEF Numbered
<1>9. GoesOn(n, num, new, c, topo)
  BY <1>1, <1>7, <1>8, NumbersGoOn
<1>10. Turns(n, suc, num, waiting, q, topo, u, c, new)
  BY <1>2, <1>3, <1>4, <1>6, <1>9 DEF Turns
<1>11. PICK v : v = Counted(s)
  OBVIOUS
<1>12. v = [g \in 1 .. n |-> waiting[g] - Count(suc[u], g)]
  BY <1>3, <1>11 DEF Counted, PerGate
<1>13. Walks(n, pre, new, v, Tail(q) \o c, topo + Len(c))
  BY <1>10, <1>12, TurnKeepsWalks
<1>14. PICK b : b = topo - Len(q)
  OBVIOUS
<1>15. /\ \A g \in Range(c) : num[g] = 0
       /\ \A g \in 1 .. n : g \notin Range(c) => new[g] = num[g]
  <2>1. TurnFacts(n, num, q, topo, u, c, new, b)
    BY <1>10, <1>14, TurnNumbers
  <2> QED BY <2>1 DEF TurnFacts
<1> QED BY <1>11, <1>13, <1>15

\* Nothing leads to an input, so its number stays.
LEMMA ForwardTurns ==
  ASSUME IInv, InputsKept, pc = "done", Walks(Len(gates), Fanins, id, waiting, q, topo),
         InputsFirst, Forward
  PROVE  /\ Walks(Len(gates), Fanins, id', waiting', q', topo')
         /\ \A k \in DOMAIN PIs : id'[PIs[k]] = k
<1>1. PICK n \in Nat : n = Len(gates) /\ DOMAIN gates = 1 .. n
  BY WalkNetlist
<1>2. Connects(n, Fanins, Fanouts) /\ Walks(n, Fanins, id, waiting, q, topo)
  BY <1>1, WalkNetlist
<1>3. q # <<>>
  BY DEF Forward
<1>4. PICK s : s = Fanouts[Head(q)]
  OBVIOUS
<1>5. Head(q) \in 1 .. n
  BY <1>2, <1>3 DEF Walks
<1>6. s = gates[Head(q)].fanouts
  BY <1>1, <1>4, <1>5 DEF Fanouts
<1>7. PICK c : c = Ready(s)
  OBVIOUS
<1>8. /\ waiting' = Counted(s) /\ id' = Numbered(id, c) /\ topo' = topo + Len(c)
      /\ q' = Tail(q) \o c
  BY <1>6, <1>7 DEF Forward
<1>9. PICK new : new = Numbered(id, c)
  OBVIOUS
<1>10. /\ Walks(n, Fanins, new, Counted(s), Tail(q) \o c, topo + Len(c))
       /\ \A g \in Range(c) : id[g] = 0
       /\ \A g \in 1 .. n : g \notin Range(c) => new[g] = id[g]
  BY <1>1, <1>2, <1>3, <1>4, <1>7, <1>9, WalkTurns
<1>11. PIs \in Seq(1 .. n)
  BY <1>1, InputsAre
<1>12. ASSUME NEW k \in DOMAIN PIs PROVE new[PIs[k]] = k
  <2>1. PIs[k] \in 1 .. n /\ k \in Nat /\ k # 0
    BY <1>11
  <2>2. id[PIs[k]] = k
    BY DEF InputsFirst
  <2>3. PIs[k] \notin Range(c)
    BY <1>10, <2>1, <2>2
  <2> QED BY <1>10, <2>1, <2>2, <2>3
<1> QED BY <1>1, <1>8, <1>9, <1>10, <1>12

LEMMA BackwardTurns ==
  ASSUME IInv, InputsKept, pc = "done", Walks(Len(gates), Fanouts, rtopo, waiting, q, topo),
         Backward
  PROVE  Walks(Len(gates), Fanouts, rtopo', waiting', q', topo')
<1>1. PICK n \in Nat : n = Len(gates) /\ DOMAIN gates = 1 .. n
  BY WalkNetlist
<1>2. Connects(n, Fanouts, Fanins) /\ Walks(n, Fanouts, rtopo, waiting, q, topo)
  BY <1>1, WalkNetlist
<1>3. q # <<>>
  BY DEF Backward
<1>4. PICK s : s = Fanins[Head(q)]
  OBVIOUS
<1>5. Head(q) \in 1 .. n
  BY <1>2, <1>3 DEF Walks
<1>6. s = gates[Head(q)].fanins
  BY <1>1, <1>4, <1>5 DEF Fanins
<1>7. PICK c : c = Ready(s)
  OBVIOUS
<1>8. /\ waiting' = Counted(s) /\ rtopo' = Numbered(rtopo, c) /\ topo' = topo + Len(c)
      /\ q' = Tail(q) \o c
  BY <1>6, <1>7 DEF Backward
<1>9. PICK new : new = Numbered(rtopo, c)
  OBVIOUS
<1>10. Walks(n, Fanouts, new, Counted(s), Tail(q) \o c, topo + Len(c))
  BY <1>1, <1>2, <1>3, <1>4, <1>7, <1>9, WalkTurns
<1> QED BY <1>1, <1>8, <1>9, <1>10

\* The walk backward starts with the gates without fanouts.
LEMMA NumberEndsStarts ==
  ASSUME IInv, InputsKept, pc = "done", NumberEnds
  PROVE  Walks(Len(gates), Fanouts, rtopo', waiting', q', topo')
<1>1. PICK n \in Nat : n = Len(gates) /\ DOMAIN gates = 1 .. n
  BY WalkNetlist
<1>2. Fanouts \in [1 .. n -> Seq(1 .. n)]
  BY <1>1, WalkNetlist DEF Connects
<1>3. PICK S : S = {g \in DOMAIN gates : gates[g].fanouts = <<>>}
  OBVIOUS
<1>4. PICK c : c = InOrder(S)
  OBVIOUS
<1>5. c \in Seq(1 .. n) /\ IsInjective(c) /\ Range(c) = S
  BY <1>1, <1>3, <1>4, InOrderLists
<1>6. ASSUME NEW g \in 1 .. n
      PROVE  g \in Range(c) <=> Len(Fanouts[g]) = 0
  <2>1. PICK y \in Seq(1 .. n) : y = Fanouts[g]
    BY <1>2
  <2>2. y = gates[g].fanouts
    BY <1>1, <2>1 DEF Fanouts
  <2>3. Len(y) = 0 <=> y = <<>>
    OBVIOUS
  <2> QED BY <1>1, <1>3, <1>5, <2>1, <2>2, <2>3
<1>7. PICK none : none = [g \in 1 .. n |-> 0]
  OBVIOUS
<1>8. /\ rtopo' = [g \in 1 .. n |-> IF g \in Range(c) THEN CHOOSE k \in DOMAIN c : c[k] = g ELSE 0]
      /\ topo' = Len(c) + 1 /\ q' = c
  <2>1. c = InOrder({g \in DOMAIN gates : gates[g].fanouts = <<>>})
    BY <1>3, <1>4
  <2> DEFINE ends == InOrder({g \in DOMAIN gates : gates[g].fanouts = <<>>})
  <2>2. /\ rtopo' = [g \in DOMAIN gates |->
                       IF g \in Range(ends) THEN CHOOSE k \in DOMAIN ends : ends[k] = g ELSE 0]
        /\ topo' = Len(ends) + 1 /\ q' = ends
    BY DEF NumberEnds
  <2>3. c = ends
    BY <2>1
  <2> HIDE DEF ends
  <2> QED BY <1>1, <2>2, <2>3
<1>9. GoesOn(n, none, rtopo', c, 1)
  <2>1. PICK new : new = rtopo'
    OBVIOUS
  <2>2. FromOne(n, none, new, c)
    BY <1>8, <2>1, Zenon DEF FromOne
  <2>3. GoesOn(n, none, new, c, 1)
    BY <1>5, <1>7, <2>2, StartsAtOne
  <2> QED BY <2>1, <2>3
<1>10. waiting' = [g \in 1 .. n |-> Len(Fanouts[g])]
  <2>1. waiting' = [g \in DOMAIN gates |-> Len(gates[g].fanouts)]
    BY DEF NumberEnds, PerGate
  <2> QED BY <1>1, <2>1 DEF Fanouts
<1>11. Walks(n, Fanouts, rtopo', waiting', c, Len(c) + 1)
  BY <1>2, <1>5, <1>6, <1>7, <1>9, <1>10, WalkStarts
<1> QED BY <1>1, <1>8, <1>11

------------------------------------------------------------------------------
\* A step of the preparation is a step of the lines or leaves the netlist alone.
LEMMA StepOfLines == [TopoNext]_allVars => [Next]_vars
<1> SUFFICES ASSUME [TopoNext]_allVars PROVE [Next]_vars
  OBVIOUS
<1>1. CASE InsertLines
  BY <1>1 DEF InsertLines, Next
<1>2. CASE NumberInputs \/ Forward \/ NumberEnds \/ Backward
  BY <1>2 DEF NumberInputs, Forward, NumberEnds, Backward
<1>3. CASE StartDistances \/ StartOutput \/ Visit \/ EndOutput
  BY <1>3 DEF StartDistances, StartOutput, Visit, EndOutput
<1>4. CASE Average
  BY <1>4 DEF Average
<1>5. CASE Prepared \/ UNCHANGED allVars
  BY <1>5 DEF Prepared, allVars
<1> QED BY <1>1, <1>2, <1>3, <1>4, <1>5 DEF TopoNext

\* What the walk forward has reached stays when the netlist, the inputs' numbers
\* and the walk do.
LEMMA ForwardKept ==
  ASSUME UNCHANGED <<gates, id>>
  PROVE  /\ Fanins' = Fanins /\ Fanouts' = Fanouts /\ PIs' = PIs /\ InputsFirst' = InputsFirst
         /\ Len(gates)' = Len(gates)
<1>1. PIs' = PIs
  BY DEF PIs, InOrder
<1> QED BY <1>1 DEF Fanins, Fanouts, InputsFirst

\* What a step proves that leaves the netlist alone.
LEMMA TInvFollows ==
  ASSUME TInv, UNCHANGED vars, pc = "done", stage' \notin {"lines", "inputs"},
         stage' = "forward" =>
           Walks(Len(gates), Fanins, id', waiting', q', topo')
             /\ \A k \in DOMAIN PIs : id'[PIs[k]] = k,
         stage' \notin {"lines", "inputs", "forward"} =>
           AllNumbered(Len(gates), Fanins, id') /\ \A k \in DOMAIN PIs : id'[PIs[k]] = k,
         stage' = "backward" => Walks(Len(gates), Fanouts, rtopo', waiting', q', topo'),
         stage' \in {"next_po", "walk", "done", "giveup", "abort"} =>
           AllNumbered(Len(gates), Fanouts, rtopo')
  PROVE  TInv'
<1>1. gates' = gates /\ file' = file /\ pc' = pc
  BY DEF vars
<1>2. Fanins' = Fanins /\ Fanouts' = Fanouts /\ PIs' = PIs /\ Len(gates') = Len(gates)
  BY <1>1 DEF Fanins, Fanouts, PIs, InOrder
<1>3. IInv'
  BY NextKeepsIInv DEF TInv
<1>4. InputsKept'
  BY <1>1 DEF TInv, InputsKept, Originals, Size
<1>5. Stages'
  BY <1>1 DEF Stages
<1>6. WalkForward'
  BY <1>2 DEF WalkForward, InputsFirst
<1>7. WalkBackward'
  BY <1>2 DEF WalkBackward
<1> QED BY <1>3, <1>4, <1>5, <1>6, <1>7 DEF TInv

LEMMA TopoInitHasTInv == TopoInit => TInv
<1> SUFFICES ASSUME TopoInit PROVE TInv
  OBVIOUS
<1>1. Init /\ stage = "lines" /\ topo = 1 /\ pc = "gates"
  BY DEF TopoInit, Init
<1>2. IInv /\ InputsKept
  BY <1>1, InitHasIInv, TypesAtFirst
<1> QED BY <1>1, <1>2 DEF TInv, Stages, WalkForward, WalkBackward

LEMMA LinesKeepTInv ==
  ASSUME TInv, InsertLines
  PROVE  TInv'
<1>1. stage = "lines" /\ pc # "done" /\ topo = 1 /\ topo' = topo
  BY DEF TInv, Stages, InsertLines, numbers
<1>2. [Next]_vars
  BY DEF InsertLines, Next
<1>3. IInv' /\ InputsKept'
  BY <1>2, NextKeepsIInv, TypesKept DEF TInv
<1>4. stage' = IF pc' = "done" THEN "inputs" ELSE stage
  BY DEF InsertLines
<1>5. (stage' = "lines" /\ pc' # "done") \/ (stage' = "inputs" /\ pc' = "done")
  BY <1>1, <1>4
<1>6. Stages' /\ WalkForward' /\ WalkBackward'
  BY <1>1, <1>5 DEF Stages, WalkForward, WalkBackward
<1> QED BY <1>3, <1>6 DEF TInv

\* The walk forward ends with all gates numbered.
LEMMA ForwardEnds ==
  ASSUME TInv, pc = "done", stage = "forward", q = <<>>
  PROVE  AllNumbered(Len(gates), Fanins, id)
<1>1. /\ Connects(Len(gates), Fanins, Fanouts) /\ Grows(Len(gates), Fanins, FileRank)
      /\ Walks(Len(gates), Fanins, id, waiting, <<>>, topo)
  BY WalkNetlist DEF TInv, WalkForward
<1>2. Fanins \in [1 .. Len(gates) -> Seq(1 .. Len(gates))]
  BY <1>1 DEF Connects
<1> QED BY <1>1, <1>2, WalkEnds

LEMMA BackwardEnds ==
  ASSUME TInv, pc = "done", stage = "backward", q = <<>>
  PROVE  AllNumbered(Len(gates), Fanouts, rtopo)
<1>1. /\ Connects(Len(gates), Fanouts, Fanins)
      /\ Walks(Len(gates), Fanouts, rtopo, waiting, <<>>, topo)
  BY WalkNetlist DEF TInv, WalkBackward
<1>2. PICK back : Grows(Len(gates), Fanouts, back)
  BY WalkNetlist DEF TInv
<1>3. Fanouts \in [1 .. Len(gates) -> Seq(1 .. Len(gates))]
  BY <1>1 DEF Connects
<1> QED BY <1>1, <1>2, <1>3, WalkEnds

\* The distances leave the numbers alone.
LEMMA DistancesKeepTInv ==
  ASSUME TInv, UNCHANGED <<vars, id, rtopo>>,
         stage \in {"next_po", "walk", "done", "giveup", "abort"},
         stage' \in {"next_po", "walk", "done", "giveup", "abort"}
  PROVE  TInv'
<1>1. pc = "done" /\ id' = id /\ rtopo' = rtopo
  BY DEF TInv, Stages
<1>2. /\ AllNumbered(Len(gates), Fanins, id) /\ InputsFirst
      /\ AllNumbered(Len(gates), Fanouts, rtopo)
  BY DEF TInv, WalkForward, WalkBackward
<1>3. \A k \in DOMAIN PIs : id'[PIs[k]] = k
  BY <1>1, <1>2 DEF InputsFirst
<1>4. AllNumbered(Len(gates), Fanins, id') /\ AllNumbered(Len(gates), Fanouts, rtopo')
  BY <1>1, <1>2
<1> QED BY <1>1, <1>3, <1>4, TInvFollows

LEMMA TopoNextKeepsTInv == TInv /\ [TopoNext]_allVars => TInv'
<1> SUFFICES ASSUME TInv, [TopoNext]_allVars PROVE TInv'
  OBVIOUS
<1>1. CASE InsertLines
  BY <1>1, LinesKeepTInv
<1>2. ASSUME stage # "lines"
      PROVE  pc = "done" /\ IInv /\ InputsKept
  BY <1>2 DEF TInv, Stages
<1>3. CASE NumberInputs
  <2>1. /\ stage = "inputs" /\ stage' = "forward" /\ UNCHANGED vars /\ topo = 1
    BY <1>3 DEF NumberInputs, TInv, Stages
  <2>2. /\ Walks(Len(gates), Fanins, id', waiting', q', topo')
        /\ \A k \in DOMAIN PIs : id'[PIs[k]] = k
    BY <1>2, <1>3, <2>1, NumberInputsStarts
  <2> QED BY <1>2, <2>1, <2>2, TInvFollows
<1>4. CASE Forward
  <2>1. stage = "forward" /\ stage' = "forward" /\ UNCHANGED vars
    BY <1>4 DEF Forward
  <2>2. Walks(Len(gates), Fanins, id, waiting, q, topo) /\ InputsFirst
    BY <2>1 DEF TInv, WalkForward
  <2>3. /\ Walks(Len(gates), Fanins, id', waiting', q', topo')
        /\ \A k \in DOMAIN PIs : id'[PIs[k]] = k
    BY <1>2, <1>4, <2>1, <2>2, ForwardTurns
  <2> QED BY <1>2, <2>1, <2>3, TInvFollows
<1>5. CASE NumberEnds
  <2>1. /\ stage = "forward" /\ q = <<>> /\ stage' = "backward" /\ UNCHANGED vars /\ id' = id
    BY <1>5 DEF NumberEnds
  <2>2. AllNumbered(Len(gates), Fanins, id') /\ \A k \in DOMAIN PIs : id'[PIs[k]] = k
    <3>1. AllNumbered(Len(gates), Fanins, id) /\ InputsFirst
      BY <1>2, <2>1, ForwardEnds DEF TInv, WalkForward
    <3> QED BY <2>1, <3>1 DEF InputsFirst
  <2>3. Walks(Len(gates), Fanouts, rtopo', waiting', q', topo')
    BY <1>2, <1>5, <2>1, NumberEndsStarts
  <2> QED BY <1>2, <2>1, <2>2, <2>3, TInvFollows
<1>6. CASE Backward
  <2>1. stage = "backward" /\ stage' = "backward" /\ UNCHANGED vars /\ id' = id
    BY <1>6 DEF Backward
  <2>2. AllNumbered(Len(gates), Fanins, id') /\ \A k \in DOMAIN PIs : id'[PIs[k]] = k
    <3>1. AllNumbered(Len(gates), Fanins, id) /\ InputsFirst
      BY <2>1 DEF TInv, WalkForward
    <3> QED BY <2>1, <3>1 DEF InputsFirst
  <2>3. Walks(Len(gates), Fanouts, rtopo, waiting, q, topo)
    BY <2>1 DEF TInv, WalkBackward
  <2>4. Walks(Len(gates), Fanouts, rtopo', waiting', q', topo')
    BY <1>2, <1>6, <2>1, <2>3, BackwardTurns
  <2> QED BY <1>2, <2>1, <2>2, <2>4, TInvFollows
<1>7. CASE StartDistances
  <2>1. /\ stage = "backward" /\ q = <<>> /\ stage' = "next_po" /\ UNCHANGED vars
        /\ id' = id /\ rtopo' = rtopo
    BY <1>7 DEF StartDistances, numbers
  <2>2. AllNumbered(Len(gates), Fanins, id') /\ \A k \in DOMAIN PIs : id'[PIs[k]] = k
    <3>1. AllNumbered(Len(gates), Fanins, id) /\ InputsFirst
      BY <2>1 DEF TInv, WalkForward
    <3> QED BY <2>1, <3>1 DEF InputsFirst
  <2>3. AllNumbered(Len(gates), Fanouts, rtopo')
    BY <1>2, <2>1, BackwardEnds
  <2> QED BY <1>2, <2>1, <2>2, <2>3, TInvFollows
<1>8. CASE StartOutput \/ Visit \/ EndOutput
  BY <1>8, DistancesKeepTInv DEF StartOutput, Visit, EndOutput, numbers
<1>9. CASE Average
  <2>1. stage = "next_po" /\ UNCHANGED <<vars, id, rtopo>>
    BY <1>9 DEF Average, numbers
  <2>2. stage' = "done" \/ stage' = "giveup" \/ stage' = "abort"
    BY <1>9, Zenon DEF Average
  <2> QED BY <2>1, <2>2, DistancesKeepTInv
<1>10. CASE Prepared \/ UNCHANGED allVars
  <2>1. UNCHANGED <<vars, stage, q, topo, waiting, id, rtopo>>
    BY <1>10 DEF Prepared, allVars, topoVars, numbers
  <2>2. IInv' /\ InputsKept'
    BY <2>1, NextKeepsIInv, TypesKept DEF TInv
  <2>3. Stages'
    BY <2>1 DEF TInv, Stages, vars
  <2>4. gates' = gates /\ Fanins' = Fanins /\ Fanouts' = Fanouts /\ InputsFirst' = InputsFirst
    BY <2>1, ForwardKept DEF vars
  <2>5. WalkForward' /\ WalkBackward'
    BY <2>1, <2>4 DEF TInv, WalkForward, WalkBackward
  <2> QED BY <2>2, <2>3, <2>5 DEF TInv
<1> QED
  BY <1>1, <1>3, <1>4, <1>5, <1>6, <1>7, <1>8, <1>9, <1>10 DEF TopoNext

LEMMA TopoSpecHasTInv == TopoSpec => []TInv
BY TopoInitHasTInv, TopoNextKeepsTInv, PTL DEF TopoSpec

LEMMA TInvGivesIds == TInv => IdsAreTopological
<1> SUFFICES ASSUME TInv PROVE IdsAreTopological
  OBVIOUS
<1>1. CASE stage \in {"lines", "inputs", "forward"}
  BY <1>1 DEF IdsAreTopological
<1>2. CASE stage \notin {"lines", "inputs", "forward"}
  <2>1. pc = "done" /\ AllNumbered(Len(gates), Fanins, id) /\ InputsFirst
    BY <1>2 DEF TInv, Stages, WalkForward
  <2>2. DOMAIN gates = 1 .. Len(gates)
    BY GatesTyped DEF TInv, IInv
  <2>3. Numbers(id)
    BY <2>1 DEF AllNumbered, Numbers, N
  <2>4. ASSUME NEW g \in DOMAIN gates, NEW f \in Range(gates[g].fanins)
        PROVE  id[f] < id[g]
    <3>1. PICK k \in DOMAIN gates[g].fanins : gates[g].fanins[k] = f
      BY DEF Range
    <3>2. Fanins[g] = gates[g].fanins
      BY DEF Fanins
    <3> QED BY <2>1, <2>2, <3>1, <3>2 DEF AllNumbered
  <2>5. ASSUME stage \in {"next_po", "walk", "done", "giveup", "abort"}
        PROVE  /\ Numbers(rtopo)
               /\ \A g \in DOMAIN gates : \A h \in Range(gates[g].fanouts) : rtopo[h] < rtopo[g]
    <3>1. AllNumbered(Len(gates), Fanouts, rtopo)
      BY <2>5 DEF TInv, WalkBackward
    <3>2. Numbers(rtopo)
      BY <3>1 DEF AllNumbered, Numbers, N
    <3>3. ASSUME NEW g \in DOMAIN gates, NEW h \in Range(gates[g].fanouts)
          PROVE  rtopo[h] < rtopo[g]
      <4>1. PICK k \in DOMAIN gates[g].fanouts : gates[g].fanouts[k] = h
        BY DEF Range
      <4>2. Fanouts[g] = gates[g].fanouts
        BY DEF Fanouts
      <4> QED BY <2>2, <3>1, <4>1, <4>2 DEF AllNumbered
    <3> QED BY <3>2, <3>3
  <2> QED BY <2>1, <2>3, <2>4, <2>5 DEF IdsAreTopological, InputsFirst
<1> QED BY <1>1, <1>2

------------------------------------------------------------------------------
\* Circuit::init_topo_index reaches every gate and numbers it behind its fanins,
\* and backward behind its fanouts; the inputs keep the order of the file. The
\* gates are simulated and repaired in these orders.
THEOREM WalksNumberEveryGate == TopoSpec => []IdsAreTopological
BY TopoSpecHasTInv, TInvGivesIds, PTL

\* Numbering and measuring leave the netlist as insert_lines_for_stem left it:
\* what is proved of its lines holds for the rest of the preparation.
THEOREM PreparationKeepsLines == TopoSpec => [](Mirrored /\ SameCircuit /\ StemsAreSplit)
<1>1. TInv => Mirrored /\ SameCircuit /\ StemsAreSplit
  BY IInvGivesMirrored, IInvGivesStemsAreSplit DEF TInv, IInv
<1> QED BY <1>1, TopoSpecHasTInv, PTL
------------------------------------------------------------------------------
\* a[k] holds the gates a path of k connections leads to, backwards from o.
StepsBack(n, pre, o, a) ==
  /\ a \in [0 .. n -> SUBSET (1 .. n)]
  /\ a[0] = {o}
  /\ \A k \in 1 .. n : a[k] = UNION {Range(pre[g]) : g \in a[k - 1]}

\* The lengths of the paths to g, and the shortest for each gate that has one.
Lengths(n, a, g) == {k \in 0 .. n : g \in a[k]}
Shortest(n, a) ==
  [g \in {f \in 1 .. n : Lengths(n, a, f) # {}} |-> Min(Lengths(n, a, g))]

LEMMA DistancesParts ==
  ASSUME NEW n \in Nat, n = Len(gates), DOMAIN gates = 1 .. n,
         Fanins \in [1 .. n -> Seq(1 .. n)], NEW o \in 1 .. n
  PROVE  \E a : StepsBack(n, Fanins, o, a) /\ DistancesTo(o) = Shortest(n, a)
<1> DEFINE I == 0 .. n
           Q == SUBSET (1 .. n)
           Back(S) == UNION {Range(gates[g].fanins) : g \in S}
           D == [k \in I |-> [f \in [I -> Q] |-> IF k = 0 THEN {o} ELSE Back(f[k - 1])]]
           rank == [k \in I |-> k]
<1>1. ASSUME NEW g \in 1 .. n
      PROVE  gates[g].fanins = Fanins[g] /\ Range(Fanins[g]) \subseteq 1 .. n
  <2>1. gates[g].fanins = Fanins[g] /\ Fanins[g] \in Seq(1 .. n)
    BY DEF Fanins
  <2> QED BY <2>1 DEF Range
<1>2. ASSUME NEW S \in Q
      PROVE  Back(S) \in Q /\ Back(S) = UNION {Range(Fanins[g]) : g \in S}
  <2>1. \A f : f \in Back(S) <=> \E g \in S : f \in Range(Fanins[g])
    BY <1>1
  <2>2. \A f \in Back(S) : f \in 1 .. n
    BY <1>1, <2>1
  <2> HIDE DEF Back
  <2> QED BY <2>1, <2>2
<1>3. rank \in [I -> Nat] /\ Q # {} /\ {o} \in Q
  <2>1. {o} \in Q
    OBVIOUS
  <2>2. \A k \in I : k \in Nat
    OBVIOUS
  <2> QED BY <2>1, <2>2
<1>4. \A k \in I : k = 0 \/ (k - 1 \in I /\ k - 1 < k /\ k \in 1 .. n /\ k # 0)
  OBVIOUS
<1>5. \A k \in I : \A f \in [I -> Q] : D[k][f] = IF k = 0 THEN {o} ELSE Back(f[k - 1])
  OBVIOUS
<1> HIDE DEF Back
<1>6. ASSUME NEW k \in I, NEW f \in [I -> Q]
      PROVE  D[k][f] \in Q
  <2>1. CASE k = 0
    BY <1>3, <1>5, <2>1
  <2>2. CASE k # 0
    <3>1. f[k - 1] \in Q
      BY <1>4, <2>2
    <3> HIDE DEF Q, D, I
    <3> QED BY <1>2, <1>5, <2>2, <3>1
  <2> QED BY <2>1, <2>2
<1>7. ASSUME NEW k \in I, NEW f \in [I -> Q], NEW g \in [I -> Q],
             \A m \in I : rank[m] < rank[k] => f[m] = g[m]
      PROVE  D[k][f] = D[k][g]
  <2>1. CASE k = 0
    BY <1>5, <2>1
  <2>2. CASE k # 0
    <3>1. f[k - 1] = g[k - 1]
      BY <1>4, <1>7, <2>2
    <3> HIDE DEF Q, D, I
    <3> QED BY <1>5, <2>2, <3>1
  <2> QED BY <2>1, <2>2
<1>8. Delivers(D, I, Q) /\ ReadsBelow(D, I, Q, rank)
  <2> HIDE DEF D, I, Q, rank
  <2> QED BY <1>6, <1>7 DEF Delivers, ReadsBelow
<1>9. \E f \in [I -> Q] : Solves(f, D, I)
  <2> HIDE DEF D, I, Q, rank
  <2> QED BY <1>3, <1>8, RankedRecursion
<1>10. PICK f \in [I -> Q] : \A k \in I : f[k] = IF k = 0 THEN {o} ELSE Back(f[k - 1])
  <2> HIDE DEF D, I, Q
  <2>1. PICK f \in [I -> Q] : \A k \in I : f[k] = D[k][f]
    BY <1>9 DEF Solves
  <2>2. \A k \in I : f[k] = IF k = 0 THEN {o} ELSE Back(f[k - 1])
    BY <1>5, <2>1
  <2> QED BY <2>2
<1> DEFINE Rec(h) == [k \in I |-> IF k = 0 THEN {o} ELSE Back(h[k - 1])]
           away == CHOOSE h : h = Rec(h)
<1>11. f = Rec(f)
  <2> HIDE DEF I, Q
  <2> QED BY <1>10
<1>12. away = Rec(away)
  <2> HIDE DEF Rec
  <2> QED BY <1>11
<1>13. DistancesTo(o) =
         [g \in {h \in DOMAIN gates : {k \in I : h \in away[k]} # {}} |->
            Min({k \in I : g \in away[k]})]
  BY DEF DistancesTo, Back, N
<1> HIDE DEF away
<1>14. DOMAIN away = I /\ \A k \in I : away[k] = IF k = 0 THEN {o} ELSE Back(away[k - 1])
  <2> HIDE DEF I
  <2> QED BY <1>12
<1> DEFINE A == {k \in Nat : k \in I => f[k] = away[k]}
<1>15. 0 \in A
  BY <1>10, <1>14
<1>16. ASSUME NEW k \in A PROVE k + 1 \in A
  <2> SUFFICES ASSUME k + 1 \in I PROVE f[k + 1] = away[k + 1]
    OBVIOUS
  <2>1. PICK m \in I : m = k + 1 /\ m - 1 = k /\ m # 0 /\ k \in I
    BY <1>4
  <2>2. f[m - 1] = away[m - 1]
    BY <2>1
  <2>3. f[m] = Back(f[m - 1]) /\ away[m] = Back(away[m - 1])
    BY <1>10, <1>14, <2>1
  <2> HIDE DEF I, Q, A
  <2> QED BY <2>1, <2>2, <2>3
<1>a. A = Nat
  <2>1. A \in SUBSET Nat
    OBVIOUS
  <2> HIDE DEF A
  <2> QED BY <1>15, <1>16, <2>1, InductionOverNat
<1>17. away = f
  <2> HIDE DEF I, Q
  <2>1. away = [k \in I |-> away[k]]
    BY <1>12
  <2>2. \A k \in I : k \in A
    BY <1>a DEF I
  <2> QED BY <2>1, <2>2
<1>18. StepsBack(n, Fanins, o, f)
  <2>1. f[0] = {o}
    BY <1>10
  <2>2. ASSUME NEW k \in 1 .. n PROVE f[k] = UNION {Range(Fanins[g]) : g \in f[k - 1]}
    <3>1. k \in I /\ k # 0 /\ k - 1 \in I
      OBVIOUS
    <3>2. f[k - 1] \in Q /\ f[k] = Back(f[k - 1])
      BY <1>10, <3>1
    <3> QED BY <1>2, <3>2
  <2> QED BY <2>1, <2>2 DEF StepsBack
<1>19. DistancesTo(o) = Shortest(n, f)
  BY <1>13, <1>17 DEF Shortest, Lengths
<1> QED BY <1>18, <1>19

\* D has the length of a shortest path to o for each gate that has a path: it
\* grows by one at most from a gate to its fanins, and there is a gate it grew from.
Measures(n, pre, D, o) ==
  /\ DOMAIN D \subseteq 1 .. n /\ o \in DOMAIN D
  /\ \A g \in DOMAIN D : D[g] \in Nat /\ D[g] < n /\ (D[g] = 0 <=> g = o)
  /\ \A g \in DOMAIN D : \A f \in Range(pre[g]) : f \in DOMAIN D /\ D[f] <= D[g] + 1
  /\ \A g \in DOMAIN D : D[g] > 0 =>
       \E h \in DOMAIN D : g \in Range(pre[h]) /\ D[h] = D[g] - 1

LEMMA ShortestMeasures ==
  ASSUME NEW n \in Nat, NEW pre \in [1 .. n -> Seq(1 .. n)], NEW o \in 1 .. n, NEW a,
         StepsBack(n, pre, o, a), NEW num, AllNumbered(n, pre, num)
  PROVE  Measures(n, pre, Shortest(n, a), o)
<1> DEFINE L(g) == Lengths(n, a, g)
<1>1. /\ a \in [0 .. n -> SUBSET (1 .. n)] /\ a[0] = {o}
      /\ \A k \in 1 .. n : \A f : f \in a[k] <=> \E g \in a[k - 1] : f \in Range(pre[g])
  BY DEF StepsBack
<1>2. \A g \in 1 .. n : num[g] \in 1 .. n
  BY DEF AllNumbered, Range
<1>3. \A g \in 1 .. n : \A f \in Range(pre[g]) : f \in 1 .. n /\ num[f] < num[g]
  <2>1. ASSUME NEW g \in 1 .. n, NEW f \in Range(pre[g])
        PROVE  f \in 1 .. n /\ num[f] < num[g]
    <3>1. pre[g] \in Seq(1 .. n)
      OBVIOUS
    <3>2. PICK k \in DOMAIN pre[g] : pre[g][k] = f
      BY DEF Range
    <3>3. f \in 1 .. n
      BY <3>1, <3>2
    <3> QED BY <3>2, <3>3 DEF AllNumbered
  <2> QED BY <2>1
<1> DEFINE B == {k \in Nat : k <= n => \A g \in a[k] : num[g] + k <= n}
<1>4. 0 \in B
  BY <1>1, <1>2
<1>5. ASSUME NEW k \in B PROVE k + 1 \in B
  <2>1. k \in Nat /\ (k <= n => \A g \in a[k] : num[g] + k <= n)
    OBVIOUS
  <2>2. ASSUME k + 1 <= n, NEW f \in a[k + 1] PROVE num[f] + (k + 1) <= n
    <3>1. PICK m \in 1 .. n : m = k + 1 /\ m - 1 = k /\ k \in 0 .. n /\ k <= n
      BY <2>1, <2>2
    <3>2. PICK g \in a[k] : f \in Range(pre[g])
      BY <1>1, <2>2, <3>1
    <3>3. g \in 1 .. n
      BY <1>1, <3>1
    <3>4. f \in 1 .. n /\ num[f] < num[g] /\ num[g] \in Nat /\ num[f] \in Nat
      BY <1>2, <1>3, <3>2, <3>3
    <3>5. num[g] + k <= n
      BY <2>1, <3>1
    <3> QED BY <2>1, <3>4, <3>5
  <2>3. k + 1 \in Nat
    BY <2>1
  <2> HIDE DEF B
  <2> QED BY <2>2, <2>3 DEF B
<1>6. ASSUME NEW k \in 0 .. n, NEW g \in a[k] PROVE k < n /\ g \in 1 .. n
  <2>1. B = Nat
    <3>1. B \in SUBSET Nat
      OBVIOUS
    <3> HIDE DEF B
    <3> QED BY <1>4, <1>5, <3>1, InductionOverNat
  <2>2. k \in Nat /\ k <= n
    OBVIOUS
  <2>a. k \in B
    BY <2>1, <2>2
  <2>3. num[g] + k <= n
    BY <2>2, <2>a
  <2>4. g \in 1 .. n
    BY <1>1
  <2> QED BY <1>2, <2>3, <2>4
<1> HIDE DEF B
<1>7. PICK D : D = Shortest(n, a)
  OBVIOUS
<1>8. /\ DOMAIN D = {f \in 1 .. n : L(f) # {}}
      /\ \A g \in DOMAIN D : D[g] = CHOOSE x \in L(g) : \A y \in L(g) : x <= y
  BY <1>7 DEF Shortest, Min
<1>9. ASSUME NEW g \in DOMAIN D
      PROVE  D[g] \in L(g) /\ \A y \in L(g) : D[g] <= y
  <2>1. L(g) \in SUBSET Nat /\ L(g) # {}
    BY <1>8 DEF Lengths
  <2> HIDE DEF L
  <2>2. \E x \in L(g) : \A y \in L(g) : x <= y
    BY <2>1, LeastNatural
  <2> QED BY <1>8, <2>2
<1>10. \A g, k : k \in L(g) <=> k \in 0 .. n /\ g \in a[k]
  BY DEF Lengths
<1> HIDE DEF L
<1>11. ASSUME NEW g, NEW k \in 0 .. n, g \in a[k]
       PROVE  g \in DOMAIN D /\ D[g] <= k
  BY <1>6, <1>8, <1>9, <1>10, <1>11
<1>12. ASSUME NEW g \in DOMAIN D
       PROVE  D[g] \in 0 .. n /\ D[g] \in Nat /\ D[g] < n /\ g \in a[D[g]]
  BY <1>6, <1>9, <1>10
<1>13. ASSUME NEW g \in DOMAIN D, NEW f \in Range(pre[g])
       PROVE  f \in DOMAIN D /\ D[f] <= D[g] + 1
  <2>1. PICK m \in 1 .. n : m = D[g] + 1 /\ m - 1 = D[g] /\ m \in 0 .. n
    <3>1. PICK k \in Nat : k = D[g] /\ k < n
      BY <1>12
    <3>2. k + 1 \in 1 .. n /\ k + 1 \in 0 .. n /\ (k + 1) - 1 = k
      BY <3>1
    <3> QED BY <3>1, <3>2
  <2>2. f \in a[m]
    BY <1>1, <1>12, <2>1
  <2> QED BY <1>11, <2>1, <2>2
<1>14. \A g \in DOMAIN D : D[g] = 0 <=> g = o
  <2>1. ASSUME NEW g \in DOMAIN D, D[g] = 0 PROVE g = o
    BY <1>1, <1>12, <2>1
  <2>2. 0 \in 0 .. n /\ o \in a[0]
    BY <1>1
  <2>3. o \in DOMAIN D /\ D[o] <= 0 /\ D[o] \in Nat
    BY <1>11, <1>12, <2>2
  <2>4. D[o] = 0
    BY <2>3
  <2> QED BY <2>1, <2>4
<1>15. o \in DOMAIN D
  <2>1. 0 \in 0 .. n /\ o \in a[0]
    BY <1>1
  <2> QED BY <1>11, <2>1
<1>16. ASSUME NEW g \in DOMAIN D, D[g] > 0
       PROVE  \E h \in DOMAIN D : g \in Range(pre[h]) /\ D[h] = D[g] - 1
  <2>1. PICK m \in 1 .. n : m = D[g] /\ m - 1 \in 0 .. n
    BY <1>12, <1>16
  <2>2. PICK h \in a[m - 1] : g \in Range(pre[h])
    BY <1>1, <1>12, <2>1
  <2>3. h \in DOMAIN D /\ D[h] <= m - 1 /\ D[h] \in Nat
    BY <1>11, <1>12, <2>1
  <2>4. m <= D[h] + 1
    BY <1>13, <2>1, <2>2, <2>3
  <2>5. D[h] = m - 1
    BY <2>1, <2>3, <2>4
  <2> QED BY <2>1, <2>2, <2>3, <2>5
<1>17. DOMAIN D \subseteq 1 .. n
  BY <1>8
<1> QED BY <1>7, <1>12, <1>13, <1>14, <1>15, <1>16, <1>17 DEF Measures

------------------------------------------------------------------------------
\* The way back from the output o of the outputs P: nothing reads an output.
WayBack(n, pre, P, D, o) ==
  /\ n \in Nat /\ n < Infinite /\ pre \in [1 .. n -> Seq(1 .. n)]
  /\ P \subseteq 1 .. n /\ o \in P
  /\ \A g \in 1 .. n : \A f \in Range(pre[g]) : f \in 1 .. n /\ f \notin P
  /\ Measures(n, pre, D, o)

\* The gates that have a distance; a queue s of them goes by their distances, which
\* differ by one at most, and what is as near as its first gate has been found.
Found(n, P, o, now) == {g \in 1 .. n : g = o \/ (g \notin P /\ now[g] # Infinite)}

Spreads(n, pre, P, D, o, s, now) ==
  /\ s \in Seq(1 .. n) /\ IsInjective(s) /\ now \in [1 .. n -> Nat]
  /\ \A g \in Range(s) : g \in Found(n, P, o, now)
  /\ \A g \in Found(n, P, o, now) : g \in DOMAIN D /\ now[g] = D[g]
  /\ \A g \in Found(n, P, o, now) :
       g \in Range(s) \/ \A f \in Range(pre[g]) : f \in Found(n, P, o, now)
  /\ \A k, m \in DOMAIN s : k < m => D[s[k]] <= D[s[m]]
  /\ \A k \in DOMAIN s : D[s[k]] <= D[s[1]] + 1
  /\ s # <<>> => \A g \in DOMAIN D : D[g] <= D[s[1]] => g \in Found(n, P, o, now)

LEMMA SpreadStarts ==
  ASSUME NEW n, NEW pre, NEW P, NEW D, NEW o, WayBack(n, pre, P, D, o),
         NEW now, now = [g \in 1 .. n |-> IF g \in P THEN 0 ELSE Infinite]
  PROVE  Spreads(n, pre, P, D, o, <<o>>, now) /\ Found(n, P, o, now) = {o}
<1>1. /\ n \in Nat /\ P \subseteq 1 .. n /\ o \in P /\ o \in 1 .. n
      /\ Measures(n, pre, D, o)
  BY DEF WayBack
<1>2. /\ o \in DOMAIN D
      /\ \A g \in DOMAIN D : D[g] \in Nat /\ D[g] < n /\ (D[g] = 0 <=> g = o)
  BY <1>1 DEF Measures
<1>3. D[o] = 0
  BY <1>2
<1>4. Found(n, P, o, now) = {o}
  BY <1>1 DEF Found
<1>5. now \in [1 .. n -> Nat] /\ now[o] = 0
  BY <1>1 DEF Infinite
<1>6. PICK s : s = <<o>>
  OBVIOUS
<1>7. s \in Seq(1 .. n) /\ DOMAIN s = 1 .. 1 /\ s[1] = o /\ s # <<>>
  BY <1>1, <1>6
<1>8. Range(s) = {o} /\ IsInjective(s)
  BY <1>7 DEF Range, IsInjective
<1>9. \A k \in DOMAIN s : k = 1
  BY <1>7
<1>10. \A k, m \in DOMAIN s : ~(k < m)
  BY <1>9
<1>11. \A k \in DOMAIN s : D[s[k]] <= D[s[1]] + 1
  BY <1>3, <1>7, <1>9
<1>12. \A g \in DOMAIN D : D[g] <= D[s[1]] => g = o
  BY <1>2, <1>3, <1>7
<1>13. Spreads(n, pre, P, D, o, s, now)
  BY <1>2, <1>3, <1>4, <1>5, <1>7, <1>8, <1>10, <1>11, <1>12 DEF Spreads
<1> QED BY <1>4, <1>6, <1>13

\* One turn: the fanins of the first gate that are closer become c and go into the
\* queue.
Takes(n, pre, s, now, u, c, new) ==
  /\ s # <<>> /\ u = s[1]
  /\ Lists(c, pre[u], {f \in 1 .. n : now[u] + 1 < now[f]}, 1 .. n)
  /\ new = [f \in 1 .. n |-> IF f \in Range(c) THEN now[u] + 1 ELSE now[f]]

\* They are the fanins not found before, and they are one further away.
Finds(n, pre, P, D, S, s, now, u, c) ==
  /\ u \in 1 .. n /\ u \in Range(s) /\ u \in DOMAIN D /\ now[u] = D[u] /\ D[u] \in Nat
  /\ \A f : f \in Range(c) <=> f \in Range(pre[u]) /\ f \notin S
  /\ \A f \in Range(c) : f \in 1 .. n /\ f \notin P /\ f \in DOMAIN D /\ D[f] = D[u] + 1

LEMMA SpreadFinds ==
  ASSUME NEW n, NEW pre, NEW P, NEW D, NEW o, WayBack(n, pre, P, D, o),
         NEW s, NEW now, Spreads(n, pre, P, D, o, s, now),
         NEW u, NEW c, NEW new, Takes(n, pre, s, now, u, c, new)
  PROVE  Finds(n, pre, P, D, Found(n, P, o, now), s, now, u, c)
<1> DEFINE S == Found(n, P, o, now)
<1>0. /\ s # <<>> /\ u = s[1]
      /\ Lists(c, pre[u], {f \in 1 .. n : now[u] + 1 < now[f]}, 1 .. n)
  BY DEF Takes
<1>1. /\ n \in Nat /\ n < Infinite /\ pre \in [1 .. n -> Seq(1 .. n)]
      /\ \A g \in 1 .. n : \A f \in Range(pre[g]) : f \in 1 .. n /\ f \notin P
      /\ \A g \in DOMAIN D : D[g] \in Nat /\ D[g] < n /\ (D[g] = 0 <=> g = o)
      /\ \A g \in DOMAIN D : \A f \in Range(pre[g]) : f \in DOMAIN D /\ D[f] <= D[g] + 1
      /\ \A g \in DOMAIN D : D[g] > 0 =>
           \E h \in DOMAIN D : g \in Range(pre[h]) /\ D[h] = D[g] - 1
  BY DEF WayBack, Measures
<1>2. /\ s \in Seq(1 .. n) /\ now \in [1 .. n -> Nat]
      /\ \A g \in Range(s) : g \in S
      /\ \A g \in S : g \in DOMAIN D /\ now[g] = D[g]
      /\ \A g \in S : g \in Range(s) \/ \A f \in Range(pre[g]) : f \in S
      /\ \A k, m \in DOMAIN s : k < m => D[s[k]] <= D[s[m]]
      /\ \A g \in DOMAIN D : D[g] <= D[s[1]] => g \in S
  BY <1>0 DEF Spreads
<1>3. PICK l \in Nat : l = Len(s) /\ DOMAIN s = 1 .. l /\ l >= 1 /\ 1 \in 1 .. l
  BY <1>0, <1>2
<1>4. u \in 1 .. n /\ u \in Range(s) /\ u \in DOMAIN D /\ now[u] = D[u] /\ D[u] \in Nat
  <2>1. u \in Range(s) /\ u \in 1 .. n
    <3>1. s[1] \in 1 .. n
      BY <1>2, <1>3, SeqElements
    <3>2. s[1] \in Range(s)
      BY <1>3 DEF Range
    <3> QED BY <1>0, <3>1, <3>2
  <2> QED BY <1>1, <1>2, <2>1
<1>5. \A f : f \in S <=> f \in 1 .. n /\ (f = o \/ (f \notin P /\ now[f] # Infinite))
  BY DEF Found
<1> HIDE DEF S
<1>6. o \in S
  BY <1>5 DEF WayBack
<1>7. ASSUME NEW f \in Range(pre[u])
      PROVE  f \in Range(c) <=> f \notin S
  <2>1. f \in Range(c) <=> now[u] + 1 < now[f]
    BY <1>0, <1>1, <1>4 DEF Lists
  <2>2. CASE f \in S
    <3>1. now[f] = D[f] /\ D[f] <= D[u] + 1 /\ D[f] \in Nat
      BY <1>1, <1>2, <1>4, <2>2
    <3> QED BY <1>4, <2>1, <2>2, <3>1
  <2>3. CASE f \notin S
    <3>1. f \in 1 .. n /\ f \notin P
      BY <1>1, <1>4
    <3>2. now[f] = Infinite
      BY <1>5, <2>3, <3>1
    <3>3. D[u] < n
      BY <1>1, <1>4
    <3>4. now[u] + 1 < Infinite
      BY <1>1, <1>4, <3>3 DEF Infinite
    <3> QED BY <2>1, <2>3, <3>2, <3>4
  <2> QED BY <2>2, <2>3
<1>8. \A f \in Range(c) : f \in Range(pre[u])
  BY <1>0 DEF Lists
<1>9. ASSUME NEW f \in Range(c)
      PROVE  f \in 1 .. n /\ f \notin P /\ f \in DOMAIN D /\ D[f] = D[u] + 1
  <2>1. f \in Range(pre[u]) /\ f \notin S
    BY <1>7, <1>8
  <2>2. f \in 1 .. n /\ f \notin P /\ f \in DOMAIN D /\ D[f] <= D[u] + 1 /\ D[f] \in Nat
    BY <1>1, <1>4, <2>1
  <2>3. ~(D[f] <= D[u])
    BY <1>0, <1>2, <2>1, <2>2
  <2> QED BY <1>4, <2>2, <2>3
<1> QED BY <1>4, <1>7, <1>8, <1>9 DEF S, Finds

LEMMA SpreadGoesOn ==
  ASSUME NEW n, NEW pre, NEW P, NEW D, NEW o, WayBack(n, pre, P, D, o),
         NEW s, NEW now, Spreads(n, pre, P, D, o, s, now),
         NEW u, NEW c, NEW new, Takes(n, pre, s, now, u, c, new)
  PROVE  /\ Spreads(n, pre, P, D, o, Tail(s) \o c, new)
         /\ \A g \in 1 .. n :
              (g \in Found(n, P, o, new) /\ g \notin Range(Tail(s) \o c)) <=>
                (g \in Found(n, P, o, now) /\ g \notin Range(s)) \/ g = u
<1> DEFINE S == Found(n, P, o, now)
           S2 == Found(n, P, o, new)
<1>1. s # <<>> /\ u = s[1] /\ new = [f \in 1 .. n |-> IF f \in Range(c) THEN now[u] + 1 ELSE now[f]]
  BY DEF Takes
<1>2. /\ u \in 1 .. n /\ u \in Range(s) /\ u \in DOMAIN D /\ now[u] = D[u] /\ D[u] \in Nat
      /\ \A f : f \in Range(c) <=> f \in Range(pre[u]) /\ f \notin S
      /\ \A f \in Range(c) : f \in 1 .. n /\ f \notin P /\ f \in DOMAIN D /\ D[f] = D[u] + 1
  <2>1. Finds(n, pre, P, D, S, s, now, u, c)
    BY SpreadFinds
  <2> QED BY <2>1 DEF Finds
<1>3. /\ n \in Nat /\ n < Infinite /\ P \subseteq 1 .. n
      /\ \A g \in DOMAIN D : D[g] \in Nat /\ D[g] < n
      /\ \A g \in DOMAIN D : D[g] > 0 =>
           \E h \in DOMAIN D : g \in Range(pre[h]) /\ D[h] = D[g] - 1
      /\ DOMAIN D \subseteq 1 .. n
  BY DEF WayBack, Measures
<1>4. /\ s \in Seq(1 .. n) /\ IsInjective(s) /\ now \in [1 .. n -> Nat]
      /\ \A g \in Range(s) : g \in S
      /\ \A g \in S : g \in DOMAIN D /\ now[g] = D[g]
      /\ \A g \in S : g \in Range(s) \/ \A f \in Range(pre[g]) : f \in S
      /\ \A k, m \in DOMAIN s : k < m => D[s[k]] <= D[s[m]]
      /\ \A k \in DOMAIN s : D[s[k]] <= D[s[1]] + 1
      /\ \A g \in DOMAIN D : D[g] <= D[u] => g \in S
  BY <1>1 DEF Spreads
<1>5. c \in Seq(1 .. n) /\ IsInjective(c)
  BY DEF Takes, Lists
<1>6. \A f : f \in S <=> f \in 1 .. n /\ (f = o \/ (f \notin P /\ now[f] # Infinite))
  BY DEF Found
<1>7. \A f : f \in S2 <=> f \in 1 .. n /\ (f = o \/ (f \notin P /\ new[f] # Infinite))
  BY DEF Found
<1> HIDE DEF S, S2
<1>8. new \in [1 .. n -> Nat]
  BY <1>1, <1>2, <1>4
<1>9. \A f : f \in S2 <=> f \in S \/ f \in Range(c)
  <2>1. now[u] + 1 # Infinite
    <3>1. D[u] < n
      BY <1>2, <1>3
    <3> QED BY <1>2, <1>3, <3>1 DEF Infinite
  <2> QED BY <1>1, <1>2, <1>6, <1>7, <2>1
<1>10. \A g \in S2 : g \in DOMAIN D /\ new[g] = D[g]
  BY <1>1, <1>2, <1>3, <1>4, <1>9
<1>11. PICK r : r = Tail(s)
  OBVIOUS
<1>12. PICK l \in Nat : l = Len(s) /\ DOMAIN s = 1 .. l /\ l >= 1
  BY <1>1, <1>4
<1>13. /\ r \in Seq(1 .. n) /\ Range(s) = Range(r) \cup {u} /\ u \notin Range(r)
       /\ \A k, m \in DOMAIN r : r[k] = r[m] => k = m
       /\ Len(r) = l - 1 /\ \A k \in 1 .. l - 1 : r[k] = s[k + 1]
  <2>1. \A k, m \in DOMAIN s : s[k] = s[m] => k = m
    BY <1>4 DEF IsInjective
  <2>2. /\ Tail(s) \in Seq(1 .. n) /\ Len(Tail(s)) = Len(s) - 1
        /\ \A k \in 1 .. Len(Tail(s)) : Tail(s)[k] = s[k + 1]
        /\ Head(s) = u
    BY <1>1, <1>4, HeadTailProperties
  <2>3. /\ Range(s) = Range(Tail(s)) \cup {u} /\ u \notin Range(Tail(s))
        /\ \A k, m \in DOMAIN Tail(s) : Tail(s)[k] = Tail(s)[m] => k = m
    BY <1>1, <1>4, <2>1, <2>2, PopQueue
  <2>4. r \in Seq(1 .. n) /\ Len(r) = l - 1
    BY <1>11, <1>12, <2>2
  <2>5. \A k \in 1 .. l - 1 : r[k] = s[k + 1]
    BY <1>11, <1>12, <2>2
  <2> QED BY <1>11, <2>3, <2>4, <2>5
<1>14. \A f \in Range(c) : f \notin Range(r)
  BY <1>2, <1>4, <1>13
<1>15. PICK t : t = r \o c
  OBVIOUS
<1>16. /\ t \in Seq(1 .. n) /\ Range(t) = Range(r) \cup Range(c) /\ IsInjective(t)
  <2>1. \A k, m \in DOMAIN c : c[k] = c[m] => k = m
    BY <1>5 DEF IsInjective
  <2>2. Range(r) \cap Range(c) = {}
    BY <1>14
  <2>3. /\ r \o c \in Seq(1 .. n) /\ Range(r \o c) = Range(r) \cup Range(c)
        /\ \A k, m \in DOMAIN (r \o c) : (r \o c)[k] = (r \o c)[m] => k = m
    BY <1>5, <1>13, <2>1, <2>2, JoinQueues
  <2> QED BY <1>15, <2>3 DEF IsInjective
<1>17. ASSUME NEW g \in 1 .. n
       PROVE  (g \in S2 /\ g \notin Range(t)) <=> (g \in S /\ g \notin Range(s)) \/ g = u
  BY <1>2, <1>4, <1>9, <1>13, <1>14, <1>16
<1>18. ASSUME NEW g \in S2
       PROVE  g \in Range(t) \/ \A f \in Range(pre[g]) : f \in S2
  <2>1. CASE g = u
    BY <1>2, <1>9, <2>1
  <2>2. CASE g # u
    BY <1>4, <1>9, <1>13, <1>16, <2>2
  <2> QED BY <2>1, <2>2
\* The places of the new queue: those left of the old one, then those of c.
<1>19. PICK y \in Nat : y = Len(c) /\ DOMAIN c = 1 .. y
  BY <1>5
<1>20. /\ DOMAIN t = 1 .. l - 1 + y
       /\ \A k \in 1 .. l - 1 + y : IF k <= l - 1 THEN t[k] = s[k + 1] /\ k + 1 \in 1 .. l
                                    ELSE t[k] \in Range(c)
  <2>1. /\ r \o c \in Seq(1 .. n) /\ Len(r \o c) = Len(r) + Len(c)
        /\ \A k \in 1 .. Len(r) + Len(c) :
             (r \o c)[k] = IF k <= Len(r) THEN r[k] ELSE c[k - Len(r)]
    <3>1. r \in Seq(1 .. n) /\ c \in Seq(1 .. n)
      BY <1>5, <1>13
    <3> QED BY <3>1, ConcatProperties
  <2>2. DOMAIN t = 1 .. l - 1 + y /\ \A k \in 1 .. l - 1 + y :
          t[k] = IF k <= l - 1 THEN r[k] ELSE c[k - (l - 1)]
    BY <1>13, <1>15, <1>19, <2>1
  <2>3. ASSUME NEW k \in 1 .. l - 1 + y, ~(k <= l - 1)
        PROVE  c[k - (l - 1)] \in Range(c)
    <3>1. k - (l - 1) \in 1 .. y
      BY <1>12, <2>3
    <3> QED BY <1>19, <3>1 DEF Range
  <2>4. \A k \in 1 .. l - 1 + y : k <= l - 1 => k \in 1 .. l - 1 /\ k + 1 \in 1 .. l
    BY <1>12
  <2> QED BY <1>13, <2>2, <2>3, <2>4
<1>21. \A k \in 1 .. l : D[u] <= D[s[k]] /\ D[s[k]] <= D[u] + 1 /\ D[s[k]] \in Nat
  <2>1. ASSUME NEW k \in 1 .. l
        PROVE  D[u] <= D[s[k]] /\ D[s[k]] <= D[u] + 1 /\ D[s[k]] \in Nat
    <3>1. 1 \in DOMAIN s /\ k \in DOMAIN s
      BY <1>12
    <3>2. s[k] \in DOMAIN D
      BY <1>4, <3>1 DEF Range
    <3>3. D[s[k]] \in Nat /\ D[s[k]] <= D[u] + 1
      BY <1>1, <1>3, <1>4, <3>1, <3>2
    <3>4. CASE k = 1
      BY <1>1, <1>2, <3>3, <3>4
    <3>5. CASE k # 1
      BY <1>1, <1>4, <3>1, <3>3, <3>5
    <3> QED BY <3>4, <3>5
  <2> QED BY <2>1
<1>22. \A k \in DOMAIN t : D[u] <= D[t[k]] /\ D[t[k]] <= D[u] + 1 /\ D[t[k]] \in Nat
  <2>1. ASSUME NEW k \in 1 .. l - 1 + y
        PROVE  D[u] <= D[t[k]] /\ D[t[k]] <= D[u] + 1 /\ D[t[k]] \in Nat
    <3>1. CASE k <= l - 1
      BY <1>20, <1>21, <3>1
    <3>2. CASE ~(k <= l - 1)
      <4>1. D[t[k]] = D[u] + 1
        BY <1>2, <1>20, <3>2
      <4> QED BY <1>2, <4>1
    <3> QED BY <3>1, <3>2
  <2> QED BY <1>20, <2>1
<1>23. ASSUME NEW k \in DOMAIN t, NEW m \in DOMAIN t, k < m
       PROVE  D[t[k]] <= D[t[m]]
  <2>1. k \in 1 .. l - 1 + y /\ m \in 1 .. l - 1 + y
    BY <1>20
  <2>2. CASE m <= l - 1
    <3>1. k <= l - 1 /\ k + 1 < m + 1
      BY <1>12, <1>23, <2>1, <2>2
    <3>2. t[k] = s[k + 1] /\ t[m] = s[m + 1] /\ k + 1 \in DOMAIN s /\ m + 1 \in DOMAIN s
      BY <1>12, <1>20, <2>1, <2>2, <3>1
    <3> QED BY <1>4, <3>1, <3>2
  <2>3. CASE ~(m <= l - 1)
    <3>1. D[t[m]] = D[u] + 1
      BY <1>2, <1>20, <2>1, <2>3
    <3> QED BY <1>22, <3>1
  <2> QED BY <2>2, <2>3
<1>24. ASSUME t # <<>>
       PROVE  /\ \A k \in DOMAIN t : D[t[k]] <= D[t[1]] + 1
              /\ \A g \in DOMAIN D : D[g] <= D[t[1]] => g \in S2
  <2>1. 1 \in DOMAIN t
    BY <1>16, <1>24
  <2>2. PICK d \in Nat : d = D[t[1]] /\ D[u] <= d /\ d <= D[u] + 1
    BY <1>22, <2>1
  <2>3. ASSUME NEW k \in DOMAIN t PROVE D[t[k]] <= d + 1
    <3>1. D[t[k]] <= D[u] + 1 /\ D[t[k]] \in Nat
      BY <1>22
    <3> QED BY <1>2, <2>2, <3>1
  <2>4. ASSUME NEW g \in DOMAIN D, D[g] <= d PROVE g \in S2
    <3>1. D[g] \in Nat
      BY <1>3
    <3>2. CASE D[g] <= D[u]
      BY <1>4, <1>9, <3>2
    <3>3. CASE ~(D[g] <= D[u])
      <4>1. d = D[u] + 1 /\ D[g] = d
        BY <1>2, <2>2, <2>4, <3>1, <3>3
      <4>2. PICK h \in DOMAIN D : g \in Range(pre[h]) /\ D[h] = D[g] - 1
        BY <1>2, <1>3, <3>1, <4>1
      <4>3. D[h] = D[u]
        BY <1>2, <4>1, <4>2
      <4>4. h \in S
        BY <1>2, <1>4, <4>3
      <4>5. h \notin Range(t)
        <5>1. ASSUME NEW k \in DOMAIN t, t[k] = h PROVE FALSE
          <6>1. d <= D[t[k]]
            <7>1. k = 1 \/ 1 < k
              BY <1>20
            <7>2. D[t[1]] <= D[t[k]]
              BY <1>23, <2>1, <2>2, <7>1
            <7> QED BY <2>2, <7>2
          <6> QED BY <1>2, <4>1, <4>3, <5>1, <6>1
        <5> QED BY <5>1 DEF Range
      <4>6. h \in S2
        BY <1>9, <4>4
      <4> QED BY <1>18, <4>2, <4>5, <4>6
    <3> QED BY <3>2, <3>3
  <2> QED BY <2>2, <2>3, <2>4
<1>25. \A k \in DOMAIN t : D[t[k]] <= D[t[1]] + 1
  <2>1. ASSUME NEW k \in DOMAIN t PROVE t # <<>>
    OBVIOUS
  <2> QED BY <1>24, <2>1
<1>26. \A g \in Range(t) : g \in S2
  BY <1>4, <1>9, <1>13, <1>16
<1>27. Spreads(n, pre, P, D, o, t, new)
  BY <1>8, <1>10, <1>16, <1>18, <1>23, <1>24, <1>25, <1>26 DEF Spreads, S2
<1> QED BY <1>11, <1>15, <1>17, <1>27 DEF S, S2

\* In the end every gate with a path to o has been found.
LEMMA SpreadEnds ==
  ASSUME NEW n, NEW pre, NEW P, NEW D, NEW o, WayBack(n, pre, P, D, o),
         NEW now, Spreads(n, pre, P, D, o, <<>>, now)
  PROVE  Found(n, P, o, now) = DOMAIN D
<1> DEFINE S == Found(n, P, o, now)
<1>1. /\ \A g \in DOMAIN D : D[g] \in Nat /\ (D[g] = 0 <=> g = o)
      /\ \A g \in DOMAIN D : D[g] > 0 =>
           \E h \in DOMAIN D : g \in Range(pre[h]) /\ D[h] = D[g] - 1
      /\ o \in 1 .. n
  BY DEF WayBack, Measures
<1>2. Range(<<>>) = {}
  BY DEF Range
<1>3. /\ \A g \in S : g \in DOMAIN D
      /\ \A g \in S : \A f \in Range(pre[g]) : f \in S
  BY <1>2 DEF Spreads
<1>4. o \in S
  BY <1>1 DEF Found
<1> HIDE DEF S
<1> DEFINE B == {k \in Nat : \A g \in DOMAIN D : D[g] = k => g \in S}
<1>5. 0 \in B
  BY <1>1, <1>4
<1>6. ASSUME NEW k \in B PROVE k + 1 \in B
  <2>1. k \in Nat /\ \A g \in DOMAIN D : D[g] = k => g \in S
    OBVIOUS
  <2>2. ASSUME NEW g \in DOMAIN D, D[g] = k + 1 PROVE g \in S
    <3>1. D[g] > 0 /\ D[g] - 1 = k
      BY <2>1, <2>2
    <3> QED BY <1>1, <1>3, <2>1, <3>1
  <2>3. k + 1 \in Nat
    BY <2>1
  <2> QED BY <2>2, <2>3
<1>7. B = Nat
  <2>1. B \in SUBSET Nat
    OBVIOUS
  <2> HIDE DEF B
  <2> QED BY <1>5, <1>6, <2>1, InductionOverNat
<1>8. \A g \in DOMAIN D : g \in S
  <2>1. ASSUME NEW g \in DOMAIN D PROVE g \in S
    <3>1. D[g] \in Nat
      BY <1>1
    <3>2. D[g] \in B
      BY <1>7, <3>1
    <3> QED BY <3>2
  <2> QED BY <2>1
<1>9. S = DOMAIN D
  BY <1>3, <1>8
<1> QED BY <1>9 DEF S

------------------------------------------------------------------------------
\* The walks among the first m whose distances D include g, and what was counted of
\* them.
Reached(m, D, g) == {k \in 1 .. m : g \in DOMAIN D[k]}

Tallied(m, D, g, cnt, tot) ==
  /\ cnt = Cardinality(Reached(m, D, g))
  /\ tot = SumFunctionOnSet([k \in Reached(m, D, g) |-> D[k][g]], Reached(m, D, g))

LEMMA TallyStarts ==
  ASSUME NEW D, NEW g
  PROVE  Tallied(0, D, g, 0, 0)
<1>1. Reached(0, D, g) = {}
  BY DEF Reached
<1> QED BY <1>1, FS_EmptySet, SumEmpty DEF Tallied

\* The values that are counted.
Counts(m, D, g) == \A k \in 1 .. m : g \in DOMAIN D[k] => D[k][g] \in Nat

LEMMA ReachedFacts ==
  ASSUME NEW m \in Nat, NEW D, NEW g, Counts(m, D, g)
  PROVE  /\ IsFiniteSet(Reached(m, D, g)) /\ Cardinality(Reached(m, D, g)) \in Nat
         /\ Summable([k \in Reached(m, D, g) |-> D[k][g]], Reached(m, D, g))
         /\ SumFunctionOnSet([k \in Reached(m, D, g) |-> D[k][g]], Reached(m, D, g)) \in Int
<1>1. PICK R : R = Reached(m, D, g)
  OBVIOUS
<1>2. R \subseteq 1 .. m /\ \A k \in R : D[k][g] \in Nat
  BY <1>1 DEF Reached, Counts
<1>3. IsFiniteSet(R) /\ Cardinality(R) \in Nat
  <2>1. IsFiniteSet(1 .. m)
    BY FS_Interval
  <2> QED BY <1>2, <2>1, FS_Subset, FS_CardinalityType
<1>4. PICK f : f = [k \in R |-> D[k][g]]
  OBVIOUS
<1>5. Summable(f, R)
  BY <1>2, <1>3, <1>4 DEF Summable
<1>6. SumFunctionOnSet(f, R) \in Int
  BY <1>5, SumType
<1> QED BY <1>1, <1>3, <1>4, <1>5, <1>6

LEMMA TallyGoesOn ==
  ASSUME NEW m \in Nat, NEW D, NEW g, Counts(m + 1, D, g), NEW cnt, NEW tot,
         Tallied(m, D, g, cnt, tot)
  PROVE  IF g \in DOMAIN D[m + 1] THEN Tallied(m + 1, D, g, cnt + 1, tot + D[m + 1][g])
         ELSE Tallied(m + 1, D, g, cnt, tot)
<1>1. PICK n \in Nat : n = m + 1
  OBVIOUS
<1>2. /\ \A k : k \in 1 .. n <=> k \in 1 .. m \/ k = n
      /\ n \notin 1 .. m
  BY <1>1
<1>3. Counts(m, D, g) /\ Counts(n, D, g)
  BY <1>1, <1>2 DEF Counts
<1>4. PICK R : R = Reached(m, D, g)
  OBVIOUS
<1>5. PICK Q : Q = Reached(n, D, g)
  OBVIOUS
<1>6. /\ \A k : k \in R <=> k \in 1 .. m /\ g \in DOMAIN D[k]
      /\ \A k : k \in Q <=> k \in 1 .. n /\ g \in DOMAIN D[k]
  BY <1>4, <1>5 DEF Reached
<1>7. PICK f : f = [k \in Q |-> D[k][g]]
  OBVIOUS
<1>8. PICK h : h = [k \in R |-> D[k][g]]
  OBVIOUS
<1>9. /\ IsFiniteSet(R) /\ IsFiniteSet(Q) /\ Cardinality(R) \in Nat
      /\ Summable(f, Q) /\ Summable(h, R)
  BY <1>1, <1>3, <1>4, <1>5, <1>7, <1>8, ReachedFacts
<1>10. cnt = Cardinality(R) /\ tot = SumFunctionOnSet(h, R)
  BY <1>4, <1>8 DEF Tallied
<1>11. CASE g \in DOMAIN D[n]
  <2>1. Q = R \cup {n} /\ n \notin R /\ R \in SUBSET Q /\ n \in Q \ R
    <3>1. \A k : k \in Q <=> k \in R \/ k = n
      BY <1>2, <1>6, <1>11
    <3> QED BY <1>2, <1>6, <3>1
  <2>2. Cardinality(Q) = cnt + 1
    BY <1>9, <1>10, <2>1, FS_AddElement
  <2>3. SumFunctionOnSet(f, R) = SumFunctionOnSet(h, R)
    <3>1. \A k \in R : h[k] = f[k]
      BY <1>7, <1>8, <2>1
    <3> QED BY <1>9, <3>1, SumSame
  <2>4. SumFunctionOnSet(f, R \cup {n}) = f[n] + SumFunctionOnSet(f, R)
    BY <1>9, <2>1, SumAddElement
  <2>5. f[n] = D[n][g] /\ f[n] \in Int
    BY <1>7, <1>9, <2>1 DEF Summable
  <2>6. tot \in Int
    BY <1>9, <1>10, SumType
  <2>7. SumFunctionOnSet(f, Q) = tot + D[n][g]
    BY <1>10, <2>1, <2>3, <2>4, <2>5, <2>6
  <2>8. Tallied(n, D, g, cnt + 1, tot + D[n][g])
    BY <1>5, <1>7, <2>2, <2>7 DEF Tallied
  <2> QED BY <1>1, <1>11, <2>8
<1>12. CASE g \notin DOMAIN D[n]
  <2>1. Q = R
    <3>1. \A k : k \in Q <=> k \in R
      BY <1>2, <1>6, <1>12
    <3> QED BY <3>1
  <2>2. Tallied(n, D, g, cnt, tot)
    BY <1>4, <1>5, <2>1 DEF Tallied
  <2> QED BY <1>1, <1>12, <2>2
<1> QED BY <1>11, <1>12

\* Distances of one and more have a mean of one and more.
LEMMA SumAtLeast ==
  ASSUME NEW S, NEW f, Summable(f, S), \A x \in S : f[x] >= 1
  PROVE  SumFunctionOnSet(f, S) >= Cardinality(S)
<1> DEFINE B == {U \in SUBSET S : SumFunctionOnSet(f, U) >= Cardinality(U)}
<1>1. IsFiniteSet(S) /\ \A x \in S : f[x] \in Int
  BY DEF Summable
<1>2. {} \in B
  BY SumEmpty, FS_EmptySet
<1>3. ASSUME NEW U \in SUBSET S, NEW x \in S \ U, U \in B
      PROVE  U \cup {x} \in B
  <2>1. IsFiniteSet(U) /\ Cardinality(U) \in Nat /\ Summable(f, U)
    BY <1>1, FS_Subset, FS_CardinalityType DEF Summable
  <2>2. Cardinality(U \cup {x}) = Cardinality(U) + 1
    BY <2>1, FS_AddElement
  <2>3. SumFunctionOnSet(f, U \cup {x}) = f[x] + SumFunctionOnSet(f, U)
    BY SumAddElement
  <2>4. SumFunctionOnSet(f, U) \in Int /\ SumFunctionOnSet(f, U) >= Cardinality(U)
    BY <1>3, <2>1, SumType
  <2>5. f[x] \in Int /\ f[x] >= 1
    BY <1>1
  <2>6. SumFunctionOnSet(f, U \cup {x}) >= Cardinality(U \cup {x})
    BY <2>1, <2>2, <2>3, <2>4, <2>5
  <2> QED BY <2>6
<1>4. S \in B
  <2>1. \A T \in SUBSET S : \A x \in S \ T : T \in B => T \cup {x} \in B
    BY <1>3
  <2> HIDE DEF B
  <2> QED BY <1>1, <1>2, <2>1, InductionOverSet
<1> QED BY <1>4

LEMMA MeanNotZero ==
  ASSUME NEW m \in Nat, NEW D, NEW g, NEW cnt, NEW tot, Tallied(m, D, g, cnt, tot),
         Counts(m, D, g), \A k \in 1 .. m : g \in DOMAIN D[k] => D[k][g] >= 1, cnt # 0
  PROVE  tot \div cnt # 0
<1>1. PICK R : R = Reached(m, D, g)
  OBVIOUS
<1>2. PICK f : f = [k \in R |-> D[k][g]]
  OBVIOUS
<1>3. /\ cnt = Cardinality(R) /\ cnt \in Nat /\ tot = SumFunctionOnSet(f, R) /\ tot \in Int
      /\ Summable(f, R)
  BY <1>1, <1>2, ReachedFacts DEF Tallied
<1>4. \A k \in R : f[k] >= 1
  BY <1>1, <1>2 DEF Reached
<1>5. tot >= cnt
  BY <1>3, <1>4, SumAtLeast
<1>6. PICK c \in Nat : c = cnt /\ c >= 1
  BY <1>3
<1>7. PICK t \in Int : t = tot /\ t >= c
  BY <1>3, <1>5, <1>6
<1>8. t \div c \in Int /\ t \div c >= 1
  BY <1>6, <1>7
<1> QED BY <1>6, <1>7, <1>8

------------------------------------------------------------------------------
\* The inductive invariant of the distances, for a netlist whose gates are fewer than
\* the number that stands for no distance: the walk from output po has found the
\* gates that have a distance, and counted those that left the queue.
Ways == [k \in DOMAIN POs |-> DistancesTo(POs[k])]
Outs == {g \in DOMAIN gates : gates[g].isPO}

Measuring == stage \in {"next_po", "walk", "done", "giveup", "abort"}

CountedIn(m, D, in, g, cnt, tot) ==
  IF in THEN Tallied(m, D, g, cnt - 1, tot - D[m + 1][g]) ELSE Tallied(m, D, g, cnt, tot)

WalkSpreads ==
  /\ po <= Len(POs)
  /\ Spreads(N, Fanins, Outs, Ways[po], POs[po], q, now_dist)
  /\ \A g \in DOMAIN gates :
       CountedIn(po - 1, Ways, g \in Found(N, Outs, POs[po], now_dist) /\ g \notin Range(q),
                 g, total_cnt[g], total_dist[g])

AllTallied ==
  \A g \in DOMAIN gates : Tallied(po - 1, Ways, g, total_cnt[g], total_dist[g])

Decided ==
  /\ po = Len(POs) + 1
  /\ stage # "abort"
  /\ stage = "done" <=> \A g \in DOMAIN gates : total_cnt[g] # 0

Distances ==
  /\ po \in 1 .. Len(POs) + 1
  /\ total_cnt \in [DOMAIN gates -> Nat] /\ total_dist \in [DOMAIN gates -> Nat]
  /\ stage = "walk" => WalkSpreads
  /\ stage # "walk" => AllTallied
  /\ stage \in {"done", "giveup", "abort"} => Decided

DInv ==
  /\ ~Measuring => po = 1
  /\ Measuring /\ N < Infinite => Distances

\* What the walks use of the netlist.
WaysBack ==
  /\ N \in Nat /\ DOMAIN gates = 1 .. N
  /\ POs \in Seq(1 .. N) /\ Len(POs) \in Nat /\ DOMAIN POs = 1 .. Len(POs)
  /\ Outs = Range(POs)
  /\ \A g \in 1 .. N : IsInjective(Fanins[g])
  /\ \A k \in DOMAIN POs : WayBack(N, Fanins, Outs, Ways[k], POs[k])

LEMMA OutputsUnread ==
  ASSUME TInv, pc = "done", NEW g \in DOMAIN gates, NEW f \in Range(Fanins[g])
  PROVE  f \in DOMAIN gates /\ ~gates[f].isPO
<1>1. PICK n \in Nat : n = Len(gates) /\ DOMAIN gates = 1 .. n
  BY WalkNetlist DEF TInv
<1>2. /\ Fanins \in [1 .. n -> Seq(1 .. n)] /\ Fanouts \in [1 .. n -> Seq(1 .. n)]
      /\ \A x, y \in 1 .. n : Count(Fanouts[x], y) = Count(Fanins[y], x)
  BY <1>1, WalkNetlist DEF TInv, Connects
<1>3. Fanins[g] \in Seq(1 .. n) /\ \E k \in DOMAIN Fanins[g] : Fanins[g][k] = f
  BY <1>1, <1>2 DEF Range
<1>4. f \in 1 .. n
  BY <1>3
<1>5. Count(Fanins[g], f) > 0
  BY <1>3, CountPositive
<1>6. Count(Fanouts[f], g) > 0
  BY <1>1, <1>2, <1>4, <1>5
<1>7. Fanouts[f] # <<>>
  BY <1>6, CountEmpty
<1>8. ASSUME gates[f].isPO PROVE FALSE
  <2>1. StemsAreSplit
    BY IInvGivesStemsAreSplit DEF TInv
  <2>2. f \in Range(POs) /\ gates[f].fanouts = <<>>
    BY <1>1, <1>4, <1>8, <2>1 DEF StemsAreSplit
  <2> QED BY <1>1, <1>4, <1>7, <2>2 DEF Fanouts
<1> QED BY <1>1, <1>4, <1>8

LEMMA WaysAreBack ==
  ASSUME TInv, Measuring, N < Infinite
  PROVE  WaysBack
<1>1. pc = "done" /\ AllNumbered(Len(gates), Fanins, id)
  BY DEF Measuring, TInv, Stages, WalkForward
<1>2. PICK n \in Nat : n = Len(gates) /\ DOMAIN gates = 1 .. n
  BY <1>1, WalkNetlist DEF TInv
<1>3. Fanins \in [1 .. n -> Seq(1 .. n)]
  BY <1>1, <1>2, WalkNetlist DEF TInv, Connects
<1>4. POs \in Seq(1 .. n)
  BY <1>2 DEF TInv, IInv, Typed
<1>5. Outs = Range(POs)
  BY <1>1, IInvGivesStemsAreSplit DEF TInv, StemsAreSplit, Outs
<1>6. Len(POs) \in Nat /\ DOMAIN POs = 1 .. Len(POs)
  BY <1>4
<1>7. \A g \in 1 .. n : \A f \in Range(Fanins[g]) : f \in 1 .. n /\ f \notin Outs
  BY <1>1, <1>2, OutputsUnread DEF Outs
<1>8. ASSUME NEW k \in DOMAIN POs
      PROVE  WayBack(n, Fanins, Outs, Ways[k], POs[k])
  <2>1. PICK o \in 1 .. n : o = POs[k]
    BY <1>4
  <2>2. PICK a : StepsBack(n, Fanins, o, a) /\ DistancesTo(o) = Shortest(n, a)
    BY <1>2, <1>3, DistancesParts
  <2>3. Measures(n, Fanins, DistancesTo(o), o)
    BY <1>1, <1>2, <1>3, <2>2, ShortestMeasures
  <2>4. Ways[k] = DistancesTo(o)
    BY <2>1 DEF Ways
  <2>5. o \in Outs /\ Outs \subseteq 1 .. n
    BY <1>2, <1>5, <2>1 DEF Range, Outs
  <2>6. n < Infinite
    BY <1>2 DEF N
  <2> QED BY <1>3, <1>7, <2>1, <2>3, <2>4, <2>5, <2>6 DEF WayBack
<1>9. \A g \in 1 .. n : IsInjective(Fanins[g])
  BY <1>1, <1>2, WalkNetlist DEF TInv, Connects
<1> QED BY <1>2, <1>4, <1>5, <1>6, <1>8, <1>9 DEF WaysBack, N

\* The distances that are counted are numbers, and one or more but for the output.
LEMMA WaysCount ==
  ASSUME WaysBack, NEW m, m <= Len(POs), m \in Nat, NEW g \in DOMAIN gates
  PROVE  /\ Counts(m, Ways, g)
         /\ ~gates[g].isPO => \A k \in 1 .. m : g \in DOMAIN Ways[k] => Ways[k][g] >= 1
<1>1. /\ Len(POs) \in Nat /\ DOMAIN POs = 1 .. Len(POs) /\ Outs = Range(POs)
      /\ \A k \in DOMAIN POs : Measures(N, Fanins, Ways[k], POs[k])
  BY DEF WaysBack, WayBack
<1>2. ASSUME NEW k \in 1 .. m, g \in DOMAIN Ways[k]
      PROVE  Ways[k][g] \in Nat /\ (~gates[g].isPO => Ways[k][g] >= 1)
  <2>1. k \in DOMAIN POs
    BY <1>1
  <2>2. Ways[k][g] \in Nat /\ (Ways[k][g] = 0 <=> g = POs[k])
    BY <1>1, <1>2, <2>1 DEF Measures
  <2>3. gates[POs[k]].isPO
    <3>1. POs[k] \in Outs
      BY <1>1, <2>1 DEF Range
    <3> QED BY <3>1 DEF Outs
  <2> QED BY <2>2, <2>3
<1> QED BY <1>2 DEF Counts

------------------------------------------------------------------------------
LEMMA StartDistancesKeeps ==
  ASSUME TInv, DInv, StartDistances
  PROVE  DInv'
<1>1. /\ stage = "backward" /\ stage' = "next_po" /\ UNCHANGED <<vars, po>>
      /\ total_dist' = PerGate(LAMBDA g : 0) /\ total_cnt' = PerGate(LAMBDA g : 0)
  BY DEF StartDistances
<1>2. gates' = gates /\ POs' = POs /\ po' = 1
  BY <1>1 DEF DInv, Measuring, vars
<1>3. total_dist' = [g \in DOMAIN gates |-> 0] /\ total_cnt' = [g \in DOMAIN gates |-> 0]
  BY <1>1 DEF PerGate
<1>4. total_cnt' \in [DOMAIN gates -> Nat] /\ total_dist' \in [DOMAIN gates -> Nat]
  BY <1>3
<1>5. Ways' = Ways
  BY <1>2 DEF Ways, DistancesTo, N
<1>6. AllTallied'
  <2>1. po' - 1 = 0
    BY <1>2
  <2>2. \A g \in DOMAIN gates : Tallied(0, Ways, g, total_cnt'[g], total_dist'[g])
    BY <1>3, TallyStarts
  <2> QED BY <1>2, <1>5, <2>1, <2>2 DEF AllTallied
<1>7. po' \in 1 .. Len(POs) + 1
  <2>1. POs \in Seq(DOMAIN gates)
    BY DEF TInv, IInv, Typed
  <2> QED BY <1>2, <2>1
<1> QED BY <1>1, <1>2, <1>4, <1>6, <1>7 DEF DInv, Distances, Measuring

\* What stays when the netlist does.
LEMMA WaysKept ==
  ASSUME UNCHANGED vars
  PROVE  /\ gates' = gates /\ POs' = POs /\ Ways' = Ways /\ Outs' = Outs
         /\ Fanins' = Fanins /\ N' = N
<1>1. gates' = gates /\ POs' = POs
  BY DEF vars
<1> QED BY <1>1 DEF Ways, DistancesTo, N, Outs, Fanins

LEMMA StartOutputKeeps ==
  ASSUME WaysBack, N < Infinite, Distances, StartOutput
  PROVE  Distances'
<1>1. /\ stage = "next_po" /\ stage' = "walk" /\ po <= Len(POs) /\ q' = <<POs[po]>>
      /\ UNCHANGED <<vars, po, total_dist, total_cnt>>
      /\ now_dist' = PerGate(LAMBDA g : IF gates[g].isPO THEN 0 ELSE Infinite)
  BY DEF StartOutput
<1>2. /\ gates' = gates /\ POs' = POs /\ Ways' = Ways /\ Outs' = Outs
      /\ Fanins' = Fanins /\ N' = N
  BY <1>1, WaysKept
<1>3. DOMAIN gates = 1 .. N /\ Len(POs) \in Nat /\ DOMAIN POs = 1 .. Len(POs)
  BY DEF WaysBack
<1>4. now_dist' = [g \in 1 .. N |-> IF g \in Outs THEN 0 ELSE Infinite]
  <2>1. now_dist' = [g \in DOMAIN gates |-> IF gates[g].isPO THEN 0 ELSE Infinite]
    BY <1>1 DEF PerGate
  <2>2. \A g \in DOMAIN gates : g \in Outs <=> gates[g].isPO
    BY DEF Outs
  <2> QED BY <1>3, <2>1, <2>2
<1>5. po \in DOMAIN POs
  <2>1. po \in 1 .. Len(POs) + 1
    BY DEF Distances
  <2>2. po <= Len(POs)
    BY DEF StartOutput
  <2> QED BY <1>3, <2>1, <2>2
<1>6. WayBack(N, Fanins, Outs, Ways[po], POs[po])
  BY <1>5 DEF WaysBack
<1>7. PICK o : o = POs[po]
  OBVIOUS
<1>8. Spreads(N, Fanins, Outs, Ways[po], o, <<o>>, now_dist') /\ Found(N, Outs, o, now_dist') = {o}
  <2>1. PICK now : now = now_dist'
    OBVIOUS
  <2>2. Spreads(N, Fanins, Outs, Ways[po], o, <<o>>, now) /\ Found(N, Outs, o, now) = {o}
    BY <1>4, <1>6, <1>7, <2>1, SpreadStarts
  <2> QED BY <2>1, <2>2
<1>9. Range(<<o>>) = {o}
  BY DEF Range
<1>10. AllTallied
  BY <1>1 DEF Distances
<1>11. ASSUME NEW g \in DOMAIN gates
       PROVE  CountedIn(po - 1, Ways, g \in Found(N, Outs, o, now_dist') /\ g \notin Range(<<o>>),
                        g, total_cnt[g], total_dist[g])
  BY <1>8, <1>9, <1>10 DEF CountedIn, AllTallied
<1>12. WalkSpreads'
  BY <1>1, <1>2, <1>7, <1>8, <1>11 DEF WalkSpreads
<1> QED BY <1>1, <1>2, <1>12 DEF Distances

\* What Visit does, for a tally of its own.
LEMMA TallyCountedIn ==
  ASSUME NEW m, NEW D, NEW g, NEW cnt, NEW tot, Tallied(m, D, g, cnt, tot), NEW d,
         d = D[m + 1][g], cnt \in Nat, tot \in Nat, d \in Nat
  PROVE  CountedIn(m, D, TRUE, g, cnt + 1, tot + d)
<1>1. (cnt + 1) - 1 = cnt /\ (tot + d) - d = tot
  OBVIOUS
<1>2. Tallied(m, D, g, (cnt + 1) - 1, (tot + d) - d)
  BY <1>1
<1> QED BY <1>2 DEF CountedIn

LEMMA VisitKeeps ==
  ASSUME WaysBack, N < Infinite, Distances, Visit
  PROVE  Distances'
<1>1. /\ stage = "walk" /\ stage' = "walk" /\ q # <<>> /\ UNCHANGED <<vars, po>>
  BY DEF Visit
<1>2. /\ gates' = gates /\ POs' = POs /\ Ways' = Ways /\ Outs' = Outs
      /\ Fanins' = Fanins /\ N' = N
  BY <1>1, WaysKept
<1>3. /\ N \in Nat /\ DOMAIN gates = 1 .. N
      /\ Len(POs) \in Nat /\ DOMAIN POs = 1 .. Len(POs)
  BY DEF WaysBack
<1>4. WalkSpreads /\ po \in 1 .. Len(POs) + 1
      /\ total_cnt \in [DOMAIN gates -> Nat] /\ total_dist \in [DOMAIN gates -> Nat]
  BY <1>1 DEF Distances
<1>5. PICK p : p = po
  OBVIOUS
<1>6. p \in DOMAIN POs /\ po <= Len(POs)
  BY <1>3, <1>4, <1>5 DEF WalkSpreads
<1>7. PICK D : D = Ways[p]
  OBVIOUS
<1>8. PICK o : o = POs[p]
  OBVIOUS
<1>9. WayBack(N, Fanins, Outs, D, o)
  BY <1>6, <1>7, <1>8 DEF WaysBack
<1>10. Spreads(N, Fanins, Outs, D, o, q, now_dist)
  BY <1>4, <1>5, <1>7, <1>8 DEF WalkSpreads
<1>11. PICK u : u = Head(q)
  OBVIOUS
<1>12. q \in Seq(1 .. N) /\ u = q[1]
  BY <1>1, <1>10, <1>11 DEF Spreads
<1>13. u \in 1 .. N
  <2>1. 1 \in DOMAIN q
    BY <1>1, <1>12
  <2> QED BY <1>12, <2>1, SeqElements
<1>14. PICK c : c = Closer(u)
  OBVIOUS
<1>15. Lists(c, Fanins[u], {f \in 1 .. N : now_dist[u] + 1 < now_dist[f]}, 1 .. N)
  <2>1. Fanins[u] = gates[u].fanins
    BY <1>3, <1>13 DEF Fanins
  <2>2. PICK s : s = Fanins[u]
    OBVIOUS
  <2>3. s \in Seq(1 .. N) /\ IsInjective(s)
    BY <1>9, <1>13, <2>2 DEF WayBack, WaysBack
  <2>4. PICK S : S = {f \in DOMAIN gates : now_dist[u] + 1 < now_dist[f]}
    OBVIOUS
  <2>5. c = Chosen(s, S)
    BY <1>14, <2>1, <2>2, <2>4 DEF Closer
  <2>6. Lists(c, s, S, 1 .. N)
    BY <2>3, <2>5, ChosenLists
  <2> QED BY <1>3, <2>2, <2>4, <2>6
<1>16. PICK new : new = now_dist'
  OBVIOUS
<1>17. /\ total_dist' = [total_dist EXCEPT ![u] = @ + now_dist[u]]
       /\ total_cnt' = [total_cnt EXCEPT ![u] = @ + 1]
       /\ new = [f \in 1 .. N |-> IF f \in Range(c) THEN now_dist[u] + 1 ELSE now_dist[f]]
       /\ q' = Tail(q) \o c
  BY <1>3, <1>11, <1>14, <1>16 DEF Visit
<1>18. Takes(N, Fanins, q, now_dist, u, c, new)
  BY <1>1, <1>12, <1>15, <1>17 DEF Takes
<1>19. /\ Spreads(N, Fanins, Outs, D, o, q', new)
       /\ \A g \in 1 .. N :
            (g \in Found(N, Outs, o, new) /\ g \notin Range(q')) <=>
              (g \in Found(N, Outs, o, now_dist) /\ g \notin Range(q)) \/ g = u
  <2>1. /\ Spreads(N, Fanins, Outs, D, o, Tail(q) \o c, new)
        /\ \A g \in 1 .. N :
             (g \in Found(N, Outs, o, new) /\ g \notin Range(Tail(q) \o c)) <=>
               (g \in Found(N, Outs, o, now_dist) /\ g \notin Range(q)) \/ g = u
    BY <1>9, <1>10, <1>18, SpreadGoesOn
  <2> QED BY <1>17, <2>1
<1>20. u \in Range(q) /\ now_dist[u] = D[u] /\ D[u] \in Nat
  <2>1. Finds(N, Fanins, Outs, D, Found(N, Outs, o, now_dist), q, now_dist, u, c)
    BY <1>9, <1>10, <1>18, SpreadFinds
  <2> QED BY <2>1 DEF Finds
<1>21. total_cnt' \in [DOMAIN gates -> Nat] /\ total_dist' \in [DOMAIN gates -> Nat]
  <2>1. u \in DOMAIN gates /\ now_dist[u] \in Nat
    BY <1>3, <1>13, <1>20
  <2>2. total_cnt[u] \in Nat /\ total_dist[u] \in Nat
    BY <1>4, <2>1
  <2>3. total_cnt[u] + 1 \in Nat /\ total_dist[u] + now_dist[u] \in Nat
    BY <2>1, <2>2
  <2> QED BY <1>4, <1>17, <2>1, <2>3
<1>22. ASSUME NEW g \in DOMAIN gates
       PROVE  CountedIn(p - 1, Ways, g \in Found(N, Outs, o, new) /\ g \notin Range(q'),
                        g, total_cnt'[g], total_dist'[g])
  <2>1. CountedIn(p - 1, Ways, g \in Found(N, Outs, o, now_dist) /\ g \notin Range(q),
                  g, total_cnt[g], total_dist[g])
    BY <1>4, <1>5, <1>8 DEF WalkSpreads
  <2>2. CASE g = u
    <3>1. Tallied(p - 1, Ways, g, total_cnt[g], total_dist[g])
      BY <1>20, <2>1, <2>2 DEF CountedIn
    <3>2. total_cnt'[g] = total_cnt[g] + 1 /\ total_dist'[g] = total_dist[g] + D[u]
      BY <1>4, <1>17, <1>20, <2>2
    <3>3. (p - 1) + 1 = p
      BY <1>3, <1>6
    <3>4. D[u] = Ways[(p - 1) + 1][g]
      BY <1>7, <2>2, <3>3
    <3>5. total_cnt[g] \in Nat /\ total_dist[g] \in Nat
      BY <1>4
    <3>6. CountedIn(p - 1, Ways, TRUE, g, total_cnt[g] + 1, total_dist[g] + D[u])
      BY <1>20, <3>1, <3>4, <3>5, TallyCountedIn
    <3>7. g \in Found(N, Outs, o, new) /\ g \notin Range(q')
      BY <1>13, <1>19, <2>2
    <3> QED BY <3>2, <3>6, <3>7 DEF CountedIn
  <2>3. CASE g # u
    <3>1. total_cnt'[g] = total_cnt[g] /\ total_dist'[g] = total_dist[g]
      BY <1>4, <1>17, <2>3
    <3>2. (g \in Found(N, Outs, o, new) /\ g \notin Range(q')) <=>
            (g \in Found(N, Outs, o, now_dist) /\ g \notin Range(q))
      BY <1>3, <1>19, <2>3
    <3> QED BY <2>1, <3>1, <3>2 DEF CountedIn
  <2> QED BY <2>2, <2>3
<1>23. WalkSpreads'
  BY <1>1, <1>2, <1>5, <1>6, <1>7, <1>8, <1>16, <1>19, <1>22 DEF WalkSpreads
<1> QED BY <1>1, <1>2, <1>4, <1>21, <1>23 DEF Distances

LEMMA EndOutputKeeps ==
  ASSUME WaysBack, N < Infinite, Distances, EndOutput
  PROVE  Distances'
<1>1. /\ stage = "walk" /\ stage' = "next_po" /\ q = <<>> /\ po' = po + 1
      /\ UNCHANGED <<vars, total_cnt, total_dist>>
  BY DEF EndOutput
<1>2. /\ gates' = gates /\ POs' = POs /\ Ways' = Ways
  BY <1>1, WaysKept
<1>3. /\ N \in Nat /\ DOMAIN gates = 1 .. N
      /\ Len(POs) \in Nat /\ DOMAIN POs = 1 .. Len(POs)
  BY DEF WaysBack
<1>4. WalkSpreads /\ po \in 1 .. Len(POs) + 1
      /\ total_cnt \in [DOMAIN gates -> Nat] /\ total_dist \in [DOMAIN gates -> Nat]
  BY <1>1 DEF Distances
<1>5. PICK m \in Nat : m + 1 = po /\ m = po - 1 /\ (m + 1) - 1 = m
  BY <1>3, <1>4
<1>6. m + 1 \in DOMAIN POs /\ m + 1 <= Len(POs)
  BY <1>3, <1>4, <1>5 DEF WalkSpreads
<1>7. Found(N, Outs, POs[m + 1], now_dist) = DOMAIN Ways[m + 1]
  <2>1. WayBack(N, Fanins, Outs, Ways[m + 1], POs[m + 1])
    BY <1>6 DEF WaysBack
  <2>2. Spreads(N, Fanins, Outs, Ways[m + 1], POs[m + 1], <<>>, now_dist)
    BY <1>1, <1>4, <1>5 DEF WalkSpreads
  <2> QED BY <2>1, <2>2, SpreadEnds
<1>8. ASSUME NEW g \in DOMAIN gates
      PROVE  Tallied(m + 1, Ways, g, total_cnt[g], total_dist[g])
  <2>1. Counts(m + 1, Ways, g)
    BY <1>6, WaysCount
  <2>2. CountedIn(m, Ways, g \in DOMAIN Ways[m + 1] /\ g \notin Range(q), g,
                  total_cnt[g], total_dist[g])
    BY <1>4, <1>5, <1>7 DEF WalkSpreads
  <2>3. Range(q) = {}
    BY <1>1 DEF Range
  <2>4. PICK cnt : cnt = total_cnt[g] /\ cnt \in Nat
    BY <1>4
  <2>5. PICK tot : tot = total_dist[g] /\ tot \in Nat
    BY <1>4
  <2>6. CASE g \in DOMAIN Ways[m + 1]
    <3>1. PICK d \in Nat : d = Ways[m + 1][g]
      BY <1>6, <2>1, <2>6 DEF Counts
    <3>2. Tallied(m, Ways, g, cnt - 1, tot - d)
      BY <2>2, <2>3, <2>4, <2>5, <2>6, <3>1 DEF CountedIn
    <3>3. (cnt - 1) + 1 = cnt /\ (tot - d) + d = tot
      BY <2>4, <2>5
    <3>4. Tallied(m + 1, Ways, g, (cnt - 1) + 1, (tot - d) + Ways[m + 1][g])
      BY <2>1, <2>6, <3>2, TallyGoesOn
    <3> QED BY <2>4, <2>5, <3>1, <3>3, <3>4
  <2>7. CASE g \notin DOMAIN Ways[m + 1]
    <3>1. Tallied(m, Ways, g, cnt, tot)
      BY <2>2, <2>4, <2>5, <2>7 DEF CountedIn
    <3>2. Tallied(m + 1, Ways, g, cnt, tot)
      BY <2>1, <2>7, <3>1, TallyGoesOn
    <3> QED BY <2>4, <2>5, <3>2
  <2> QED BY <2>6, <2>7
<1>9. AllTallied'
  <2>1. po' - 1 = m + 1
    BY <1>1, <1>5
  <2> QED BY <1>1, <1>2, <1>8, <2>1 DEF AllTallied
<1>10. po' \in 1 .. Len(POs') + 1
  BY <1>1, <1>2, <1>3, <1>5, <1>6
<1> QED BY <1>1, <1>2, <1>4, <1>9, <1>10 DEF Distances

\* Every gate has a mean distance, or the walk stops at one that no output is
\* reached from.
LEMMA AverageKeeps ==
  ASSUME TInv, WaysBack, N < Infinite, Distances, Average
  PROVE  Distances'
<1> DEFINE Avg(g)    == IF total_cnt[g] = 0 THEN 0 ELSE total_dist[g] \div total_cnt[g]
           unreached == {g \in DOMAIN gates : total_cnt[g] = 0}
           touching  == {g \in DOMAIN gates \ unreached : ~gates[g].isPO /\ Avg(g) = 0}
           first     == CHOOSE g \in unreached \cup touching :
                          \A h \in unreached \cup touching : id[g] <= id[h]
<1>1. stage = "next_po" /\ po > Len(POs)
  BY DEF Average
<1>2. UNCHANGED <<vars, po, total_dist, total_cnt>>
  BY DEF Average
<1>3. stage' = IF unreached \cup touching = {} THEN "done"
               ELSE IF first \in unreached THEN "giveup" ELSE "abort"
  BY DEF Average
<1>4. /\ gates' = gates /\ POs' = POs /\ Ways' = Ways
  BY <1>2, WaysKept
<1>5. DOMAIN gates = 1 .. N /\ N \in Nat /\ Len(POs) \in Nat
  BY DEF WaysBack
<1>6. po \in 1 .. Len(POs) + 1 /\ AllTallied
      /\ total_cnt \in [DOMAIN gates -> Nat] /\ total_dist \in [DOMAIN gates -> Nat]
  BY <1>1 DEF Distances
<1>7. PICK m \in Nat : m = Len(POs) /\ po = m + 1 /\ po - 1 = m
  <2>1. po = Len(POs) + 1
    BY <1>1, <1>5, <1>6
  <2> QED BY <1>5, <2>1
<1>8. touching = {}
  <2>1. ASSUME NEW g \in DOMAIN gates, total_cnt[g] # 0, ~gates[g].isPO
        PROVE  Avg(g) # 0
    <3>1. Tallied(m, Ways, g, total_cnt[g], total_dist[g])
      BY <1>6, <1>7 DEF AllTallied
    <3>2. m <= Len(POs)
      BY <1>7
    <3>3. Counts(m, Ways, g) /\ \A k \in 1 .. m : g \in DOMAIN Ways[k] => Ways[k][g] >= 1
      BY <2>1, <3>2, WaysCount
    <3>4. total_dist[g] \div total_cnt[g] # 0
      BY <2>1, <3>1, <3>3, MeanNotZero
    <3> QED BY <2>1, <3>4
  <2> QED BY <2>1
<1> HIDE DEF touching
<1>9. unreached # {} => first \in unreached
  <2> SUFFICES ASSUME unreached # {} PROVE first \in unreached
    OBVIOUS
  <2>1. AllNumbered(N, Fanins, id)
    BY <1>1 DEF TInv, WalkForward, N
  <2>2. \A g \in DOMAIN gates : id[g] \in Nat
    <3>1. DOMAIN id = 1 .. N /\ Range(id) = 1 .. N
      BY <2>1 DEF AllNumbered
    <3>2. \A g \in 1 .. N : id[g] \in 1 .. N
      BY <3>1 DEF Range
    <3> QED BY <1>5, <3>2
  <2>3. PICK M : M = {id[g] : g \in unreached}
    OBVIOUS
  <2>4. M \in SUBSET Nat /\ M # {}
    BY <2>2, <2>3
  <2>5. PICK k \in M : \A l \in M : k <= l
    BY <2>4, LeastNatural
  <2>6. PICK g \in unreached : k = id[g]
    BY <2>3
  <2>7. \A h \in unreached : id[g] <= id[h]
    BY <2>3, <2>5, <2>6
  <2>8. unreached \cup touching = unreached
    BY <1>8
  <2> HIDE DEF unreached
  <2>9. \E x \in unreached \cup touching : \A h \in unreached \cup touching : id[x] <= id[h]
    BY <2>6, <2>7, <2>8
  <2>10. first \in unreached \cup touching
    BY <2>9
  <2> QED BY <2>8, <2>10
<1>10. stage' = IF unreached = {} THEN "done" ELSE "giveup"
  <2> HIDE DEF unreached, first
  <2>1. unreached \cup touching = unreached
    BY <1>8
  <2> QED BY <1>3, <1>9, <2>1
<1>11. unreached = {} <=> \A g \in DOMAIN gates : total_cnt[g] # 0
  OBVIOUS
<1> HIDE DEF unreached, first
<1>12. Decided'
  <2>1. stage' # "abort" /\ (stage' = "done" <=> unreached = {})
    BY <1>10
  <2> QED BY <1>2, <1>4, <1>7, <1>11, <2>1 DEF Decided
<1>13. AllTallied'
  BY <1>2, <1>4, <1>6 DEF AllTallied
<1>14. stage' # "walk"
  BY <1>10
<1> QED BY <1>2, <1>4, <1>6, <1>12, <1>13, <1>14 DEF Distances

\* Nothing happens any more.
LEMMA StillnessKeeps ==
  ASSUME Distances, UNCHANGED allVars
  PROVE  Distances'
<1>1. UNCHANGED <<vars, stage, q, po, now_dist, total_dist, total_cnt>>
  BY DEF allVars, topoVars, distances
<1>2. /\ gates' = gates /\ POs' = POs /\ Ways' = Ways /\ Outs' = Outs
      /\ Fanins' = Fanins /\ N' = N
  BY <1>1, WaysKept
<1>3. WalkSpreads' <=> WalkSpreads
  BY <1>1, <1>2 DEF WalkSpreads
<1>4. AllTallied' <=> AllTallied
  BY <1>1, <1>2 DEF AllTallied
<1>5. Decided' <=> Decided
  BY <1>1, <1>2 DEF Decided
<1> QED BY <1>1, <1>2, <1>3, <1>4, <1>5 DEF Distances

LEMMA TopoInitHasDInv == TopoInit => DInv
BY DEF TopoInit, DInv, Measuring

LEMMA TopoNextKeepsDInv == TInv /\ DInv /\ [TopoNext]_allVars => DInv'
<1> SUFFICES ASSUME TInv, DInv, [TopoNext]_allVars PROVE DInv'
  OBVIOUS
<1>1. CASE InsertLines
  <2>1. stage = "lines" /\ (stage' = "inputs" \/ stage' = stage) /\ po' = po
    BY <1>1 DEF InsertLines, distances
  <2> QED BY <2>1 DEF DInv, Measuring
<1>2. CASE NumberInputs \/ Forward \/ NumberEnds \/ Backward
  <2>1. /\ stage \in {"inputs", "forward", "backward"} /\ stage' \in {"forward", "backward"}
        /\ po' = po
    BY <1>2 DEF NumberInputs, Forward, NumberEnds, Backward, distances
  <2> QED BY <2>1 DEF DInv, Measuring
<1>3. CASE StartDistances
  BY <1>3, StartDistancesKeeps
<1>4. CASE StartOutput \/ Visit \/ EndOutput \/ Average
  <2>1. Measuring
    BY <1>4 DEF StartOutput, Visit, EndOutput, Average, Measuring
  <2>2. UNCHANGED vars
    BY <1>4 DEF StartOutput, Visit, EndOutput, Average
  <2>3. N' = N
    BY <2>2, WaysKept
  <2>4. N < Infinite => Distances'
    <3> SUFFICES ASSUME N < Infinite PROVE Distances'
      OBVIOUS
    <3>1. WaysBack /\ Distances
      BY <2>1, WaysAreBack DEF DInv
    <3> QED BY <1>4, <3>1, StartOutputKeeps, VisitKeeps, EndOutputKeeps, AverageKeeps
  <2>5. Measuring'
    <3>1. CASE StartOutput \/ Visit \/ EndOutput
      BY <3>1 DEF StartOutput, Visit, EndOutput, Measuring
    <3>2. CASE Average
      <4>1. stage' = "done" \/ stage' = "giveup" \/ stage' = "abort"
        BY <3>2, Zenon DEF Average
      <4> QED BY <4>1 DEF Measuring
    <3> QED BY <1>4, <3>1, <3>2
  <2> QED BY <2>3, <2>4, <2>5 DEF DInv, Infinite
<1>5. CASE Prepared \/ UNCHANGED allVars
  <2>1. UNCHANGED allVars
    BY <1>5 DEF Prepared
  <2>2. UNCHANGED <<vars, stage, po>>
    BY <2>1 DEF allVars, topoVars, distances
  <2>3. N' = N
    BY <2>2, WaysKept
  <2>4. Distances => Distances'
    BY <2>1, StillnessKeeps
  <2> QED BY <2>2, <2>3, <2>4 DEF DInv, Measuring, Infinite
<1> QED BY <1>1, <1>2, <1>3, <1>4, <1>5 DEF TopoNext

LEMMA TopoSpecHasDInv == TopoSpec => []DInv
BY TopoInitHasDInv, TopoNextKeepsDInv, TopoSpecHasTInv, PTL DEF TopoSpec

\* The walks the property looks at, and what the invariant calls them.
LEMMA TalliedIsCounted ==
  ASSUME WaysBack, po \in 1 .. Len(POs) + 1, AllTallied, NEW g \in DOMAIN gates, NEW D,
         D = [k \in 1 .. po - 1 |-> DistancesTo(POs[k])]
  PROVE  LET reached == {k \in 1 .. po - 1 : g \in DOMAIN D[k]} IN
         /\ total_cnt[g] = Cardinality(reached)
         /\ total_dist[g] = SumFunctionOnSet([k \in reached |-> D[k][g]], reached)
<1>1. Len(POs) \in Nat /\ DOMAIN POs = 1 .. Len(POs)
  BY DEF WaysBack
<1>2. \A k \in 1 .. po - 1 : D[k] = Ways[k]
  <2>1. \A k \in 1 .. po - 1 : k \in DOMAIN POs
    BY <1>1
  <2> QED BY <2>1 DEF Ways
<1> DEFINE R == {k \in 1 .. po - 1 : g \in DOMAIN D[k]}
<1>3. R = Reached(po - 1, Ways, g)
  BY <1>2 DEF Reached
<1>4. [k \in R |-> D[k][g]] = [k \in R |-> Ways[k][g]]
  BY <1>2
<1>5. Tallied(po - 1, Ways, g, total_cnt[g], total_dist[g])
  BY DEF AllTallied
<1> HIDE DEF R
<1>6. total_cnt[g] = Cardinality(R) /\ total_dist[g] = SumFunctionOnSet([k \in R |-> D[k][g]], R)
  BY <1>3, <1>4, <1>5 DEF Tallied
<1> QED BY <1>6 DEF R

LEMMA DInvGivesCountedOnce == TInv /\ DInv => (N < Infinite => CountedOnce)
<1> SUFFICES ASSUME TInv, DInv, N < Infinite, stage \in {"next_po", "done", "giveup"}
             PROVE  CountedOnce
  BY DEF CountedOnce
<1>1. Measuring /\ stage # "walk"
  BY DEF Measuring
<1>2. WaysBack /\ Distances
  BY <1>1, WaysAreBack DEF DInv
<1>3. po \in 1 .. Len(POs) + 1 /\ AllTallied
  BY <1>1, <1>2 DEF Distances
<1>4. PICK D : D = [k \in 1 .. po - 1 |-> DistancesTo(POs[k])]
  OBVIOUS
<1>5. \A g \in DOMAIN gates :
        LET reached == {k \in 1 .. po - 1 : g \in DOMAIN D[k]} IN
        /\ total_cnt[g] = Cardinality(reached)
        /\ total_dist[g] = SumFunctionOnSet([k \in reached |-> D[k][g]], reached)
  BY <1>2, <1>3, <1>4, TalliedIsCounted
<1> QED BY <1>4, <1>5 DEF CountedOnce

LEMMA DInvGivesUpRightly == TInv /\ DInv => (N < Infinite => GivesUpRightly)
<1> SUFFICES ASSUME TInv, DInv, N < Infinite PROVE GivesUpRightly
  OBVIOUS
<1>1. CASE stage \notin {"done", "giveup", "abort"}
  BY <1>1 DEF GivesUpRightly
<1>2. CASE stage \in {"done", "giveup", "abort"}
  <2>1. WaysBack /\ Distances
    BY <1>2, WaysAreBack DEF DInv, Measuring
  <2>2. Decided /\ AllTallied
    BY <1>2, <2>1 DEF Distances
  <2>3. PICK m \in Nat : m = Len(POs) /\ po - 1 = m
    <3>1. po = Len(POs) + 1
      BY <2>2 DEF Decided
    <3>2. Len(POs) \in Nat
      BY <2>1 DEF WaysBack
    <3> QED BY <3>1, <3>2
  <2>4. ASSUME NEW g \in DOMAIN gates
        PROVE  total_cnt[g] # 0 <=> \E k \in DOMAIN POs : g \in DOMAIN Ways[k]
    <3>1. total_cnt[g] = Cardinality(Reached(m, Ways, g))
      BY <2>2, <2>3 DEF AllTallied, Tallied
    <3>2. Counts(m, Ways, g)
      BY <2>1, <2>3, WaysCount
    <3>3. IsFiniteSet(Reached(m, Ways, g))
      BY <3>2, ReachedFacts
    <3>4. Reached(m, Ways, g) = {} <=> total_cnt[g] = 0
      BY <3>1, <3>3, FS_EmptySet
    <3>5. DOMAIN POs = 1 .. m
      BY <2>1, <2>3 DEF WaysBack
    <3> QED BY <3>4, <3>5 DEF Reached
  <2>5. DOMAIN gates = UNION {DOMAIN DistancesTo(o) : o \in Range(POs)}
          <=> \A g \in DOMAIN gates : \E k \in DOMAIN POs : g \in DOMAIN Ways[k]
    <3>1. \A k \in DOMAIN POs : Ways[k] = DistancesTo(POs[k]) /\ DOMAIN Ways[k] \subseteq DOMAIN gates
      BY <2>1 DEF WaysBack, WayBack, Measures, Ways
    <3>2. \A g : g \in UNION {DOMAIN DistancesTo(o) : o \in Range(POs)}
                   <=> \E k \in DOMAIN POs : g \in DOMAIN Ways[k]
      BY <3>1 DEF Range
    <3>3. PICK U : U = UNION {DOMAIN DistancesTo(o) : o \in Range(POs)}
      OBVIOUS
    <3>4. \A g : g \in U <=> \E k \in DOMAIN POs : g \in DOMAIN Ways[k]
      BY <3>2, <3>3
    <3>5. \A g \in U : g \in DOMAIN gates
      BY <3>1, <3>4
    <3>6. DOMAIN gates = U <=> \A g \in DOMAIN gates : g \in U
      BY <3>5
    <3> QED BY <3>3, <3>4, <3>6
  <2>6. stage # "abort" /\ (stage = "done" <=> \A g \in DOMAIN gates : total_cnt[g] # 0)
    BY <2>2 DEF Decided
  <2> QED BY <2>4, <2>5, <2>6 DEF GivesUpRightly
<1> QED BY <1>1, <1>2

------------------------------------------------------------------------------
\* Circuit::init_avg_dist: for each output, the walk counts every gate with a path to
\* it once, with the length of a shortest path. The number of gates must be below the
\* 0x3f3f3f3f that stands for no distance, as a distance is below it.
THEOREM DistancesAreShortest == TopoSpec => [](N < Infinite => CountedOnce)
BY TopoSpecHasTInv, TopoSpecHasDInv, DInvGivesCountedOnce, PTL

\* Under the same bound the program goes on exactly if every gate reaches an output,
\* and assert(g->avg_dist > 0) holds.
THEOREM GoesOnIfAllReached == TopoSpec => [](N < Infinite => GivesUpRightly)
BY TopoSpecHasTInv, TopoSpecHasDInv, DInvGivesUpRightly, PTL
==============================================================================
