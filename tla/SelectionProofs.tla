-------------------------- MODULE SelectionProofs --------------------------
(* Facts about sequences that the proofs about queues share: what Pick       *)
(* returns (the kept elements, all of them, once each and in order), what an *)
(* insertion returns, how a sum changes with one of its parts, and that a    *)
(* set of numbers has a least one.                                           *)
EXTENDS Selections, FiniteSetTheorems, SequenceTheorems, TLAPS

LEMMA FirstNumbers ==
  ASSUME NEW n \in Nat
  PROVE  IsFiniteSet(1 .. n) /\ Cardinality(1 .. n) = n
<1>1. /\ IsFiniteSet(1 .. n)
      /\ Cardinality(1 .. n) = IF 1 > n THEN 0 ELSE n - 1 + 1
  BY FS_Interval
<1> QED
  BY <1>1

LEMMA RankFacts ==
  ASSUME NEW n \in Nat, NEW K \in SUBSET (1 .. n)
  PROVE  /\ IsFiniteSet(K) /\ Cardinality(K) \in Nat
         /\ \A k \in K : Rank(K, k) \in 1 .. Cardinality(K)
         /\ \A j, k \in K : j < k => Rank(K, j) < Rank(K, k)
<1> DEFINE Upto(k) == {j \in K : j <= k}
<1>1. IsFiniteSet(K) /\ Cardinality(K) \in Nat
  <2>1. IsFiniteSet(1 .. n)
    BY FS_Interval
  <2>2. IsFiniteSet(K)
    BY <2>1, FS_Subset
  <2> QED
    BY <2>2, FS_CardinalityType
<1>2. ASSUME NEW k \in K
      PROVE  /\ IsFiniteSet(Upto(k)) /\ Cardinality(Upto(k)) \in Nat
             /\ Cardinality(Upto(k)) <= Cardinality(K)
  BY <1>1, FS_Subset, FS_CardinalityType
<1>3. ASSUME NEW k \in K
      PROVE  Cardinality(Upto(k)) \in 1 .. Cardinality(K)
  <2>1. k \in Upto(k)
    OBVIOUS
  <2>2. Cardinality(Upto(k)) # 0
    BY <2>1, <1>2, FS_EmptySet
  <2> QED
    BY <1>1, <1>2, <2>2
<1>4. ASSUME NEW j \in K, NEW k \in K, j < k
      PROVE  Cardinality(Upto(j)) < Cardinality(Upto(k))
  <2>1. Upto(j) \cup {k} \in SUBSET Upto(k) /\ k \notin Upto(j)
    <3>1. \A i \in K : i \in Nat
      OBVIOUS
    <3>2. \A i \in K : i <= j => i <= k
      BY <1>4, <3>1
    <3>3. k <= k /\ ~(k <= j)
      BY <1>4, <3>1
    <3> QED
      BY <3>2, <3>3
  <2>2. /\ IsFiniteSet(Upto(j) \cup {k})
        /\ Cardinality(Upto(j) \cup {k}) = Cardinality(Upto(j)) + 1
    BY <1>2, <2>1, FS_AddElement
  <2>3. Cardinality(Upto(j) \cup {k}) <= Cardinality(Upto(k))
    BY <1>2, <2>1, FS_Subset
  <2> QED
    BY <1>2, <2>2, <2>3
<1> QED
  BY <1>1, <1>3, <1>4 DEF Rank

LEMMA RankOnto ==
  ASSUME NEW n \in Nat, NEW K \in SUBSET (1 .. n), NEW i \in 1 .. Cardinality(K)
  PROVE  \E k \in K : Rank(K, k) = i
<1> DEFINE f == [k \in K |-> Rank(K, k)]
           T == 1 .. Cardinality(K)
<1>1. /\ IsFiniteSet(K) /\ Cardinality(K) \in Nat
      /\ \A k \in K : Rank(K, k) \in T
      /\ \A j, k \in K : j < k => Rank(K, j) < Rank(K, k)
  BY RankFacts
<1>2. \A j, k \in K : Rank(K, j) = Rank(K, k) => j = k
  <2> TAKE j, k \in K
  <2>1. j < k \/ k < j \/ j = k
    OBVIOUS
  <2>2. Rank(K, j) \in Int /\ Rank(K, k) \in Int
    BY <1>1
  <2> QED
    BY <1>1, <2>1, <2>2
<1>3. f \in Injection(K, T)
  BY <1>1, <1>2, Zenon DEF Injection, IsInjective
<1>4. IsFiniteSet(T) /\ Cardinality(T) = Cardinality(K)
  BY <1>1, FS_Interval
<1>5. f \in Surjection(K, T)
  BY <1>3, <1>4, FS_Injection
<1> QED
  BY <1>5 DEF Surjection

\* The positions K of s in increasing order are those of the elements of t.
Enumerates(pos, t, s, K) ==
  /\ pos \in [1 .. Len(t) -> K]
  /\ \A i \in 1 .. Len(t) : t[i] = s[pos[i]]
  /\ \A i, j \in 1 .. Len(t) : i < j => pos[i] < pos[j]
  /\ \A k \in K : \E i \in 1 .. Len(t) : pos[i] = k

\* Pick through the increasing enumeration of the kept positions.
LEMMA PickFacts ==
  ASSUME NEW S, NEW s \in Seq(S), NEW K \in SUBSET DOMAIN s
  PROVE  /\ Pick(s, K) \in Seq(S)
         /\ Len(Pick(s, K)) = Cardinality(K)
         /\ Len(Pick(s, K)) <= Len(s)
         /\ \E pos : Enumerates(pos, Pick(s, K), s, K)
<1> DEFINE n == Cardinality(K)
           pos == [i \in 1 .. n |-> CHOOSE k \in K : Rank(K, k) = i]
<1>1. Len(s) \in Nat /\ K \in SUBSET (1 .. Len(s)) /\ DOMAIN s = 1 .. Len(s)
  BY LenProperties
<1>2. /\ IsFiniteSet(K) /\ n \in Nat
      /\ \A k \in K : Rank(K, k) \in 1 .. n
      /\ \A j, k \in K : j < k => Rank(K, j) < Rank(K, k)
  BY <1>1, RankFacts
<1>3. \A i \in 1 .. n : pos[i] \in K /\ Rank(K, pos[i]) = i
  <2> TAKE i \in 1 .. n
  <2>1. \E k \in K : Rank(K, k) = i
    BY <1>1, RankOnto
  <2> QED
    BY <2>1
<1>4. pos \in [1 .. n -> K]
  BY <1>3
<1>5. \A i, j \in 1 .. n : i < j => pos[i] < pos[j]
  <2> SUFFICES ASSUME NEW i \in 1 .. n, NEW j \in 1 .. n, i < j
      PROVE  pos[i] < pos[j]
    OBVIOUS
  <2> DEFINE a == pos[i]
             b == pos[j]
  <2>1. a \in K /\ b \in K /\ Rank(K, a) = i /\ Rank(K, b) = j
    BY <1>3
  <2>2. a \in Nat /\ b \in Nat
    BY <2>1, <1>1
  <2> HIDE DEF a, b, pos
  <2>3. ~(b < a) /\ a # b
    BY <1>2, <2>1, <2>2
  <2>4. a < b
    BY <2>2, <2>3
  <2> QED
    BY <2>4 DEF a, b
<1>6. \A k \in K : \E i \in 1 .. n : pos[i] = k
  <2> TAKE k \in K
  <2> DEFINE i == Rank(K, k)
             a == pos[i]
  <2>1. i \in 1 .. n
    BY <1>2
  <2>2. a \in K /\ Rank(K, a) = i
    BY <1>3, <2>1
  <2>3. a \in Nat /\ k \in Nat /\ i \in Int
    BY <2>1, <2>2, <1>1
  <2>4. a = k
    <3> HIDE DEF a, i, pos
    <3>1. Rank(K, k) = i
      BY DEF i
    <3> QED
      BY <1>2, <2>2, <2>3, <3>1
  <2> QED
    BY <2>1, <2>4
<1>7. Pick(s, K) = [i \in 1 .. n |-> s[pos[i]]]
  BY DEF Pick
<1>8. /\ Pick(s, K) \in [1 .. n -> S]
      /\ \A i \in 1 .. n : Pick(s, K)[i] = s[pos[i]]
  BY <1>1, <1>3, <1>7, ElementOfSeq
<1>9. Pick(s, K) \in Seq(S) /\ Len(Pick(s, K)) = n
  BY <1>2, <1>8, SeqDef
<1>10. n <= Len(s)
  <2>1. IsFiniteSet(1 .. Len(s)) /\ Cardinality(1 .. Len(s)) = Len(s)
    BY <1>1, FirstNumbers, Zenon
  <2>2. Cardinality(K) <= Cardinality(1 .. Len(s))
    BY <1>1, <2>1, FS_Subset, Zenon
  <2> QED
    BY <2>1, <2>2
<1>11. Cardinality(K) = n
  OBVIOUS
<1>12. Enumerates(pos, Pick(s, K), s, K)
  <2> HIDE DEF pos, n
  <2> QED
    BY <1>4, <1>5, <1>6, <1>8, <1>9 DEF Enumerates
<1> HIDE DEF pos, n
<1> QED
  BY <1>8, <1>9, <1>10, <1>11, <1>12

-----------------------------------------------------------------------------
LEMMA LeastNumber ==
  ASSUME NEW S \in SUBSET Nat, S # {}
  PROVE  \E m \in S : \A k \in S : m <= k
<1>1. PICK m \in S : \A k \in S : <<k, m>> \notin OpToRel(<, Nat)
  BY NatLessThanWellFounded, WFMin, Zenon
<1>2. ASSUME NEW k \in S, k < m PROVE FALSE
  <2>1. <<k, m>> \in {pair \in Nat \X Nat : pair[1] < pair[2]}
    BY <1>2
  <2> QED
    BY <2>1, <1>1, <1>2, Zenon DEF OpToRel
<1>3. m \in Nat /\ \A k \in S : k \in Nat /\ ~(k < m)
  BY <1>2
<1>4. \A k \in S : m <= k
  BY <1>3
<1> QED
  BY <1>4

\* An element put in front of position i.
LEMMA InsertedFacts ==
  ASSUME NEW S, NEW s \in Seq(S), NEW e \in S, NEW i \in 1 .. Len(s) + 1
  PROVE  /\ InsertedAt(s, i, e) \in Seq(S)
         /\ Len(InsertedAt(s, i, e)) = Len(s) + 1
         /\ \A k \in 1 .. Len(s) + 1 :
              InsertedAt(s, i, e)[k] = IF k < i THEN s[k] ELSE IF k = i THEN e ELSE s[k - 1]
<1> DEFINE a == SubSeq(s, 1, i - 1)
           b == SubSeq(s, i, Len(s))
           c == a \o <<e>>
           t == c \o b
<1>1. /\ Len(s) \in Nat /\ i \in Nat
      /\ \A k \in 1 .. Len(s) : s[k] \in S
  BY ElementOfSeq, LenProperties
<1>2. /\ a \in Seq(S) /\ Len(a) = i - 1
      /\ \A k \in 1 .. i - 1 : a[k] = s[k]
  <2>1. /\ a \in Seq(S) /\ Len(a) = IF 1 <= i - 1 THEN i - 1 - 1 + 1 ELSE 0
        /\ \A k \in 1 .. i - 1 - 1 + 1 : a[k] = s[1 + k - 1]
    BY <1>1, SubSeqProperties
  <2> QED
    BY <2>1, <1>1
<1>3. /\ b \in Seq(S) /\ Len(b) = Len(s) + 1 - i
      /\ \A k \in 1 .. Len(s) + 1 - i : b[k] = s[i + k - 1]
  <2>1. /\ b \in Seq(S) /\ Len(b) = IF i <= Len(s) THEN Len(s) - i + 1 ELSE 0
        /\ \A k \in 1 .. Len(s) - i + 1 : b[k] = s[i + k - 1]
    BY <1>1, SubSeqProperties
  <2> QED
    BY <2>1, <1>1
<1>4. <<e>> \in Seq(S) /\ Len(<<e>>) = 1 /\ <<e>>[1] = e
  OBVIOUS
<1> HIDE DEF a, b
<1>5. /\ c \in Seq(S) /\ Len(c) = i
      /\ \A k \in 1 .. i : c[k] = IF k < i THEN s[k] ELSE e
  <2>1. /\ c \in Seq(S) /\ Len(c) = Len(a) + 1
        /\ \A k \in 1 .. Len(a) + 1 :
             c[k] = IF k <= Len(a) THEN a[k] ELSE <<e>>[k - Len(a)]
    BY <1>2, <1>4, ConcatProperties
  <2> QED
    BY <2>1, <1>1, <1>2, <1>4
<1>6. InsertedAt(s, i, e) = t
  BY DEF a, b, InsertedAt
<1> HIDE DEF c
<1>7. /\ t \in Seq(S) /\ Len(t) = Len(c) + Len(b)
      /\ \A k \in 1 .. Len(c) + Len(b) :
           t[k] = IF k <= Len(c) THEN c[k] ELSE b[k - Len(c)]
  BY <1>3, <1>5, ConcatProperties
<1> HIDE DEF t
<1>8. Len(t) = Len(s) + 1
  BY <1>1, <1>3, <1>5, <1>7
<1>9. ASSUME NEW k \in 1 .. Len(s) + 1
      PROVE  t[k] = IF k < i THEN s[k] ELSE IF k = i THEN e ELSE s[k - 1]
  <2>1. t[k] = IF k <= i THEN c[k] ELSE b[k - i]
    BY <1>1, <1>3, <1>5, <1>7
  <2>2. CASE k <= i
    BY <2>1, <2>2, <1>1, <1>5
  <2>3. CASE k > i
    <3> DEFINE m == k - i
    <3>1. m \in 1 .. Len(s) + 1 - i /\ i + m - 1 = k - 1
      BY <2>3, <1>1
    <3>2. b[m] = s[i + m - 1]
      BY <3>1, <1>3
    <3> QED
      BY <2>1, <2>3, <3>1, <3>2, <1>1
  <2> QED
    BY <2>2, <2>3, <1>1
<1> QED
  BY <1>6, <1>7, <1>8, <1>9

\* Keeping the end of a sequence.
LEMMA PickSuffix ==
  ASSUME NEW S, NEW s \in Seq(S), NEW k \in 0 .. Len(s)
  PROVE  /\ DOMAIN Pick(s, k + 1 .. Len(s)) = 1 .. Len(s) - k
         /\ \A i \in 1 .. Len(s) - k : Pick(s, k + 1 .. Len(s))[i] = s[k + i]
<1> DEFINE K == k + 1 .. Len(s)
<1>1. Len(s) \in Nat /\ K \in SUBSET (1 .. Len(s))
  BY LenProperties
<1>2. \A m \in k .. Len(s) : Cardinality(k + 1 .. m) = m - k
  <2> TAKE m \in k .. Len(s)
  <2>1. k + 1 \in Int /\ m \in Int
    OBVIOUS
  <2>2. Cardinality(k + 1 .. m) = IF k + 1 > m THEN 0 ELSE m - (k + 1) + 1
    BY <2>1, FS_Interval, Zenon
  <2> QED
    BY <2>1, <2>2, <1>1
<1>3. Cardinality(K) = Len(s) - k
  BY <1>1, <1>2
<1>4. ASSUME NEW j \in K PROVE Rank(K, j) = j - k
  <2>1. {l \in K : l <= j} = k + 1 .. j
    BY <1>1
  <2>2. j \in k .. Len(s)
    BY <1>1
  <2>3. Cardinality(k + 1 .. j) = j - k
    BY <1>2, <2>2
  <2>4. Rank(K, j) = Cardinality({l \in K : l <= j})
    BY DEF Rank
  <2> QED
    BY <2>1, <2>3, <2>4, Zenon
<1>5. ASSUME NEW i \in 1 .. Len(s) - k
      PROVE  (CHOOSE j \in K : Rank(K, j) = i) = k + i
  <2>1. k + i \in K /\ Rank(K, k + i) = i
    BY <1>1, <1>4
  <2>2. \A j \in K : Rank(K, j) = i => j = k + i
    BY <1>1, <1>4
  <2> HIDE DEF K
  <2> QED
    BY <2>1, <2>2
<1>6. Pick(s, K) = [i \in 1 .. Len(s) - k |-> s[CHOOSE j \in K : Rank(K, j) = i]]
  BY <1>3 DEF Pick
<1> QED
  BY <1>5, <1>6

-----------------------------------------------------------------------------
(* Counting positions. *)

LEMMA CountMore ==
  ASSUME NEW n \in Nat, NEW K \in SUBSET (1 .. n)
  PROVE  Cardinality(K) \in Nat /\ Cardinality(K \cup {n + 1}) = Cardinality(K) + 1
<1>1. IsFiniteSet(K) /\ Cardinality(K) \in Nat
  BY RankFacts
<1>2. n + 1 \notin K
  OBVIOUS
<1> QED
  BY <1>1, <1>2, FS_AddElement

LEMMA CountShifted ==
  ASSUME NEW n \in Nat, NEW K \in SUBSET (1 .. n + 1)
  PROVE  LET A == {i \in 1 .. n : i + 1 \in K}
         IN  /\ Cardinality(A) \in Nat /\ Cardinality(K) \in Nat
             /\ 1 \in K => Cardinality(A) = Cardinality(K) - 1
             /\ 1 \notin K => Cardinality(A) = Cardinality(K)
<1> DEFINE A == {i \in 1 .. n : i + 1 \in K}
           B == K \ {1}
           f == [i \in A |-> i + 1]
<1>1. IsFiniteSet(K) /\ Cardinality(K) \in Nat
  <2>1. n + 1 \in Nat
    OBVIOUS
  <2> QED
    BY <2>1, RankFacts
<1>2. IsFiniteSet(A) /\ Cardinality(A) \in Nat
  <2>1. A \in SUBSET (1 .. n)
    OBVIOUS
  <2> HIDE DEF A
  <2> QED
    BY <2>1, RankFacts
<1>3. f \in [A -> B]
  OBVIOUS
<1>4. \A i, j \in A : f[i] = f[j] => i = j
  OBVIOUS
<1>5. \A b \in B : \E a \in A : f[a] = b
  <2> TAKE b \in B
  <2>1. b - 1 \in A /\ (b - 1) + 1 = b
    OBVIOUS
  <2> QED
    BY <2>1
<1> HIDE DEF f, A, B
<1>6. f \in Bijection(A, B)
  BY <1>3, <1>4, <1>5, Zenon DEF Bijection, Injection, Surjection, IsInjective
<1>7. ExistsBijection(A, B)
  BY <1>6, Zenon DEF ExistsBijection
<1>8. Cardinality(B) = Cardinality(A)
  BY <1>2, <1>7, FS_Bijection, Zenon
<1>9. Cardinality(B) = IF 1 \in K THEN Cardinality(K) - 1 ELSE Cardinality(K)
  BY <1>1, FS_RemoveElement DEF B
<1> QED
  BY <1>1, <1>2, <1>8, <1>9 DEF A

-----------------------------------------------------------------------------
(* Sums. *)

IsWeight(w) == IsFiniteSet(DOMAIN w) /\ \A x \in DOMAIN w : w[x] \in Nat

LEMMA TotalType ==
  ASSUME NEW w, IsWeight(w)
  PROVE  IsFiniteSet(Units(w)) /\ TotalOf(w) \in Nat
<1> DEFINE Block(x) == {x} \X (1 .. w[x])
           T == {Block(x) : x \in DOMAIN w}
           f == [x \in DOMAIN w |-> Block(x)]
<1>1. f \in Surjection(DOMAIN w, T)
  BY DEF Surjection
<1>2. IsFiniteSet(T)
  BY <1>1, FS_Surjection DEF IsWeight
<1>3. ASSUME NEW x \in DOMAIN w PROVE IsFiniteSet(Block(x))
  <2>1. IsFiniteSet({x})
    BY FS_Singleton
  <2>2. IsFiniteSet(1 .. w[x])
    BY FirstNumbers DEF IsWeight
  <2> QED
    BY <2>1, <2>2, FS_Product
<1>4. IsFiniteSet(UNION T)
  BY <1>2, <1>3, FS_UNION
<1> QED
  BY <1>4, FS_CardinalityType DEF Units, TotalOf

\* A sum without one of its parts.
LEMMA TotalSplit ==
  ASSUME NEW w, IsWeight(w), NEW x \in DOMAIN w,
         NEW v, DOMAIN v = DOMAIN w \ {x}, \A y \in DOMAIN v : v[y] = w[y]
  PROVE  IsWeight(v) /\ TotalOf(w) = TotalOf(v) + w[x]
<1> DEFINE B == {x} \X (1 .. w[x])
<1>1. IsWeight(v)
  BY FS_RemoveElement DEF IsWeight
<1>2. IsFiniteSet(B) /\ Cardinality(B) = w[x]
  <2>1. IsFiniteSet({x}) /\ Cardinality({x}) = 1
    BY FS_Singleton
  <2>2. IsFiniteSet(1 .. w[x]) /\ Cardinality(1 .. w[x]) = w[x] /\ w[x] \in Nat
    BY FirstNumbers DEF IsWeight
  <2>3. IsFiniteSet(B) /\ Cardinality(B) = Cardinality({x}) * Cardinality(1 .. w[x])
    BY <2>1, <2>2, FS_Product
  <2>4. 1 * w[x] = w[x]
    BY <2>2
  <2> QED
    BY <2>1, <2>2, <2>3, <2>4
<1>3. Units(w) = Units(v) \cup B
  BY DEF Units
<1>4. Units(v) \cap B = {}
  BY DEF Units
<1> HIDE DEF B
<1>5. /\ IsFiniteSet(Units(v)) /\ Cardinality(Units(v)) \in Nat
  BY <1>1, TotalType DEF TotalOf
<1>6. Cardinality(Units(w)) = Cardinality(Units(v)) + Cardinality(B) - Cardinality({})
  BY <1>2, <1>3, <1>4, <1>5, FS_Union
<1>7. Cardinality({}) = 0
  BY FS_EmptySet
<1>8. w[x] \in Nat
  BY DEF IsWeight
<1> QED
  BY <1>1, <1>2, <1>5, <1>6, <1>7, <1>8 DEF TotalOf

\* One part changes.
LEMMA TotalChange ==
  ASSUME NEW w, IsWeight(w), NEW v, DOMAIN v = DOMAIN w,
         NEW x \in DOMAIN w, v[x] \in Nat, \A y \in DOMAIN w \ {x} : v[y] = w[y]
  PROVE  /\ IsWeight(v) /\ TotalOf(w) \in Nat /\ TotalOf(v) \in Nat
         /\ TotalOf(w) >= w[x]
         /\ TotalOf(v) = TotalOf(w) - w[x] + v[x]
<1> DEFINE u == [y \in DOMAIN w \ {x} |-> w[y]]
<1>1. IsWeight(v)
  BY DEF IsWeight
<1>2. DOMAIN u = DOMAIN w \ {x} /\ \A y \in DOMAIN u : u[y] = w[y] /\ u[y] = v[y]
  OBVIOUS
<1> HIDE DEF u
<1>3. IsWeight(u) /\ TotalOf(w) = TotalOf(u) + w[x]
  BY <1>2, TotalSplit
<1>4. TotalOf(v) = TotalOf(u) + v[x]
  BY <1>1, <1>2, TotalSplit
<1>5. TotalOf(u) \in Nat /\ w[x] \in Nat
  BY <1>3, TotalType DEF IsWeight
<1> QED
  BY <1>1, <1>3, <1>4, <1>5

LEMMA TotalOfNothing == ASSUME NEW w, DOMAIN w = {} PROVE IsWeight(w) /\ TotalOf(w) = 0
<1>1. Units(w) = {}
  BY DEF Units
<1> QED
  BY <1>1, FS_EmptySet DEF IsWeight, TotalOf

\* Sets that fit into one another.
LEMMA Embedded ==
  ASSUME NEW S, NEW T, IsFiniteSet(T), NEW h,
         \A x \in S : h[x] \in T, \A x, y \in S : h[x] = h[y] => x = y
  PROVE  IsFiniteSet(S) /\ Cardinality(S) \in Nat /\ Cardinality(S) <= Cardinality(T)
<1> DEFINE f == [x \in S |-> h[x]]
<1>1. f \in [S -> T] /\ \A x, y \in S : f[x] = f[y] => x = y
  OBVIOUS
<1> HIDE DEF f
<1>2. f \in Injection(S, T)
  BY <1>1, Zenon DEF Injection, IsInjective
<1>3. IsFiniteSet(S) /\ Cardinality(S) <= Cardinality(T)
  BY <1>2, FS_Injection
<1> QED
  BY <1>3, FS_CardinalityType

\* Parts that go, one each, to parts no smaller.
LEMMA TotalBound ==
  ASSUME NEW w, IsWeight(w), NEW v, NEW h,
         \A x \in DOMAIN v : h[x] \in DOMAIN w /\ v[x] \in Nat /\ v[x] <= w[h[x]],
         \A x, y \in DOMAIN v : h[x] = h[y] => x = y
  PROVE  IsWeight(v) /\ TotalOf(v) \in Nat /\ TotalOf(v) <= TotalOf(w)
<1>1. IsWeight(v)
  BY Embedded DEF IsWeight
<1> DEFINE f == [u \in Units(v) |-> <<h[u[1]], u[2]>>]
<1>2. ASSUME NEW u \in Units(v)
      PROVE  /\ u[1] \in DOMAIN v /\ u[2] \in 1 .. v[u[1]] /\ u = <<u[1], u[2]>>
  BY DEF Units
<1>3. ASSUME NEW u \in Units(v) PROVE f[u] \in Units(w)
  <2> DEFINE x == u[1]
  <2>1. x \in DOMAIN v /\ u[2] \in 1 .. v[x]
    BY <1>2
  <2>2. h[x] \in DOMAIN w /\ v[x] \in Nat /\ v[x] <= w[h[x]] /\ w[h[x]] \in Nat
    BY <2>1 DEF IsWeight
  <2>3. u[2] \in 1 .. w[h[x]]
    BY <2>1, <2>2
  <2>4. <<h[x], u[2]>> \in Units(w)
    BY <2>2, <2>3 DEF Units
  <2> QED
    BY <2>4
<1>4. ASSUME NEW a \in Units(v), NEW b \in Units(v), f[a] = f[b] PROVE a = b
  <2>1. h[a[1]] = h[b[1]] /\ a[2] = b[2]
    BY <1>4
  <2>2. a[1] = b[1]
    BY <1>2, <2>1
  <2> QED
    BY <1>2, <2>1, <2>2
<1>5. IsFiniteSet(Units(w))
  BY TotalType
<1> HIDE DEF f
<1>6. Cardinality(Units(v)) <= Cardinality(Units(w))
  BY <1>3, <1>4, <1>5, Embedded
<1> QED
  BY <1>1, <1>6, TotalType DEF TotalOf

\* The parts of two sums in one.
LEMMA TotalJoined ==
  ASSUME NEW v, IsWeight(v), NEW w, IsWeight(w), NEW u,
         DOMAIN u = DOMAIN v \cup DOMAIN w,
         \A x \in DOMAIN v : u[x] = v[x],
         \A x \in DOMAIN w \ DOMAIN v : u[x] = w[x]
  PROVE  IsWeight(u) /\ TotalOf(u) \in Nat /\ TotalOf(u) <= TotalOf(v) + TotalOf(w)
<1>1. IsWeight(u)
  BY FS_Union DEF IsWeight
<1>2. Units(u) \subseteq Units(v) \cup Units(w)
  BY DEF Units
<1>3. /\ IsFiniteSet(Units(v)) /\ IsFiniteSet(Units(w))
      /\ TotalOf(v) \in Nat /\ TotalOf(w) \in Nat
  BY TotalType
<1> DEFINE both == Units(v) \cup Units(w)
           shared == Units(v) \cap Units(w)
<1>4. IsFiniteSet(both) /\ Cardinality(both) = TotalOf(v) + TotalOf(w) - Cardinality(shared)
  BY <1>3, FS_Union DEF TotalOf
<1>5. Cardinality(shared) \in Nat
  BY <1>3, FS_Intersection, FS_CardinalityType
<1>6. Cardinality(Units(u)) <= Cardinality(both)
  BY <1>2, <1>4, FS_Subset
<1>7. TotalOf(u) \in Nat
  BY <1>1, TotalType
<1> HIDE DEF both, shared
<1>8. Cardinality(both) \in Nat
  BY <1>4, FS_CardinalityType
<1> QED
  BY <1>1, <1>3, <1>4, <1>5, <1>6, <1>7, <1>8 DEF TotalOf

LEMMA TotalOfOnes ==
  ASSUME NEW w, IsFiniteSet(DOMAIN w), \A x \in DOMAIN w : w[x] = 1
  PROVE  IsWeight(w) /\ TotalOf(w) = Cardinality(DOMAIN w)
<1>1. IsWeight(w)
  BY DEF IsWeight
<1> DEFINE S == DOMAIN w
<1>2. Units(w) = S \X (1 .. 1)
  BY DEF Units
<1>3. IsFiniteSet(1 .. 1) /\ Cardinality(1 .. 1) = 1
  BY FirstNumbers
<1>4. Cardinality(S \X (1 .. 1)) = Cardinality(S) * 1
  BY <1>3, FS_Product
<1>5. Cardinality(S) \in Nat
  BY FS_CardinalityType
<1> QED
  BY <1>1, <1>2, <1>4, <1>5 DEF TotalOf
=============================================================================
