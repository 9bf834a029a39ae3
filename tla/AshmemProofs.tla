---------------------------- MODULE AshmemProofs ----------------------------
(***************************************************************************)
(* Proofs about Ashmem, for every number of areas and all their sizes.     *)
(*                                                                         *)
(* The four properties rest on one invariant of every step of a call, not  *)
(* only of the calls as a whole.  Lists: an area's ranges are sorted,      *)
(* disjoint and all different, so that the walks miss no overlap and an    *)
(* entry of the LRU list stands for one range.  LRU: it lists the          *)
(* ranges that are not purged, once each, and lru_count is the sum of      *)
(* their pages.  Calls: a request only grows by pages given up.  Pages:    *)
(* a page given up is on the list of its area, and a purged page is in a   *)
(* range marked purged - or the call that holds ashmem_mutex has taken     *)
(* that range off and still has to put it back or to report it.            *)
(*                                                                         *)
(* The sums are the one place where induction is needed: over the sizes    *)
(* of finite sets, by taking a smallest counterexample.                    *)
(***************************************************************************)
EXTENDS Ashmem, FiniteSetTheorems, SequenceTheorems, WellFoundedInduction, TLAPS

-----------------------------------------------------------------------------
(* Sums of pages.                                                          *)

(* A set of numbers that is not empty has a least one.                     *)
LEMMA LeastNumber ==
    ASSUME NEW T \in SUBSET Nat, T # {}
    PROVE  \E n \in T : \A m \in T : n <= m
<1>1. PICK n \in T : \A m \in T : ~ (<<m, n>> \in OpToRel(<, Nat))
  BY WFMin, NatLessThanWellFounded
<1>2. \A m \in T : ~ (m < n)
  BY <1>1 DEF OpToRel
<1> QED
  BY <1>2

(* TotalSize sums over a set by taking one element out after another: f is *)
(* the function of the subsets of S that this recursion defines.           *)
Pick(T) == CHOOSE x \in T : TRUE

Sum(f, T) == IF T = {} THEN 0 ELSE range_size(Pick(T)) + f[T \ {Pick(T)}]

IsSum(f, S) == f = [T \in SUBSET S |-> Sum(f, T)]

(* TotalSize is that function, at S itself.                                *)
LEMMA TotalSizeDef ==
    ASSUME NEW S
    PROVE  TotalSize(S) = (CHOOSE f : IsSum(f, S))[S]
  BY DEF TotalSize, MapThenSumSet, MapThenFoldSet, IsSum, Sum, Pick

(* Its elements are taken out one at a time.                               *)
LEMMA PickResult ==
    ASSUME NEW T, IsFiniteSet(T), T # {}
    PROVE  /\ Pick(T) \in T
           /\ IsFiniteSet(T \ {Pick(T)})
           /\ Cardinality(T) \in Nat
           /\ Cardinality(T \ {Pick(T)}) = Cardinality(T) - 1
<1>1. Pick(T) \in T
  BY DEF Pick
<1> QED
  BY <1>1, FS_RemoveElement, FS_CardinalityType

(* There is such a function for a finite set: it is the sum over the       *)
(* subsets in the order of their sizes.                                    *)
LEMMA SumExists ==
    ASSUME NEW S, IsFiniteSet(S)
    PROVE  \E f : IsSum(f, S)
<1> DEFINE Low(n) == {T \in SUBSET S : Cardinality(T) <= n}
           bad == {n \in Nat : ~ \E f : f = [T \in Low(n) |-> Sum(f, T)]}
<1>1. \A T \in SUBSET S : IsFiniteSet(T) /\ Cardinality(T) \in Nat
  BY FS_Subset, FS_CardinalityType
<1>2. bad = {}
  <2> SUFFICES ASSUME bad # {}
               PROVE  FALSE
    OBVIOUS
  <2>1. PICK n \in bad : \A m \in bad : n <= m
    <3>1. bad \in SUBSET Nat
      OBVIOUS
    <3> HIDE DEF bad
    <3> QED
      BY <3>1, LeastNumber
  <2>2. CASE n = 0
    <3> DEFINE f == [T \in Low(0) |-> 0]
    <3>1. \A T \in Low(0) : T = {}
      BY <1>1, FS_EmptySet
    <3>2. f = [T \in Low(0) |-> Sum(f, T)]
      BY <3>1 DEF Sum
    <3> QED
      BY <2>2, <3>2
  <2>3. CASE n # 0
    <3>1. n - 1 \in Nat /\ n - 1 \notin bad /\ n \in Nat
      <4>1. n \in Nat
        OBVIOUS
      <4> HIDE DEF bad
      <4> QED
        BY <2>1, <2>3, <4>1
    <3>2. PICK f : f = [T \in Low(n - 1) |-> Sum(f, T)]
      BY <3>1
    <3> DEFINE g == [T \in Low(n) |-> Sum(f, T)]
    <3>3. ASSUME NEW T \in Low(n)
          PROVE  Sum(g, T) = Sum(f, T)
      <4>1. CASE T = {}
        BY <4>1 DEF Sum
      <4>2. CASE T # {}
        <5> DEFINE U == T \ {Pick(T)}
        <5>1. U \in Low(n - 1) /\ U \in Low(n)
          BY <1>1, <3>1, <4>2, PickResult
        <5>2. f[U] = Sum(f, U) /\ g[U] = Sum(f, U)
          BY <3>2, <5>1, Zenon
        <5> QED
          BY <4>2, <5>2 DEF Sum
      <4> QED
        BY <4>1, <4>2
    <3>4. g = [T \in Low(n) |-> Sum(g, T)]
      BY <3>3, Zenon
    <3> QED
      BY <2>1, <3>4
  <2> QED
    BY <2>2, <2>3
<1>3. Cardinality(S) \in Nat
  BY FS_CardinalityType
<1>4. PICK f : f = [T \in Low(Cardinality(S)) |-> Sum(f, T)]
  BY <1>2, <1>3
<1>5. Low(Cardinality(S)) = SUBSET S
  BY FS_Subset
<1> QED
  BY <1>4, <1>5 DEF IsSum

(* All such functions agree.                                               *)
LEMMA SumUnique ==
    ASSUME NEW S, NEW S2, NEW f, NEW g, IsSum(f, S), IsSum(g, S2),
           NEW U, U \subseteq S, U \subseteq S2, IsFiniteSet(U)
    PROVE  f[U] = g[U]
<1> DEFINE Differ(n) == \E T \in SUBSET U : Cardinality(T) = n /\ f[T] # g[T]
           bad == {n \in Nat : Differ(n)}
<1> SUFFICES ASSUME f[U] # g[U]
             PROVE  FALSE
  OBVIOUS
<1>1. Cardinality(U) \in bad
  BY FS_CardinalityType
<1>2. PICK n \in bad : \A m \in bad : n <= m
  <2>1. bad \in SUBSET Nat
    OBVIOUS
  <2> HIDE DEF bad
  <2> QED
    BY <1>1, <2>1, LeastNumber
<1>3. PICK T \in SUBSET U : Cardinality(T) = n /\ f[T] # g[T]
  BY <1>2
<1>4. f[T] = Sum(f, T) /\ g[T] = Sum(g, T)
  <2>1. T \in SUBSET S /\ T \in SUBSET S2
    OBVIOUS
  <2> QED
    BY <2>1, Zenon DEF IsSum
<1>5. T # {}
  BY <1>3, <1>4 DEF Sum
<1> DEFINE V == T \ {Pick(T)}
<1>6. IsFiniteSet(T)
  BY FS_Subset
<1>7. V \in SUBSET U /\ Cardinality(V) = n - 1 /\ n - 1 \in Nat
  <2>1. Cardinality(V) = n - 1 /\ IsFiniteSet(V)
    BY <1>3, <1>5, <1>6, PickResult
  <2>2. Cardinality(V) \in Nat
    BY <2>1, FS_CardinalityType
  <2> QED
    BY <2>1, <2>2
<1>8. f[V] = g[V]
  BY <1>2, <1>7
<1> QED
  BY <1>3, <1>4, <1>5, <1>8 DEF Sum

(* One step of the sum.                                                    *)
LEMMA TotalSizeStep ==
    ASSUME NEW S, IsFiniteSet(S)
    PROVE  TotalSize(S) = IF S = {} THEN 0
                          ELSE range_size(Pick(S)) + TotalSize(S \ {Pick(S)})
<1> DEFINE f == CHOOSE h : IsSum(h, S)
           V == S \ {Pick(S)}
           g == CHOOSE h : IsSum(h, V)
<1>1. IsFiniteSet(V)
  BY FS_RemoveElement
<1>2. IsSum(f, S) /\ IsSum(g, V)
  BY <1>1, SumExists, Zenon
<1>3. TotalSize(S) = f[S] /\ TotalSize(V) = g[V]
  BY TotalSizeDef
<1> HIDE DEF f, g
<1>4. f[S] = Sum(f, S)
  <2>1. S \in SUBSET S
    OBVIOUS
  <2> QED
    BY <1>2, <2>1, Zenon DEF IsSum
<1>5. f[V] = g[V]
  <2>1. V \subseteq S /\ V \subseteq V
    OBVIOUS
  <2> HIDE DEF V
  <2> QED
    BY <1>1, <1>2, <2>1, SumUnique
<1> QED
  BY <1>3, <1>4, <1>5 DEF Sum

(* Any element can be the one that is taken out: the order of the sum does *)
(* not matter.                                                             *)
LEMMA TotalSizeRemove ==
    ASSUME NEW S, IsFiniteSet(S), \A x \in S : range_size(x) \in Nat
    PROVE  /\ TotalSize(S) \in Nat
           /\ \A x \in S : TotalSize(S) = range_size(x) + TotalSize(S \ {x})
<1> DEFINE Ok(T) == /\ TotalSize(T) \in Nat
                    /\ \A x \in T : TotalSize(T) = range_size(x) + TotalSize(T \ {x})
           bad == {n \in Nat : \E T \in SUBSET S : Cardinality(T) = n /\ ~Ok(T)}
<1> SUFFICES ASSUME ~Ok(S)
             PROVE  FALSE
  OBVIOUS
<1>1. Cardinality(S) \in bad
  BY FS_CardinalityType
<1>2. PICK n \in bad : \A m \in bad : n <= m
  <2>1. bad \in SUBSET Nat
    OBVIOUS
  <2> HIDE DEF bad
  <2> QED
    BY <1>1, <2>1, LeastNumber
<1>3. PICK T \in SUBSET S : Cardinality(T) = n /\ ~Ok(T)
  BY <1>2
<1>4. IsFiniteSet(T)
  BY FS_Subset
<1>5. ASSUME NEW V \in SUBSET T, V # T
      PROVE  Ok(V)
  <2>1. IsFiniteSet(V) /\ Cardinality(V) <= n /\ Cardinality(V) # n
    BY <1>3, <1>4, <1>5, FS_Subset
  <2>2. Cardinality(V) \in Nat /\ n \in Nat
    BY <2>1, FS_CardinalityType
  <2>3. Cardinality(V) \notin bad
    <3> HIDE DEF bad
    <3> QED
      BY <1>2, <2>1, <2>2
  <2> HIDE DEF Ok
  <2> QED
    BY <2>2, <2>3
<1>6. CASE T = {}
  <2>1. TotalSize(T) = 0
    BY <1>4, <1>6, TotalSizeStep
  <2> QED
    BY <1>3, <1>6, <2>1
<1>7. CASE T # {}
  <2> DEFINE y == Pick(T)
  <2>1. y \in T /\ TotalSize(T) = range_size(y) + TotalSize(T \ {y})
    BY <1>4, <1>7, PickResult, TotalSizeStep
  <2> HIDE DEF y
  <2>2. TotalSize(T \ {y}) \in Nat /\ range_size(y) \in Nat
    BY <1>5, <2>1
  <2>3. TotalSize(T) \in Nat
    BY <2>1, <2>2
  <2>4. ASSUME NEW x \in T, x # y
        PROVE  TotalSize(T) = range_size(x) + TotalSize(T \ {x})
    <3> DEFINE W == (T \ {x}) \ {y}
    <3>1. W = (T \ {y}) \ {x}
      OBVIOUS
    <3>2. TotalSize(T \ {x}) = range_size(y) + TotalSize(W)
      BY <1>5, <2>1, <2>4
    <3>3. TotalSize(T \ {y}) = range_size(x) + TotalSize(W)
      BY <1>5, <2>1, <2>4, <3>1
    <3>4. TotalSize(T \ {x}) \in Nat /\ range_size(x) \in Nat
      BY <1>5
    <3>5. TotalSize(W) \in Nat
      BY <1>5, <2>1
    <3> QED
      BY <2>1, <2>2, <3>2, <3>3, <3>4, <3>5
  <2> QED
    BY <1>3, <2>1, <2>3, <2>4
<1> QED
  BY <1>6, <1>7

-----------------------------------------------------------------------------
(* Changes of a list.                                                      *)

(* A list without its element at i, ...                                    *)
LEMMA RemoveAtResult ==
    ASSUME NEW S, NEW s \in Seq(S), NEW i \in 1 .. Len(s)
    PROVE  /\ RemoveAt(s, i) \in Seq(S)
           /\ Len(RemoveAt(s, i)) = Len(s) - 1
           /\ \A k \in 1 .. Len(s) - 1 :
                 RemoveAt(s, i)[k] = IF k < i THEN s[k] ELSE s[k + 1]
<1>1. Len(s) \in Nat
  BY LenProperties
<1> DEFINE low == SubSeq(s, 1, i - 1)
           high == SubSeq(s, i + 1, Len(s))
<1>2. /\ low \in Seq(S) /\ Len(low) = i - 1
      /\ \A k \in 1 .. i - 1 : low[k] = s[k]
  BY <1>1, SubSeqProperties
<1>3. /\ high \in Seq(S) /\ Len(high) = Len(s) - i
      /\ \A k \in 1 .. Len(s) - i : high[k] = s[i + k]
  BY <1>1, SubSeqProperties
<1> HIDE DEF low, high
<1>4. /\ low \o high \in Seq(S)
      /\ Len(low \o high) = Len(low) + Len(high)
      /\ \A k \in 1 .. Len(low) + Len(high) :
            (low \o high)[k] = IF k <= Len(low) THEN low[k] ELSE high[k - Len(low)]
  BY <1>2, <1>3, ConcatProperties
<1>5. ASSUME NEW k \in 1 .. Len(s) - 1
      PROVE  (low \o high)[k] = IF k < i THEN s[k] ELSE s[k + 1]
  <2>1. (low \o high)[k] = IF k <= i - 1 THEN low[k] ELSE high[k - (i - 1)]
    BY <1>1, <1>2, <1>3, <1>4
  <2>2. CASE k < i
    BY <1>1, <1>2, <2>1, <2>2
  <2>3. CASE k >= i
    <3>1. k - (i - 1) \in 1 .. Len(s) - i /\ i + (k - (i - 1)) = k + 1
      BY <1>1, <2>3
    <3>2. high[k - (i - 1)] = s[k + 1]
      BY <1>3, <3>1
    <3> QED
      BY <1>1, <2>1, <2>3, <3>2
  <2>4. k < i \/ k >= i
    BY <1>1
  <2> QED
    BY <2>2, <2>3, <2>4, Zenon
<1>6. Len(low \o high) = Len(s) - 1
  BY <1>1, <1>2, <1>3, <1>4
<1> QED
  BY <1>4, <1>5, <1>6 DEF RemoveAt, low, high

(* ... with a new element in front of the one at i, ...                    *)
LEMMA InsertAtResult ==
    ASSUME NEW S, NEW s \in Seq(S), NEW i \in 1 .. Len(s) + 1, NEW e \in S
    PROVE  /\ InsertAt(s, i, e) \in Seq(S)
           /\ Len(InsertAt(s, i, e)) = Len(s) + 1
           /\ \A k \in 1 .. Len(s) + 1 :
                 InsertAt(s, i, e)[k] = IF k < i THEN s[k]
                                        ELSE IF k = i THEN e ELSE s[k - 1]
<1>1. Len(s) \in Nat
  BY LenProperties
<1> DEFINE low == SubSeq(s, 1, i - 1)
           high == SubSeq(s, i, Len(s))
           front == low \o <<e>>
<1>2. /\ low \in Seq(S) /\ Len(low) = i - 1
      /\ \A k \in 1 .. i - 1 : low[k] = s[k]
  BY <1>1, SubSeqProperties
<1>3. /\ high \in Seq(S) /\ Len(high) = Len(s) - i + 1
      /\ \A k \in 1 .. Len(s) - i + 1 : high[k] = s[i + k - 1]
  BY <1>1, SubSeqProperties
<1> HIDE DEF low, high
<1>4. /\ front \in Seq(S) /\ Len(front) = i
      /\ \A k \in 1 .. i : front[k] = IF k <= i - 1 THEN low[k] ELSE e
  <2>1. <<e>> \in Seq(S) /\ Len(<<e>>) = 1 /\ <<e>>[1] = e
    OBVIOUS
  <2> QED
    BY <1>1, <1>2, <2>1, ConcatProperties
<1> HIDE DEF front
<1>5. /\ front \o high \in Seq(S)
      /\ Len(front \o high) = Len(front) + Len(high)
      /\ \A k \in 1 .. Len(front) + Len(high) :
            (front \o high)[k] = IF k <= Len(front) THEN front[k] ELSE high[k - Len(front)]
  BY <1>3, <1>4, ConcatProperties
<1>6. ASSUME NEW k \in 1 .. Len(s) + 1
      PROVE  (front \o high)[k] = IF k < i THEN s[k] ELSE IF k = i THEN e ELSE s[k - 1]
  <2>1. (front \o high)[k] = IF k <= i THEN front[k] ELSE high[k - i]
    BY <1>1, <1>3, <1>4, <1>5
  <2>2. CASE k <= i
    BY <1>1, <1>2, <1>4, <2>1, <2>2
  <2>3. CASE k > i
    <3>1. k - i \in 1 .. Len(s) - i + 1 /\ i + (k - i) - 1 = k - 1
      BY <1>1, <2>3
    <3>2. high[k - i] = s[k - 1]
      BY <1>3, <3>1
    <3> QED
      BY <1>1, <2>1, <2>3, <3>2
  <2>4. k <= i \/ k > i
    BY <1>1
  <2> QED
    BY <2>2, <2>3, <2>4, Zenon
<1>7. Len(front \o high) = Len(s) + 1
  BY <1>1, <1>3, <1>4, <1>5
<1> QED
  BY <1>5, <1>6, <1>7 DEF InsertAt, front, low, high

(* ... and with another element at i.                                      *)
LEMMA ReplaceAtResult ==
    ASSUME NEW S, NEW s \in Seq(S), NEW i \in 1 .. Len(s), NEW e \in S
    PROVE  /\ ReplaceAt(s, i, e) \in Seq(S)
           /\ Len(ReplaceAt(s, i, e)) = Len(s)
           /\ ReplaceAt(s, i, e)[i] = e
           /\ \A k \in 1 .. Len(s) : k # i => ReplaceAt(s, i, e)[k] = s[k]
  BY ExceptSeq, LenProperties DEF ReplaceAt

-----------------------------------------------------------------------------
(* The list of an area: range_del, range_shrink and range_alloc keep it    *)
(* good,                                                                   *)

(* Ranges that an entry of the LRU list does not tell apart.               *)
Same(r, q) == r.pgstart = q.pgstart /\ r.pgend = q.pgend /\ r.tag = q.tag

(* What the list of an area that never had more than n pages always is:    *)
(* sorted from the highest to the lowest and disjoint, and no two ranges   *)
(* the same, the ones without pages included.                              *)
GoodList(l, n) ==
    /\ l \in Seq(Ranges)
    /\ \A i \in 1 .. Len(l) : l[i].pgstart <= n /\ l[i].pgend \in l[i].pgstart - 1 .. n - 1
    /\ \A i, j \in 1 .. Len(l) : i < j => l[i].pgstart > l[j].pgend
    /\ \A i, j \in 1 .. Len(l) : Same(l[i], l[j]) => i = j

(* The fields of a range, ...                                              *)
LEMMA RangeType ==
    ASSUME NEW r \in Ranges
    PROVE  /\ r.pgstart \in Int /\ r.pgstart >= 0 /\ r.pgend \in Int
           /\ r.purged \in BOOLEAN /\ r.tag \in Nat
  BY DEF Ranges

(* ... and of the ranges of a list.                                        *)
LEMMA ElementType ==
    ASSUME NEW l \in Seq(Ranges)
    PROVE  /\ Len(l) \in Nat /\ DOMAIN l = 1 .. Len(l)
           /\ \A i \in 1 .. Len(l) :
                 /\ l[i] \in Ranges
                 /\ l[i].pgstart \in Int /\ l[i].pgstart >= 0 /\ l[i].pgend \in Int
                 /\ l[i].purged \in BOOLEAN /\ l[i].tag \in Nat
<1>1. Len(l) \in Nat /\ DOMAIN l = 1 .. Len(l) /\ \A i \in 1 .. Len(l) : l[i] \in Ranges
  BY LenProperties, ElementOfSeq
<1> QED
  BY <1>1, RangeType

(* Same is symmetric.                                                      *)
LEMMA SameSymmetric ==
    \A r, q : Same(r, q) => Same(q, r)
  BY DEF Same

(* A range may be taken off.                                               *)
LEMMA DelGood ==
    ASSUME NEW l, NEW n \in Int, GoodList(l, n), NEW i \in 1 .. Len(l)
    PROVE  GoodList(RemoveAt(l, i), n)
<1> DEFINE m == RemoveAt(l, i)
           src(k) == IF k < i THEN k ELSE k + 1
<1>1. l \in Seq(Ranges) /\ Len(l) \in Nat
  BY ElementType DEF GoodList
<1>2. m \in Seq(Ranges) /\ Len(m) = Len(l) - 1 /\ \A k \in 1 .. Len(m) : m[k] = l[src(k)]
  BY <1>1, RemoveAtResult
<1>3. /\ \A k \in 1 .. Len(m) : src(k) \in 1 .. Len(l)
      /\ \A j, k \in 1 .. Len(m) : (j < k => src(j) < src(k)) /\ (src(j) = src(k) => j = k)
  BY <1>1, <1>2
<1> HIDE DEF m, src
<1>4. \A k \in 1 .. Len(m) : m[k].pgstart <= n /\ m[k].pgend \in m[k].pgstart - 1 .. n - 1
  BY <1>2, <1>3 DEF GoodList
<1>5. \A j, k \in 1 .. Len(m) : j < k => m[j].pgstart > m[k].pgend
  BY <1>2, <1>3 DEF GoodList
<1>6. \A j, k \in 1 .. Len(m) : Same(m[j], m[k]) => j = k
  BY <1>2, <1>3 DEF GoodList
<1>7. GoodList(m, n)
  BY <1>2, <1>4, <1>5, <1>6 DEF GoodList
<1> QED
  BY <1>7 DEF m

(* A range may be cut to some of its pages.                                *)
LEMMA ShrinkGood ==
    ASSUME NEW l, NEW n \in Int, GoodList(l, n), NEW i \in 1 .. Len(l), NEW r \in Ranges,
           l[i].pgstart <= r.pgstart, r.pgstart <= r.pgend, r.pgend <= l[i].pgend
    PROVE  GoodList(ReplaceAt(l, i, r), n)
<1> DEFINE m == ReplaceAt(l, i, r)
<1>1. l \in Seq(Ranges)
  BY DEF GoodList
<1>2. /\ Len(l) \in Nat /\ r.pgstart \in Int /\ r.pgend \in Int
      /\ \A k \in 1 .. Len(l) : l[k].pgstart \in Int /\ l[k].pgend \in Int
  BY <1>1, ElementType, RangeType
<1>3. /\ m \in Seq(Ranges) /\ Len(m) = Len(l)
      /\ m[i] = r /\ \A k \in 1 .. Len(l) : k # i => m[k] = l[k]
  BY <1>1, ReplaceAtResult
<1> HIDE DEF m
<1>4. ASSUME NEW k \in 1 .. Len(l)
      PROVE  /\ l[k].pgstart <= m[k].pgstart /\ m[k].pgend <= l[k].pgend
             /\ m[k].pgstart <= n /\ m[k].pgend \in m[k].pgstart - 1 .. n - 1
             /\ m[k].pgstart \in Int /\ m[k].pgend \in Int
  <2>1. l[k].pgstart <= n /\ l[k].pgend \in l[k].pgstart - 1 .. n - 1
    BY DEF GoodList
  <2>2. CASE k = i
    <3>1. m[k] = r
      BY <1>3, <2>2
    <3> QED
      BY <1>2, <2>1, <2>2, <3>1
  <2>3. CASE k # i
    <3>1. m[k] = l[k]
      BY <1>3, <2>3
    <3> QED
      BY <1>2, <2>1, <3>1
  <2> QED
    BY <2>2, <2>3
<1>5. ASSUME NEW j \in 1 .. Len(l), NEW k \in 1 .. Len(l), j < k
      PROVE  m[j].pgstart > m[k].pgend
  <2>1. l[j].pgstart > l[k].pgend
    BY <1>5 DEF GoodList
  <2>2. /\ l[j].pgstart <= m[j].pgstart /\ m[k].pgend <= l[k].pgend
        /\ m[j].pgstart \in Int /\ m[k].pgend \in Int
    BY <1>4
  <2> QED
    BY <1>2, <2>1, <2>2
<1>6. ASSUME NEW j \in 1 .. Len(l), NEW k \in 1 .. Len(l), j < k
      PROVE  ~Same(m[j], m[k])
  <2>1. CASE j = i \/ k = i
    <3>1. m[j] = r \/ m[k] = r
      BY <1>3, <2>1
    <3> QED
      BY <1>2, <1>4, <1>5, <1>6, <3>1 DEF Same
  <2>2. CASE j # i /\ k # i
    <3>1. m[j] = l[j] /\ m[k] = l[k]
      BY <1>3, <2>2
    <3>2. j # k
      BY <1>2, <1>6
    <3> QED
      BY <3>1, <3>2 DEF GoodList
  <2> QED
    BY <2>1, <2>2
<1>7. \A j, k \in 1 .. Len(l) : Same(m[j], m[k]) => j = k
  BY <1>2, <1>6, SameSymmetric
<1>8. GoodList(m, n)
  BY <1>3, <1>4, <1>5, <1>7 DEF GoodList
<1> QED
  BY <1>8 DEF m

(* A range may be put in where there is room for it.                       *)
LEMMA InsertGood ==
    ASSUME NEW l, NEW n \in Int, GoodList(l, n), NEW i \in 1 .. Len(l) + 1, NEW r \in Ranges,
           r.pgstart <= n, r.pgend \in r.pgstart - 1 .. n - 1,
           \A k \in 1 .. Len(l) : k < i => l[k].pgstart > r.pgend,
           \A k \in 1 .. Len(l) : k >= i => r.pgstart > l[k].pgend,
           r.pgend < r.pgstart => \A k \in 1 .. Len(l) : l[k].tag # r.tag
    PROVE  GoodList(InsertAt(l, i, r), n)
<1> DEFINE m == InsertAt(l, i, r)
           src(k) == IF k < i THEN k ELSE k - 1
<1>1. l \in Seq(Ranges)
  BY DEF GoodList
<1>2. /\ Len(l) \in Nat /\ r.pgstart \in Int /\ r.pgend \in Int
      /\ \A k \in 1 .. Len(l) : l[k].pgstart \in Int /\ l[k].pgend \in Int
  BY <1>1, ElementType, RangeType
<1>3. /\ m \in Seq(Ranges) /\ Len(m) = Len(l) + 1
      /\ \A k \in 1 .. Len(l) + 1 :
            m[k] = IF k < i THEN l[k] ELSE IF k = i THEN r ELSE l[k - 1]
  BY <1>1, InsertAtResult
<1> HIDE DEF m
<1>4. m[i] = r /\ \A k \in 1 .. Len(m) : k # i => m[k] = l[src(k)]
  BY <1>2, <1>3
<1>5. /\ \A k \in 1 .. Len(m) : k # i => src(k) \in 1 .. Len(l)
      /\ \A k \in 1 .. Len(m) : k < i => src(k) < i
      /\ \A k \in 1 .. Len(m) : k > i => src(k) >= i
      /\ \A j, k \in 1 .. Len(m) : j # i /\ k # i /\ j < k => src(j) < src(k)
  BY <1>2, <1>3
<1> HIDE DEF src
<1>6. ASSUME NEW k \in 1 .. Len(m)
      PROVE  m[k].pgstart <= n /\ m[k].pgend \in m[k].pgstart - 1 .. n - 1
  <2>1. CASE k = i
    BY <1>4, <2>1
  <2>2. CASE k # i
    BY <1>4, <1>5, <2>2 DEF GoodList
  <2> QED
    BY <2>1, <2>2
<1>7. ASSUME NEW j \in 1 .. Len(m), NEW k \in 1 .. Len(m), j < k
      PROVE  m[j].pgstart > m[k].pgend
  <2>1. CASE j # i /\ k # i
    BY <1>4, <1>5, <1>7, <2>1 DEF GoodList
  <2>2. CASE j = i
    BY <1>2, <1>3, <1>4, <1>5, <1>7, <2>2
  <2>3. CASE k = i
    BY <1>2, <1>3, <1>4, <1>5, <1>7, <2>3
  <2> QED
    BY <2>1, <2>2, <2>3
<1>8. ASSUME NEW j \in 1 .. Len(m), NEW k \in 1 .. Len(m), j < k
      PROVE  ~Same(m[j], m[k])
  <2>1. CASE j # i /\ k # i
    <3>1. /\ src(j) \in 1 .. Len(l) /\ src(k) \in 1 .. Len(l) /\ src(j) # src(k)
          /\ m[j] = l[src(j)] /\ m[k] = l[src(k)]
      BY <1>2, <1>3, <1>4, <1>5, <1>8, <2>1
    <3> QED
      BY <3>1 DEF GoodList
  <2>2. CASE j = i
    <3>1. src(k) \in 1 .. Len(l) /\ m[k] = l[src(k)] /\ m[j] = r
      BY <1>2, <1>3, <1>4, <1>5, <1>8, <2>2
    <3> QED
      BY <1>2, <1>7, <1>8, <3>1 DEF Same
  <2>3. CASE k = i
    <3>1. src(j) \in 1 .. Len(l) /\ m[j] = l[src(j)] /\ m[k] = r
      BY <1>2, <1>3, <1>4, <1>5, <1>8, <2>3
    <3> QED
      BY <1>2, <1>7, <1>8, <3>1 DEF Same
  <2> QED
    BY <2>1, <2>2, <2>3
<1>9. \A j, k \in 1 .. Len(m) : Same(m[j], m[k]) => j = k
  BY <1>2, <1>3, <1>8, SameSymmetric
<1>10. GoodList(m, n)
  BY <1>3, <1>6, <1>7, <1>9 DEF GoodList
<1> QED
  BY <1>10 DEF m

-----------------------------------------------------------------------------
(* and change its pages as they should.                                    *)

(* Page p is on list l, in a range at all or in one that was purged.       *)
Has(l, p) == \E i \in 1 .. Len(l) : l[i].pgstart <= p /\ p <= l[i].pgend
HasPurged(l, p) ==
    \E i \in 1 .. Len(l) : l[i].purged /\ l[i].pgstart <= p /\ p <= l[i].pgend

(* m is l, as to its pages outside P.                                      *)
Keeps(l, m, P) ==
    /\ \A p \in Int : Has(m, p) => Has(l, p)
    /\ \A p \in Int : Has(l, p) /\ p \notin P => Has(m, p)
    /\ \A p \in Int : HasPurged(l, p) /\ p \notin P => HasPurged(m, p)

(* range_del: no page of the range is left.                                *)
LEMMA DelPages ==
    ASSUME NEW l, NEW n \in Int, GoodList(l, n), NEW i \in 1 .. Len(l)
    PROVE  /\ Keeps(l, RemoveAt(l, i), PagesOf(l[i]))
           /\ \A p \in PagesOf(l[i]) : ~Has(RemoveAt(l, i), p)
<1> DEFINE m == RemoveAt(l, i)
           src(k) == IF k < i THEN k ELSE k + 1
           dst(k) == IF k < i THEN k ELSE k - 1
<1>1. l \in Seq(Ranges)
  BY DEF GoodList
<1>2. /\ Len(l) \in Nat
      /\ \A k \in 1 .. Len(l) : l[k].pgstart \in Int /\ l[k].pgend \in Int
  BY <1>1, ElementType
<1>3. /\ Len(m) = Len(l) - 1
      /\ \A k \in 1 .. Len(m) : m[k] = l[src(k)]
  BY <1>1, RemoveAtResult
<1>4. /\ \A k \in 1 .. Len(m) : src(k) \in 1 .. Len(l) /\ src(k) # i
      /\ \A k \in 1 .. Len(l) : k # i => dst(k) \in 1 .. Len(m) /\ src(dst(k)) = k
  BY <1>2, <1>3
<1> HIDE DEF m, src, dst
<1>5. \A k \in 1 .. Len(l) : k # i => m[dst(k)] = l[k]
  BY <1>3, <1>4
<1>6. ASSUME NEW p \in PagesOf(l[i]), NEW k \in 1 .. Len(m)
      PROVE  ~(m[k].pgstart <= p /\ p <= m[k].pgend)
  <2>1. src(k) \in 1 .. Len(l) /\ src(k) # i /\ m[k] = l[src(k)]
    BY <1>3, <1>4
  <2>2. l[i].pgstart > l[src(k)].pgend \/ l[src(k)].pgstart > l[i].pgend
    BY <1>2, <2>1 DEF GoodList
  <2> QED
    BY <1>2, <2>1, <2>2 DEF PagesOf
<1>7. \A p \in PagesOf(l[i]) : ~Has(m, p)
  BY <1>6 DEF Has
<1>8. ASSUME NEW p \in Int
      PROVE  /\ Has(m, p) => Has(l, p)
             /\ Has(l, p) /\ p \notin PagesOf(l[i]) => Has(m, p)
             /\ HasPurged(l, p) /\ p \notin PagesOf(l[i]) => HasPurged(m, p)
  <2>1. Has(m, p) => Has(l, p)
    BY <1>3, <1>4 DEF Has
  <2>2. ASSUME NEW k \in 1 .. Len(l), l[k].pgstart <= p, p <= l[k].pgend,
               p \notin PagesOf(l[i])
        PROVE  dst(k) \in 1 .. Len(m) /\ m[dst(k)] = l[k]
    BY <1>2, <1>4, <1>5, <2>2 DEF PagesOf
  <2> QED
    BY <2>1, <2>2 DEF Has, HasPurged
<1>9. Keeps(l, m, PagesOf(l[i]))
  BY <1>8 DEF Keeps
<1> QED
  BY <1>7, <1>9 DEF m

(* range_shrink: the pages that are cut off are gone.                      *)
LEMMA ShrinkPages ==
    ASSUME NEW l \in Seq(Ranges), NEW i \in 1 .. Len(l), NEW r \in Ranges, NEW P,
           l[i].pgstart <= r.pgstart, r.pgend <= l[i].pgend,
           r.purged = l[i].purged,
           \A p \in Int : l[i].pgstart <= p /\ p <= l[i].pgend /\ p \notin P
                             => r.pgstart <= p /\ p <= r.pgend
    PROVE  Keeps(l, ReplaceAt(l, i, r), P)
<1> DEFINE m == ReplaceAt(l, i, r)
<1>1. /\ r.pgstart \in Int /\ r.pgend \in Int
      /\ \A k \in 1 .. Len(l) : l[k].pgstart \in Int /\ l[k].pgend \in Int
  BY ElementType, RangeType
<1>2. /\ Len(m) = Len(l)
      /\ m[i] = r /\ \A k \in 1 .. Len(l) : k # i => m[k] = l[k]
  BY ReplaceAtResult
<1> HIDE DEF m
<1>3. ASSUME NEW p \in Int, NEW k \in 1 .. Len(l)
      PROVE  /\ m[k].purged = l[k].purged
             /\ m[k].pgstart <= p /\ p <= m[k].pgend => l[k].pgstart <= p /\ p <= l[k].pgend
             /\ l[k].pgstart <= p /\ p <= l[k].pgend /\ p \notin P
                  => m[k].pgstart <= p /\ p <= m[k].pgend
  <2>1. CASE k = i
    BY <1>1, <1>2, <2>1
  <2>2. CASE k # i
    BY <1>2, <2>2
  <2> QED
    BY <2>1, <2>2
<1>4. Keeps(l, m, P)
  BY <1>2, <1>3 DEF Keeps, Has, HasPurged
<1> QED
  BY <1>4 DEF m

(* range_alloc: the pages of the new range are added.                      *)
LEMMA InsertPages ==
    ASSUME NEW l \in Seq(Ranges), NEW i \in 1 .. Len(l) + 1, NEW r \in Ranges, NEW p \in Int
    PROVE  LET m == InsertAt(l, i, r)
               in == r.pgstart <= p /\ p <= r.pgend
           IN  /\ Has(m, p) <=> Has(l, p) \/ in
               /\ HasPurged(m, p) <=> HasPurged(l, p) \/ (r.purged /\ in)
<1> DEFINE m == InsertAt(l, i, r)
           src(k) == IF k < i THEN k ELSE k - 1
           dst(k) == IF k < i THEN k ELSE k + 1
<1>1. Len(l) \in Nat
  BY ElementType
<1>2. /\ Len(m) = Len(l) + 1
      /\ \A k \in 1 .. Len(l) + 1 :
            m[k] = IF k < i THEN l[k] ELSE IF k = i THEN r ELSE l[k - 1]
  BY InsertAtResult
<1> HIDE DEF m
<1>3. m[i] = r /\ i \in 1 .. Len(m)
  BY <1>1, <1>2
<1>4. \A k \in 1 .. Len(m) : k # i => src(k) \in 1 .. Len(l) /\ m[k] = l[src(k)]
  BY <1>1, <1>2
<1>5. \A k \in 1 .. Len(l) : dst(k) \in 1 .. Len(m) /\ m[dst(k)] = l[k]
  BY <1>1, <1>2
<1> HIDE DEF src, dst
<1>6. Has(m, p) <=> Has(l, p) \/ (r.pgstart <= p /\ p <= r.pgend)
  BY <1>3, <1>4, <1>5 DEF Has
<1>7. HasPurged(m, p) <=> HasPurged(l, p) \/ (r.purged /\ r.pgstart <= p /\ p <= r.pgend)
  BY <1>3, <1>4, <1>5 DEF HasPurged
<1> QED
  BY <1>6, <1>7 DEF m

-----------------------------------------------------------------------------
(* The walks of ashmem_pin and ashmem_unpin.                               *)

(* The least of some indices.                                              *)
LEMMA MinResult ==
    ASSUME NEW S \in SUBSET Nat, S # {}
    PROVE  Min(S) \in S /\ \A y \in S : Min(S) <= y
<1>1. \E x \in S : \A y \in S : x <= y
  BY LeastNumber
<1> QED
  BY <1>1 DEF Min

(* On a sorted list the walk reaches every range that ends behind start.   *)
LEMMA ReachedAll ==
    ASSUME NEW l, NEW n \in Int, GoodList(l, n), NEW start \in Int
    PROVE  Reached(l, start) = {i \in 1 .. Len(l) : l[i].pgend >= start}
<1>1. l \in Seq(Ranges)
  BY DEF GoodList
<1>2. /\ Len(l) \in Nat /\ DOMAIN l = 1 .. Len(l)
      /\ \A k \in 1 .. Len(l) : l[k].pgstart \in Int /\ l[k].pgend \in Int
  BY <1>1, ElementType
<1>3. ASSUME NEW i \in 1 .. Len(l), NEW j \in 1 .. i, l[i].pgend >= start
      PROVE  l[j].pgend >= start
  <2>1. j \in 1 .. Len(l) /\ (j = i \/ j < i)
    BY <1>2
  <2>2. j < i => l[j].pgstart > l[i].pgend /\ l[j].pgend >= l[j].pgstart - 1
    BY <1>2, <2>1 DEF GoodList
  <2> QED
    BY <1>2, <1>3, <2>1, <2>2
<1>4. ASSUME NEW i \in 1 .. Len(l)
      PROVE  (\A j \in 1 .. i : ~(l[j].pgend < start)) <=> l[i].pgend >= start
  <2>1. i \in 1 .. i /\ \A j \in 1 .. i : j \in 1 .. Len(l)
    BY <1>2
  <2> QED
    BY <1>2, <1>3, <2>1
<1> QED
  BY <1>2, <1>4 DEF Reached, range_before_page

(* A range with a page of the request is a hit: no overlap is missed.      *)
LEMMA OverlapHit ==
    ASSUME NEW l, NEW n \in Int, GoodList(l, n), NEW start \in Int, NEW end \in Int,
           NEW i \in 1 .. Len(l), NEW p \in Int, start <= p, p <= end,
           l[i].pgstart <= p, p <= l[i].pgend
    PROVE  i \in Hits(l, start, end)
<1>1. l \in Seq(Ranges)
  BY DEF GoodList
<1>2. l[i].pgstart \in Int /\ l[i].pgend \in Int
  BY <1>1, ElementType
<1>3. i \in Reached(l, start)
  BY <1>2, ReachedAll
<1> QED
  BY <1>2, <1>3 DEF Hits, page_range_in_range, page_in_range, page_range_subsumes_range

(* What a hit is: a range that shares a page with the request, or has none *)
(* and touches it, or begins where a request without pages stands.         *)
LEMMA HitResult ==
    ASSUME NEW l, NEW n \in Int, GoodList(l, n), NEW start \in Int, NEW end \in Int,
           end >= start - 1, NEW i \in Hits(l, start, end)
    PROVE  /\ i \in 1 .. Len(l) /\ l[i].pgend >= start
           /\ l[i].pgstart <= end + 1 \/ l[i].pgend <= end
           /\ start <= end => l[i].pgstart <= end \/ l[i].pgend <= end
<1>1. l \in Seq(Ranges)
  BY DEF GoodList
<1>2. i \in 1 .. Len(l) /\ l[i].pgend >= start
  BY ReachedAll DEF Hits
<1>3. l[i].pgstart \in Int /\ l[i].pgend \in Int
  BY <1>1, <1>2, ElementType
<1> QED
  BY <1>2, <1>3
     DEF Hits, page_range_in_range, page_in_range, page_range_subsumes_range

(* Without a hit, there is room for the request at the insertion point.    *)
LEMMA InsertionRoom ==
    ASSUME NEW l, NEW n \in Int, GoodList(l, n), NEW start \in Int, NEW end \in Int,
           end >= start - 1, Hits(l, start, end) = {}
    PROVE  LET i == InsertionPoint(l, start)
           IN  /\ i \in 1 .. Len(l) + 1
               /\ \A k \in 1 .. Len(l) : k < i => l[k].pgstart > end
               /\ \A k \in 1 .. Len(l) : k >= i => start > l[k].pgend
<1> DEFINE ends == {k \in 1 .. Len(l) + 1 : k <= Len(l) => range_before_page(l[k], start)}
           i == InsertionPoint(l, start)
<1>1. l \in Seq(Ranges)
  BY DEF GoodList
<1>2. /\ Len(l) \in Nat
      /\ \A k \in 1 .. Len(l) : l[k].pgstart \in Int /\ l[k].pgend \in Int
  BY <1>1, ElementType
<1>3. i \in ends /\ \A k \in ends : i <= k
  <2>1. ends \in SUBSET Nat /\ Len(l) + 1 \in ends
    BY <1>2
  <2> HIDE DEF ends
  <2>2. Min(ends) \in ends /\ \A k \in ends : Min(ends) <= k
    BY <2>1, MinResult
  <2> QED
    BY <2>2 DEF InsertionPoint, ends
<1>4. i \in 1 .. Len(l) + 1
  BY <1>3
<1> HIDE DEF i
<1>5. ASSUME NEW k \in 1 .. Len(l), k < i
      PROVE  l[k].pgstart > end
  <2>1. l[k].pgend >= start
    BY <1>2, <1>3, <1>5 DEF range_before_page
  <2>2. k \in Reached(l, start)
    BY <2>1, ReachedAll
  <2>3. ~page_range_in_range(l[k], start, end)
    BY <2>2 DEF Hits
  <2> QED
    BY <1>2, <2>1, <2>3
       DEF page_range_in_range, page_in_range, page_range_subsumes_range
<1>6. ASSUME NEW k \in 1 .. Len(l), k >= i
      PROVE  start > l[k].pgend
  <2>1. i \in 1 .. Len(l) /\ l[i].pgend < start
    BY <1>2, <1>3, <1>4, <1>6 DEF range_before_page
  <2>2. i < k => l[i].pgstart > l[k].pgend /\ l[i].pgend >= l[i].pgstart - 1
    BY <2>1 DEF GoodList
  <2> QED
    BY <1>2, <1>4, <1>6, <2>1, <2>2
<1> QED
  BY <1>4, <1>5, <1>6 DEF i

-----------------------------------------------------------------------------
(* The LRU list.                                                           *)

(* What can be on the LRU list.                                            *)
Entries == {e \in [asma : Areas, pgstart : Nat, pgend : Int, tag : Nat] :
               e.pgend >= e.pgstart - 1}

(* lru lists the entries in S, each once, and count is their pages.        *)
LruOf(lru, count, S) ==
    /\ lru \in Seq(Entries)
    /\ S = {lru[k] : k \in 1 .. Len(lru)}
    /\ \A j, k \in 1 .. Len(lru) : lru[j] = lru[k] => j = k
    /\ count = TotalSize(S)

(* The list is finite, so its pages can be counted.                        *)
LEMMA LruFinite ==
    ASSUME NEW lru, NEW count, NEW S, LruOf(lru, count, S)
    PROVE  /\ Len(lru) \in Nat /\ S \in SUBSET Entries /\ IsFiniteSet(S)
           /\ count \in Nat /\ \A k \in 1 .. Len(lru) : lru[k] \in S /\ lru[k] \in Entries
<1>1. Len(lru) \in Nat /\ \A k \in 1 .. Len(lru) : lru[k] \in Entries
  BY LenProperties, ElementOfSeq DEF LruOf
<1>2. S \in SUBSET Entries
  BY <1>1 DEF LruOf
<1>3. IsFiniteSet(S)
  <2> DEFINE f == [k \in 1 .. Len(lru) |-> lru[k]]
  <2>1. IsFiniteSet(1 .. Len(lru))
    BY <1>1, FS_Interval
  <2>2. f \in Surjection(1 .. Len(lru), S)
    BY DEF LruOf, Surjection
  <2> QED
    BY <2>1, <2>2, FS_Surjection
<1>4. \A e \in Entries : range_size(e) \in Nat
  BY DEF Entries, range_size
<1>5. count \in Nat
  <2>1. \A e \in S : range_size(e) \in Nat
    BY <1>2, <1>4
  <2> QED
    BY <1>3, <2>1, TotalSizeRemove DEF LruOf
<1> QED
  BY <1>1, <1>2, <1>3, <1>5 DEF LruOf

(* An entry has a number of pages, which may be zero.                      *)
LEMMA EntrySize ==
    \A e \in Entries : range_size(e) \in Nat
  BY DEF Entries, range_size

(* An element more in a sum.                                               *)
LEMMA TotalSizeAdd ==
    ASSUME NEW S \in SUBSET Entries, IsFiniteSet(S), NEW e \in Entries, e \notin S
    PROVE  TotalSize(S \cup {e}) = TotalSize(S) + range_size(e)
<1>1. IsFiniteSet(S \cup {e})
  BY FS_AddElement
<1>2. (S \cup {e}) \ {e} = S
  OBVIOUS
<1>3. TotalSize(S) \in Nat
  BY EntrySize, TotalSizeRemove
<1>4. \A x \in S \cup {e} : range_size(x) \in Nat
  BY EntrySize
<1>5. TotalSize(S \cup {e}) = range_size(e) + TotalSize((S \cup {e}) \ {e})
  BY <1>1, <1>4, TotalSizeRemove
<1> QED
  BY <1>2, <1>3, <1>4, <1>5

(* list_del, ...                                                           *)
LEMMA LruRemove ==
    ASSUME NEW lru, NEW count, NEW S, LruOf(lru, count, S), NEW k \in 1 .. Len(lru)
    PROVE  LruOf(RemoveAt(lru, k), count - range_size(lru[k]), S \ {lru[k]})
<1> DEFINE new == RemoveAt(lru, k)
           src(j) == IF j < k THEN j ELSE j + 1
           dst(j) == IF j < k THEN j ELSE j - 1
<1>1. /\ Len(lru) \in Nat /\ S \in SUBSET Entries /\ IsFiniteSet(S)
      /\ lru[k] \in S
  BY LruFinite
<1>2. lru \in Seq(Entries)
  BY DEF LruOf
<1>3. new \in Seq(Entries) /\ Len(new) = Len(lru) - 1 /\ \A j \in 1 .. Len(new) : new[j] = lru[src(j)]
  BY <1>2, RemoveAtResult
<1>4. /\ \A j \in 1 .. Len(new) : src(j) \in 1 .. Len(lru) /\ src(j) # k
      /\ \A j \in 1 .. Len(lru) : j # k => dst(j) \in 1 .. Len(new) /\ src(dst(j)) = j
      /\ \A i, j \in 1 .. Len(new) : src(i) = src(j) => i = j
  BY <1>1, <1>3
<1> HIDE DEF new, src, dst
<1>5. S \ {lru[k]} = {new[j] : j \in 1 .. Len(new)}
  <2>1. \A j \in 1 .. Len(new) : new[j] \in S \ {lru[k]}
    BY <1>3, <1>4 DEF LruOf
  <2>2. ASSUME NEW x \in S \ {lru[k]}
        PROVE  \E j \in 1 .. Len(new) : x = new[j]
    <3>1. PICK j \in 1 .. Len(lru) : x = lru[j]
      BY DEF LruOf
    <3>2. dst(j) \in 1 .. Len(new) /\ new[dst(j)] = x
      BY <1>3, <1>4, <3>1
    <3> QED
      BY <3>2
  <2> QED
    BY <2>1, <2>2
<1>6. \A i, j \in 1 .. Len(new) : new[i] = new[j] => i = j
  BY <1>3, <1>4 DEF LruOf
<1>7. count - range_size(lru[k]) = TotalSize(S \ {lru[k]})
  <2>1. \A x \in S : range_size(x) \in Nat
    BY <1>1, EntrySize
  <2>2. count = range_size(lru[k]) + TotalSize(S \ {lru[k]})
    BY <1>1, <2>1, TotalSizeRemove DEF LruOf
  <2>3. IsFiniteSet(S \ {lru[k]})
    BY <1>1, FS_RemoveElement
  <2>4. TotalSize(S \ {lru[k]}) \in Nat
    BY <2>1, <2>3, TotalSizeRemove
  <2> QED
    BY <1>1, <2>1, <2>2, <2>4
<1>8. LruOf(new, count - range_size(lru[k]), S \ {lru[k]})
  BY <1>3, <1>5, <1>6, <1>7 DEF LruOf
<1> QED
  BY <1>8 DEF new

(* ... list_add_tail, ...                                                  *)
LEMMA LruAppend ==
    ASSUME NEW lru, NEW count, NEW S, LruOf(lru, count, S), NEW e \in Entries, e \notin S
    PROVE  LruOf(Append(lru, e), count + range_size(e), S \cup {e})
<1> DEFINE new == Append(lru, e)
<1>1. Len(lru) \in Nat /\ S \in SUBSET Entries /\ IsFiniteSet(S)
  BY LruFinite
<1>2. lru \in Seq(Entries)
  BY DEF LruOf
<1>3. /\ new \in Seq(Entries) /\ Len(new) = Len(lru) + 1
      /\ new[Len(lru) + 1] = e /\ \A j \in 1 .. Len(lru) : new[j] = lru[j]
  BY <1>2, AppendProperties
<1> HIDE DEF new
<1>4. \A j \in 1 .. Len(new) : j \in 1 .. Len(lru) \/ j = Len(lru) + 1
  BY <1>1, <1>3
<1>5. \A j \in 1 .. Len(lru) : j \in 1 .. Len(new)
  BY <1>1, <1>3
<1>6. Len(lru) + 1 \in 1 .. Len(new)
  BY <1>1, <1>3
<1>7. S \cup {e} = {new[j] : j \in 1 .. Len(new)}
  BY <1>3, <1>4, <1>5, <1>6 DEF LruOf
<1>8. \A i, j \in 1 .. Len(new) : new[i] = new[j] => i = j
  BY <1>3, <1>4 DEF LruOf
<1>9. count + range_size(e) = TotalSize(S \cup {e})
  BY <1>1, TotalSizeAdd DEF LruOf
<1>10. LruOf(new, count + range_size(e), S \cup {e})
  BY <1>3, <1>7, <1>8, <1>9 DEF LruOf
<1> QED
  BY <1>10 DEF new

(* ... and a range that changes where it is.                               *)
LEMMA LruReplace ==
    ASSUME NEW lru, NEW count, NEW S, LruOf(lru, count, S), NEW k \in 1 .. Len(lru),
           NEW e \in Entries, e \notin S \ {lru[k]}
    PROVE  LruOf(ReplaceAt(lru, k, e), count - (range_size(lru[k]) - range_size(e)),
                 (S \ {lru[k]}) \cup {e})
<1> DEFINE new == ReplaceAt(lru, k, e)
           R == S \ {lru[k]}
<1>1. /\ Len(lru) \in Nat /\ S \in SUBSET Entries /\ IsFiniteSet(S)
      /\ lru[k] \in S
  BY LruFinite
<1>2. lru \in Seq(Entries)
  BY DEF LruOf
<1>3. /\ new \in Seq(Entries) /\ Len(new) = Len(lru)
      /\ new[k] = e /\ \A j \in 1 .. Len(lru) : j # k => new[j] = lru[j]
  BY <1>2, ReplaceAtResult
<1>4. \A j \in 1 .. Len(lru) : j # k => lru[j] \in R
  BY DEF LruOf
<1>5. \A x \in R : \E j \in 1 .. Len(lru) : j # k /\ x = lru[j]
  BY DEF LruOf
<1>6. LruOf(RemoveAt(lru, k), count - range_size(lru[k]), R)
  BY LruRemove
<1> HIDE DEF new, R
<1>7. R \cup {e} = {new[j] : j \in 1 .. Len(new)}
  BY <1>3, <1>4, <1>5
<1>8. \A i, j \in 1 .. Len(new) : new[i] = new[j] => i = j
  <2> SUFFICES ASSUME NEW i \in 1 .. Len(new), NEW j \in 1 .. Len(new), new[i] = new[j]
               PROVE  i = j
    OBVIOUS
  <2>1. CASE i = k \/ j = k
    BY <1>3, <1>4, <2>1 DEF R
  <2>2. CASE i # k /\ j # k
    BY <1>3, <2>2 DEF LruOf
  <2> QED
    BY <2>1, <2>2
<1>9. count - (range_size(lru[k]) - range_size(e)) = TotalSize(R \cup {e})
  <2>1. /\ R \in SUBSET Entries /\ IsFiniteSet(R)
        /\ count - range_size(lru[k]) = TotalSize(R)
    BY <1>6, LruFinite DEF LruOf
  <2>2. TotalSize(R \cup {e}) = TotalSize(R) + range_size(e)
    BY <2>1, TotalSizeAdd DEF R
  <2>3. count \in Int /\ range_size(lru[k]) \in Int /\ range_size(e) \in Int
    BY <1>1, LruFinite, EntrySize
  <2> QED
    BY <2>1, <2>2, <2>3
<1>10. LruOf(new, count - (range_size(lru[k]) - range_size(e)), R \cup {e})
  BY <1>3, <1>7, <1>8, <1>9 DEF LruOf
<1> QED
  BY <1>10 DEF new, R

(* The first is taken off.                                                 *)
LEMMA LruTail ==
    ASSUME NEW lru, NEW count, NEW S, LruOf(lru, count, S), lru # <<>>
    PROVE  /\ 1 \in 1 .. Len(lru) /\ Head(lru) = lru[1]
           /\ LruOf(Tail(lru), count - range_size(Head(lru)), S \ {Head(lru)})
           /\ Len(lru) # 1 => Tail(lru) # <<>>
<1>1. lru \in Seq(Entries)
  BY DEF LruOf
<1>2. /\ Len(lru) \in Nat /\ Len(lru) # 0 /\ Head(lru) = lru[1]
      /\ Tail(lru) \in Seq(Entries) /\ Len(Tail(lru)) = Len(lru) - 1
      /\ \A j \in 1 .. Len(lru) - 1 : Tail(lru)[j] = lru[j + 1]
  BY <1>1
<1>3. RemoveAt(lru, 1) = Tail(lru)
  <2>1. /\ RemoveAt(lru, 1) \in Seq(Entries)
        /\ Len(RemoveAt(lru, 1)) = Len(lru) - 1
        /\ \A j \in 1 .. Len(lru) - 1 : RemoveAt(lru, 1)[j] = lru[j + 1]
    <3>1. 1 \in 1 .. Len(lru) /\ \A j \in 1 .. Len(lru) - 1 : ~(j < 1)
      BY <1>2
    <3> QED
      BY <1>1, <1>2, <3>1, RemoveAtResult
  <2> QED
    BY <1>1, <1>2, <2>1, SeqEqual
<1>4. 1 \in 1 .. Len(lru)
  BY <1>2
<1>5. LruOf(Tail(lru), count - range_size(Head(lru)), S \ {Head(lru)})
  <2>1. LruOf(RemoveAt(lru, 1), count - range_size(lru[1]), S \ {lru[1]})
    BY <1>4, LruRemove
  <2> QED
    BY <1>2, <1>3, <2>1, Zenon
<1>6. Len(lru) # 1 => Tail(lru) # <<>>
  <2>1. Len(<<>>) = 0
    BY EmptySeq
  <2>2. Len(lru) # 1 => Len(Tail(lru)) # 0
    BY <1>2
  <2> QED
    BY <2>1, <2>2, Zenon
<1> QED
  BY <1>2, <1>4, <1>5, <1>6

-----------------------------------------------------------------------------
(* The entries that have to be on it.                                      *)

(* The entries of the ranges of list l of area a that were not purged, and *)
(* of all areas.                                                           *)
EntriesOf(l, a) == {OnLru(a, l[i]) : i \in {k \in 1 .. Len(l) : ~l[k].purged}}

(* The entries of all areas: what has to be on the LRU list.               *)
Listed(lists) == UNION {EntriesOf(lists[a], a) : a \in Areas}

(* Two ranges have the same entry only if they are the same.               *)
LEMMA OnLruSame ==
    \A a, b, r, q : OnLru(a, r) = OnLru(b, q) <=> a = b /\ Same(r, q)
  BY DEF OnLru, Same

(* The entry of a range inside its area.                                   *)
LEMMA OnLruType ==
    ASSUME NEW a \in Areas, NEW r \in Ranges, r.pgend >= r.pgstart - 1
    PROVE  OnLru(a, r) \in Entries /\ OnLru(a, r).asma = a /\ range_size(OnLru(a, r)) = range_size(r)
<1>1. r.pgstart \in Nat /\ r.pgend \in Int /\ r.tag \in Nat
  BY DEF Ranges
<1> QED
  BY <1>1 DEF OnLru, Entries, range_size

(* T is S without D and with A.                                            *)
Becomes(S, T, D, A) == T = (S \ D) \cup A

(* A change of the list of area a changes the entries of a only.           *)
LEMMA ListedChange ==
    ASSUME NEW lists, NEW new, NEW a \in Areas,
           \A b \in Areas : b # a => new[b] = lists[b],
           NEW D, NEW A, \A e \in D : e.asma = a,
           Becomes(EntriesOf(lists[a], a), EntriesOf(new[a], a), D, A)
    PROVE  Becomes(Listed(lists), Listed(new), D, A)
<1>1. \A b \in Areas : \A e \in EntriesOf(lists[b], b) : e.asma = b
  BY DEF EntriesOf, OnLru
<1>2. ASSUME NEW b \in Areas, b # a
      PROVE  EntriesOf(new[b], b) = EntriesOf(lists[b], b) \ D
  BY <1>1, <1>2
<1> QED
  BY <1>2 DEF Listed, Becomes

(* What range_del does to the entries of an area, ...                      *)
LEMMA DelEntries ==
    ASSUME NEW l, NEW n \in Int, GoodList(l, n), NEW i \in 1 .. Len(l), NEW a, NEW e
    PROVE  e \in EntriesOf(RemoveAt(l, i), a) <=>
              e \in EntriesOf(l, a) /\ (l[i].purged \/ e # OnLru(a, l[i]))
<1> DEFINE m == RemoveAt(l, i)
           src(k) == IF k < i THEN k ELSE k + 1
           dst(k) == IF k < i THEN k ELSE k - 1
<1>1. l \in Seq(Ranges)
  BY DEF GoodList
<1>2. Len(l) \in Nat
  BY <1>1, ElementType
<1>3. /\ Len(m) = Len(l) - 1
      /\ \A k \in 1 .. Len(m) : m[k] = l[src(k)]
  BY <1>1, RemoveAtResult
<1>4. /\ \A k \in 1 .. Len(m) : src(k) \in 1 .. Len(l) /\ src(k) # i
      /\ \A k \in 1 .. Len(l) : k # i => dst(k) \in 1 .. Len(m) /\ src(dst(k)) = k
  BY <1>2, <1>3
<1> HIDE DEF m, src, dst
<1>5. \A k \in 1 .. Len(l) : k # i => m[dst(k)] = l[k]
  BY <1>3, <1>4
<1>6. \A k \in 1 .. Len(l) : OnLru(a, l[k]) = OnLru(a, l[i]) => k = i
  BY OnLruSame DEF GoodList
<1>7. ASSUME e \in EntriesOf(m, a)
      PROVE  e \in EntriesOf(l, a) /\ e # OnLru(a, l[i])
  <2>1. PICK k \in 1 .. Len(m) : ~m[k].purged /\ e = OnLru(a, m[k])
    BY <1>7 DEF EntriesOf
  <2>2. src(k) \in 1 .. Len(l) /\ src(k) # i /\ m[k] = l[src(k)]
    BY <1>3, <1>4
  <2> QED
    BY <1>6, <2>1, <2>2 DEF EntriesOf
<1>8. ASSUME e \in EntriesOf(l, a), l[i].purged \/ e # OnLru(a, l[i])
      PROVE  e \in EntriesOf(m, a)
  <2>1. PICK k \in 1 .. Len(l) : ~l[k].purged /\ e = OnLru(a, l[k])
    BY <1>8 DEF EntriesOf
  <2>2. k # i
    BY <1>8, <2>1
  <2>3. dst(k) \in 1 .. Len(m) /\ m[dst(k)] = l[k]
    BY <1>4, <1>5, <2>2
  <2> QED
    BY <2>1, <2>3 DEF EntriesOf
<1> QED
  BY <1>7, <1>8 DEF m

(* A list with another range at i.                                         *)
LEMMA ReplacedRange ==
    ASSUME NEW l \in Seq(Ranges), NEW i \in 1 .. Len(l), NEW r \in Ranges
    PROVE  /\ Len(ReplaceAt(l, i, r)) = Len(l) /\ ReplaceAt(l, i, r)[i] = r
           /\ \A k \in 1 .. Len(l) : k # i => ReplaceAt(l, i, r)[k] = l[k]
  BY ReplaceAtResult

(* ... range_shrink, ...                                                   *)
LEMMA ReplaceEntries ==
    ASSUME NEW l \in Seq(Ranges), NEW n \in Int, GoodList(l, n), NEW i \in 1 .. Len(l),
           NEW a, NEW e, NEW r \in Ranges, r.purged = l[i].purged
    PROVE  e \in EntriesOf(ReplaceAt(l, i, r), a) <=>
              \/ e \in EntriesOf(l, a) /\ (r.purged \/ e # OnLru(a, l[i]))
              \/ ~r.purged /\ e = OnLru(a, r)
<1> DEFINE m == ReplaceAt(l, i, r)
<1>2. /\ Len(m) = Len(l)
      /\ m[i] = r /\ \A k \in 1 .. Len(l) : k # i => m[k] = l[k]
  BY ReplacedRange
<1>3. \A k \in 1 .. Len(l) : OnLru(a, l[k]) = OnLru(a, l[i]) => k = i
  BY OnLruSame DEF GoodList
<1> HIDE DEF m
<1>4. ASSUME e \in EntriesOf(m, a), r.purged \/ e # OnLru(a, r)
      PROVE  e \in EntriesOf(l, a) /\ (r.purged \/ e # OnLru(a, l[i]))
  <2>1. PICK k \in 1 .. Len(l) : ~m[k].purged /\ e = OnLru(a, m[k])
    BY <1>2, <1>4 DEF EntriesOf
  <2>2. k # i
    BY <1>2, <1>4, <2>1
  <2>3. m[k] = l[k]
    BY <1>2, <2>2
  <2> QED
    BY <1>3, <2>1, <2>2, <2>3 DEF EntriesOf
<1>5. ASSUME e \in EntriesOf(l, a), r.purged \/ e # OnLru(a, l[i])
      PROVE  e \in EntriesOf(m, a)
  <2>1. PICK k \in 1 .. Len(l) : ~l[k].purged /\ e = OnLru(a, l[k])
    BY <1>5 DEF EntriesOf
  <2>2. k # i
    BY <1>5, <2>1
  <2>3. m[k] = l[k]
    BY <1>2, <2>2
  <2> QED
    BY <1>2, <2>1, <2>3 DEF EntriesOf
<1>6. ASSUME ~r.purged, e = OnLru(a, r)
      PROVE  e \in EntriesOf(m, a)
  BY <1>2, <1>6 DEF EntriesOf
<1> QED
  BY <1>4, <1>5, <1>6 DEF m

(* ... and range_alloc.                                                    *)
LEMMA InsertEntries ==
    ASSUME NEW l \in Seq(Ranges), NEW i \in 1 .. Len(l) + 1, NEW r \in Ranges, NEW a, NEW e
    PROVE  e \in EntriesOf(InsertAt(l, i, r), a) <=> e \in EntriesOf(l, a) \/ (~r.purged /\ e = OnLru(a, r))
<1> DEFINE m == InsertAt(l, i, r)
           src(k) == IF k < i THEN k ELSE k - 1
           dst(k) == IF k < i THEN k ELSE k + 1
<1>1. Len(l) \in Nat
  BY ElementType
<1>2. /\ Len(m) = Len(l) + 1
      /\ \A k \in 1 .. Len(l) + 1 :
            m[k] = IF k < i THEN l[k] ELSE IF k = i THEN r ELSE l[k - 1]
  BY InsertAtResult
<1> HIDE DEF m
<1>3. m[i] = r /\ i \in 1 .. Len(m)
  BY <1>1, <1>2
<1>4. \A k \in 1 .. Len(m) : k # i => src(k) \in 1 .. Len(l) /\ m[k] = l[src(k)]
  BY <1>1, <1>2
<1>5. \A k \in 1 .. Len(l) : dst(k) \in 1 .. Len(m) /\ m[dst(k)] = l[k]
  BY <1>1, <1>2
<1> HIDE DEF src, dst
<1>6. e \in EntriesOf(m, a) <=> e \in EntriesOf(l, a) \/ (~r.purged /\ e = OnLru(a, r))
  BY <1>3, <1>4, <1>5 DEF EntriesOf
<1> QED
  BY <1>6 DEF m

(* The entry of a range that is cut or added is that of no other range.    *)
LEMMA ReplaceFresh ==
    ASSUME NEW l \in Seq(Ranges), NEW n, NEW i \in 1 .. Len(l), NEW a, NEW r \in Ranges,
           GoodList(ReplaceAt(l, i, r), n), OnLru(a, r) \in EntriesOf(l, a)
    PROVE  OnLru(a, r) = OnLru(a, l[i])
<1> DEFINE m == ReplaceAt(l, i, r)
<1>1. /\ Len(m) = Len(l)
      /\ m[i] = r /\ \A k \in 1 .. Len(l) : k # i => m[k] = l[k]
  BY ReplacedRange
<1>2. PICK k \in 1 .. Len(l) : OnLru(a, r) = OnLru(a, l[k])
  BY DEF EntriesOf
<1>3. GoodList(m, n)
  OBVIOUS
<1> HIDE DEF m
<1>4. CASE k # i
  BY <1>1, <1>2, <1>3, <1>4, OnLruSame DEF GoodList
<1> QED
  BY <1>2, <1>4

(* The same for a range that is added.                                     *)
LEMMA InsertFresh ==
    ASSUME NEW l \in Seq(Ranges), NEW n, NEW i \in 1 .. Len(l) + 1, NEW a, NEW r \in Ranges,
           GoodList(InsertAt(l, i, r), n)
    PROVE  OnLru(a, r) \notin EntriesOf(l, a)
<1> DEFINE m == InsertAt(l, i, r)
           dst(k) == IF k < i THEN k ELSE k + 1
<1>1. Len(l) \in Nat
  BY ElementType
<1>2. /\ Len(m) = Len(l) + 1
      /\ \A k \in 1 .. Len(l) + 1 :
            m[k] = IF k < i THEN l[k] ELSE IF k = i THEN r ELSE l[k - 1]
  BY InsertAtResult
<1>3. GoodList(m, n)
  OBVIOUS
<1> HIDE DEF m
<1>4. m[i] = r /\ i \in 1 .. Len(m)
  BY <1>1, <1>2
<1>5. \A k \in 1 .. Len(l) : dst(k) \in 1 .. Len(m) /\ dst(k) # i /\ m[dst(k)] = l[k]
  BY <1>1, <1>2
<1> HIDE DEF dst
<1>6. \A k \in 1 .. Len(l) : ~Same(r, l[k])
  BY <1>3, <1>4, <1>5 DEF GoodList
<1> QED
  BY <1>6, OnLruSame DEF EntriesOf

-----------------------------------------------------------------------------
(* The two lists together, through range_del,                              *)

(* An area with its file has had a size; it may get another one then.      *)
AreaInv ==
    /\ size \in [Areas -> 0 .. MaxSize] /\ file \in [Areas -> BOOLEAN]
    /\ storing \in [Areas -> SUBSET (1 .. MaxSize)] /\ had \in [Areas -> SUBSET (1 .. MaxSize)]
    /\ \A a \in Areas : file[a] <=> had[a] # {}

(* The lists are good, whatever sizes the area has had, and only an area   *)
(* with its file has ranges.                                               *)
ListInv ==
    /\ unpinned_list \in [Areas -> Seq(Ranges)]
    /\ \A a \in Areas : GoodList(unpinned_list[a], MaxSize)
    /\ \A a \in Areas : unpinned_list[a] # <<>> => file[a]

(* The LRU list and lru_count are exact: they follow every change of a     *)
(* list.                                                                   *)
LruInv == LruOf(ashmem_lru_list, lru_count, Listed(unpinned_list))

(* Only the list of area a changes.                                        *)
LEMMA ListChange ==
    ASSUME ListInv, NEW a \in Areas, NEW m, file[a], GoodList(m, MaxSize),
           unpinned_list' = [unpinned_list EXCEPT ![a] = m], UNCHANGED areaVars
    PROVE  /\ ListInv' /\ unpinned_list'[a] = m
           /\ \A b \in Areas : b # a => unpinned_list'[b] = unpinned_list[b]
<1>1. m \in Seq(Ranges)
  BY DEF GoodList
<1>2. /\ unpinned_list' \in [Areas -> Seq(Ranges)] /\ unpinned_list'[a] = m
      /\ \A b \in Areas : b # a => unpinned_list'[b] = unpinned_list[b]
  BY <1>1 DEF ListInv
<1>3. file' = file
  BY DEF areaVars
<1>4. ASSUME NEW b \in Areas
      PROVE  /\ GoodList(unpinned_list'[b], MaxSize)
             /\ unpinned_list'[b] # <<>> => file'[b]
  <2>1. CASE b = a
    BY <1>2, <1>3, <2>1
  <2>2. CASE b # a
    BY <1>2, <1>3, <2>2 DEF ListInv
  <2> QED
    BY <2>1, <2>2
<1> QED
  BY <1>2, <1>4 DEF ListInv

(* A range on a list, ...                                                  *)
LEMMA RangeFacts ==
    ASSUME AreaInv, ListInv, NEW a \in Areas, NEW i \in 1 .. Len(unpinned_list[a])
    PROVE  LET r == unpinned_list[a][i]
           IN  /\ MaxSize \in Nat /\ file[a] /\ GoodList(unpinned_list[a], MaxSize)
               /\ unpinned_list[a] \in Seq(Ranges)
               /\ r \in Ranges /\ r.pgstart \in Nat /\ r.pgend \in Int
               /\ r.pgstart <= MaxSize /\ r.pgend >= r.pgstart - 1 /\ r.pgend <= MaxSize - 1
               /\ OnLru(a, r) \in Entries /\ OnLru(a, r).asma = a
               /\ range_size(OnLru(a, r)) = range_size(r)
<1> DEFINE r == unpinned_list[a][i]
<1>1. unpinned_list[a] \in Seq(Ranges) /\ GoodList(unpinned_list[a], MaxSize)
  BY DEF ListInv
<1>2. MaxSize \in Nat
  BY AshmemAssumption
<1>3. file[a]
  <2>1. unpinned_list[a] # <<>>
    BY EmptySeq
  <2> QED
    BY <2>1 DEF ListInv
<1>4. r \in Ranges /\ r.pgstart \in Nat /\ r.pgend \in Int
  BY <1>1, ElementType
<1>5. r.pgstart <= MaxSize /\ r.pgend >= r.pgstart - 1 /\ r.pgend <= MaxSize - 1
  BY <1>1, <1>2, <1>4 DEF GoodList
<1> HIDE DEF r
<1>6. /\ OnLru(a, r) \in Entries /\ OnLru(a, r).asma = a
      /\ range_size(OnLru(a, r)) = range_size(r)
  BY <1>4, <1>5, OnLruType
<1> QED
  BY <1>1, <1>2, <1>3, <1>4, <1>5, <1>6 DEF r

(* ... and where it is on the LRU list.                                    *)
LEMMA LruIndexResult ==
    ASSUME AreaInv, ListInv, LruInv, NEW a \in Areas, NEW i \in 1 .. Len(unpinned_list[a]),
           ~unpinned_list[a][i].purged
    PROVE  LET e == OnLru(a, unpinned_list[a][i])
               k == LruIndex(a, unpinned_list[a][i])
           IN  e \in Listed(unpinned_list) /\ k \in 1 .. Len(ashmem_lru_list) /\ ashmem_lru_list[k] = e
<1> DEFINE e == OnLru(a, unpinned_list[a][i])
<1>2. e \in Listed(unpinned_list)
  BY DEF Listed, EntriesOf
<1>3. DOMAIN ashmem_lru_list = 1 .. Len(ashmem_lru_list)
  BY LenProperties DEF LruInv, LruOf
<1>4. \E k \in DOMAIN ashmem_lru_list : ashmem_lru_list[k] = e
  BY <1>2, <1>3 DEF LruInv, LruOf
<1> HIDE DEF e
<1> QED
  BY <1>2, <1>3, <1>4 DEF LruIndex, e

(* range_del keeps the lists, and removes the pages of the range.          *)
LEMMA DelStep ==
    ASSUME AreaInv, ListInv, LruInv, NEW a \in Areas, NEW i \in 1 .. Len(unpinned_list[a]),
           range_del(a, i), UNCHANGED areaVars
    PROVE  /\ ListInv' /\ LruInv'
           /\ \A b \in Areas : b # a => unpinned_list'[b] = unpinned_list[b]
           /\ Keeps(unpinned_list[a], unpinned_list'[a], PagesOf(unpinned_list[a][i]))
           /\ \A p \in PagesOf(unpinned_list[a][i]) : ~Has(unpinned_list'[a], p)
<1> DEFINE l == unpinned_list[a]
           r == l[i]
           e == OnLru(a, r)
           m == RemoveAt(l, i)
<1>1. /\ MaxSize \in Nat /\ file[a] /\ GoodList(l, MaxSize) /\ l \in Seq(Ranges)
      /\ e \in Entries /\ e.asma = a /\ range_size(e) = range_size(r)
  BY RangeFacts
<1>2. GoodList(m, MaxSize)
  BY <1>1, DelGood
<1>3. unpinned_list' = [unpinned_list EXCEPT ![a] = m]
  BY DEF range_del
<1>4. /\ ListInv' /\ unpinned_list'[a] = m
      /\ \A b \in Areas : b # a => unpinned_list'[b] = unpinned_list[b]
  <2> HIDE DEF m
  <2> QED
    BY <1>1, <1>2, <1>3, ListChange
<1>5. Keeps(l, m, PagesOf(r)) /\ \A p \in PagesOf(r) : ~Has(m, p)
  BY <1>1, DelPages
<1>6. \A x : x \in EntriesOf(m, a) <=> x \in EntriesOf(l, a) /\ (r.purged \/ x # e)
  BY <1>1, DelEntries
<1> HIDE DEF r, e, m
<1>7. LruInv'
  <2>1. CASE r.purged
    <3>1. Becomes(EntriesOf(l, a), EntriesOf(m, a), {}, {})
      BY <1>6, <2>1 DEF Becomes
    <3>2. Becomes(Listed(unpinned_list), Listed(unpinned_list'), {}, {})
      BY <1>4, <3>1, ListedChange
    <3>3. UNCHANGED <<ashmem_lru_list, lru_count>>
      BY <2>1 DEF range_del, range_on_lru, r
    <3> QED
      BY <3>2, <3>3 DEF LruInv, Becomes
  <2>2. CASE ~r.purged
    <3> DEFINE k == LruIndex(a, r)
    <3>1. Becomes(EntriesOf(l, a), EntriesOf(m, a), {e}, {})
      BY <1>6, <2>2 DEF Becomes
    <3>2. Becomes(Listed(unpinned_list), Listed(unpinned_list'), {e}, {})
      BY <1>1, <1>4, <3>1, ListedChange
    <3>3. k \in 1 .. Len(ashmem_lru_list) /\ ashmem_lru_list[k] = e
      BY <2>2, LruIndexResult DEF r, e
    <3>4. /\ ashmem_lru_list' = RemoveAt(ashmem_lru_list, k)
          /\ lru_count' = lru_count - range_size(r)
      BY <2>2 DEF range_del, range_on_lru, r
    <3> HIDE DEF k
    <3>5. LruOf(RemoveAt(ashmem_lru_list, k), lru_count - range_size(e), Listed(unpinned_list) \ {e})
      BY <3>3, LruRemove DEF LruInv
    <3> QED
      BY <1>1, <3>2, <3>4, <3>5 DEF LruInv, Becomes
  <2> QED
    BY <2>1, <2>2
<1> QED
  BY <1>4, <1>5, <1>7 DEF r

-----------------------------------------------------------------------------
(* the ranges that are cut or added,                                       *)

(* An entry belongs to the list of its own area.                           *)
LEMMA ListedOwn ==
    ASSUME NEW lists, NEW e \in Listed(lists)
    PROVE  e \in EntriesOf(lists[e.asma], e.asma)
<1>1. PICK b \in Areas : e \in EntriesOf(lists[b], b)
  BY DEF Listed
<1>2. e.asma = b
  BY <1>1 DEF EntriesOf, OnLru
<1> QED
  BY <1>1, <1>2

(* Range q may be cut to r.                                                *)
CutTo(q, r) ==
    /\ r \in Ranges /\ r.purged = q.purged
    /\ q.pgstart <= r.pgstart /\ r.pgstart <= r.pgend /\ r.pgend <= q.pgend

(* The LRU list and a range that is cut, ...                               *)
LEMMA LruShrinks ==
    ASSUME NEW lists, NEW new, NEW a \in Areas, NEW l, l = lists[a],
           \A b \in Areas : b # a => new[b] = lists[b],
           NEW n \in Int, GoodList(l, n), NEW i \in 1 .. Len(l),
           NEW r, CutTo(l[i], r), new[a] = ReplaceAt(l, i, r),
           NEW lru, NEW count, LruOf(lru, count, Listed(lists))
    PROVE  /\ r.purged => LruOf(lru, count, Listed(new))
           /\ ~r.purged => \A k \in 1 .. Len(lru) : lru[k] = OnLru(a, l[i]) =>
                 LruOf(ReplaceAt(lru, k, OnLru(a, r)),
                       count - (range_size(l[i]) - range_size(r)), Listed(new))
<1> DEFINE d == OnLru(a, l[i])
           e == OnLru(a, r)
<1>1. l \in Seq(Ranges)
  BY DEF GoodList
<1>2. /\ l[i] \in Ranges /\ l[i].pgend >= l[i].pgstart - 1
      /\ r \in Ranges /\ r.purged = l[i].purged /\ r.pgend >= r.pgstart - 1
      /\ l[i].pgstart <= r.pgstart /\ r.pgstart <= r.pgend /\ r.pgend <= l[i].pgend
  <2>1. l[i] \in Ranges
    BY <1>1, ElementType
  <2>2. l[i].pgstart \in Int /\ l[i].pgend \in Int /\ l[i].pgend >= l[i].pgstart - 1
    BY <2>1, RangeType DEF GoodList
  <2>3. r \in Ranges /\ r.pgstart \in Int /\ r.pgend \in Int
    BY RangeType DEF CutTo
  <2> QED
    BY <2>1, <2>2, <2>3 DEF CutTo
<1>0. GoodList(new[a], n)
  BY <1>1, <1>2, ShrinkGood
<1>3. /\ e \in Entries /\ e.asma = a /\ range_size(e) = range_size(r)
      /\ d \in Entries /\ d.asma = a /\ range_size(d) = range_size(l[i])
  BY <1>2, OnLruType
<1>4. \A x : x \in EntriesOf(new[a], a) <=>
                \/ x \in EntriesOf(l, a) /\ (r.purged \/ x # d)
                \/ ~r.purged /\ x = e
  BY <1>1, <1>2, ReplaceEntries
<1>5. e \in EntriesOf(l, a) => e = d
  BY <1>0, <1>1, <1>2, ReplaceFresh
<1> HIDE DEF d, e
<1>6. CASE r.purged
  <2>1. Becomes(EntriesOf(l, a), EntriesOf(new[a], a), {}, {})
    BY <1>4, <1>6 DEF Becomes
  <2>2. Becomes(Listed(lists), Listed(new), {}, {})
    BY <2>1, ListedChange
  <2>3. Listed(new) = Listed(lists)
    BY <2>2 DEF Becomes
  <2> QED
    BY <1>6, <2>3
<1>7. CASE ~r.purged
  <2>1. Becomes(EntriesOf(l, a), EntriesOf(new[a], a), {d}, {e})
    BY <1>4, <1>7 DEF Becomes
  <2>2. Becomes(Listed(lists), Listed(new), {d}, {e})
    BY <1>3, <2>1, ListedChange
  <2>3. e \notin Listed(lists) \ {d}
    BY <1>3, <1>5, ListedOwn
  <2>4. ASSUME NEW k \in 1 .. Len(lru), lru[k] = d
        PROVE  LruOf(ReplaceAt(lru, k, e), count - (range_size(d) - range_size(e)), Listed(new))
    <3>1. LruOf(ReplaceAt(lru, k, e), count - (range_size(d) - range_size(e)),
                (Listed(lists) \ {d}) \cup {e})
      BY <1>3, <2>3, <2>4, LruReplace
    <3> QED
      BY <2>2, <3>1 DEF Becomes
  <2> QED
    BY <1>3, <1>7, <2>4 DEF d, e
<1> QED
  BY <1>6, <1>7

(* ... and one that is added.                                              *)
LEMMA LruGrows ==
    ASSUME NEW lists, NEW new, NEW a \in Areas, NEW l \in Seq(Ranges), l = lists[a],
           \A b \in Areas : b # a => new[b] = lists[b],
           NEW n, NEW i \in 1 .. Len(l) + 1, NEW r \in Ranges, r.pgend >= r.pgstart - 1,
           new[a] = InsertAt(l, i, r), GoodList(new[a], n),
           NEW lru, NEW count, LruOf(lru, count, Listed(lists))
    PROVE  /\ r.purged => LruOf(lru, count, Listed(new))
           /\ ~r.purged => LruOf(Append(lru, OnLru(a, r)), count + range_size(r), Listed(new))
<1> DEFINE e == OnLru(a, r)
<1>1. e \in Entries /\ e.asma = a /\ range_size(e) = range_size(r)
  BY OnLruType
<1>2. \A x : x \in EntriesOf(new[a], a) <=> x \in EntriesOf(l, a) \/ (~r.purged /\ x = e)
  BY InsertEntries
<1>3. e \notin EntriesOf(l, a)
  BY InsertFresh
<1> HIDE DEF e
<1>4. CASE r.purged
  <2>1. Becomes(EntriesOf(l, a), EntriesOf(new[a], a), {}, {})
    BY <1>2, <1>4 DEF Becomes
  <2>2. Becomes(Listed(lists), Listed(new), {}, {})
    BY <2>1, ListedChange
  <2>3. Listed(new) = Listed(lists)
    BY <2>2 DEF Becomes
  <2> QED
    BY <1>4, <2>3
<1>5. CASE ~r.purged
  <2>1. Becomes(EntriesOf(l, a), EntriesOf(new[a], a), {}, {e})
    BY <1>2, <1>5 DEF Becomes
  <2>2. Becomes(Listed(lists), Listed(new), {}, {e})
    BY <2>1, ListedChange
  <2>3. Listed(new) = Listed(lists) \cup {e}
    BY <2>2 DEF Becomes
  <2>4. e \notin Listed(lists)
    BY <1>1, <1>3, ListedOwn
  <2>5. LruOf(Append(lru, e), count + range_size(e), Listed(lists) \cup {e})
    BY <1>1, <2>4, LruAppend
  <2> QED
    BY <1>1, <1>5, <2>3, <2>5 DEF e
<1> QED
  BY <1>4, <1>5

-----------------------------------------------------------------------------
(* range_shrink and range_alloc,                                           *)

(* The pages of range q outside start..end are in P.                       *)
CutOff(q, start, end, P) ==
    \A p \in Int : q.pgstart <= p /\ p <= q.pgend /\ p \notin P => start <= p /\ p <= end

(* range_shrink keeps the lists, and removes what is cut off.              *)
LEMMA ShrinkStep ==
    ASSUME AreaInv, ListInv, LruInv, NEW a \in Areas, NEW i \in 1 .. Len(unpinned_list[a]),
           NEW start \in Nat, NEW end \in Int, range_shrink(a, i, start, end),
           UNCHANGED areaVars,
           unpinned_list[a][i].pgstart <= start, start <= end,
           end <= unpinned_list[a][i].pgend,
           NEW P, CutOff(unpinned_list[a][i], start, end, P)
    PROVE  /\ ListInv' /\ LruInv'
           /\ \A b \in Areas : b # a => unpinned_list'[b] = unpinned_list[b]
           /\ Keeps(unpinned_list[a], unpinned_list'[a], P)
<1> DEFINE l == unpinned_list[a]
           r == l[i]
           new == [r EXCEPT !.pgstart = start, !.pgend = end]
           m == ReplaceAt(l, i, new)
<1>1. /\ MaxSize \in Nat /\ file[a] /\ GoodList(l, MaxSize) /\ l \in Seq(Ranges)
      /\ r \in Ranges /\ r.pgend >= r.pgstart - 1
  BY RangeFacts
<1>2. /\ new \in Ranges /\ new.pgstart = start /\ new.pgend = end
      /\ new.purged = r.purged
  BY <1>1 DEF Ranges
<1>3. unpinned_list' = [unpinned_list EXCEPT ![a] = m]
  BY DEF range_shrink
<1>4. /\ r.purged => UNCHANGED <<ashmem_lru_list, lru_count>>
      /\ ~r.purged =>
           /\ ashmem_lru_list' = ReplaceAt(ashmem_lru_list, LruIndex(a, r), OnLru(a, new))
           /\ lru_count' = lru_count - (range_size(r) - range_size(new))
  BY DEF range_shrink, range_on_lru, Shrunk
<1>5. r.pgstart <= start /\ start <= end /\ end <= r.pgend
  OBVIOUS
<1>6. \A p \in Int : r.pgstart <= p /\ p <= r.pgend /\ p \notin P => start <= p /\ p <= end
  BY DEF CutOff
<1>7. ~r.purged => /\ LruIndex(a, r) \in 1 .. Len(ashmem_lru_list)
                   /\ ashmem_lru_list[LruIndex(a, r)] = OnLru(a, r)
  BY LruIndexResult
<1> HIDE DEF new
<1>8. GoodList(m, MaxSize)
  BY <1>1, <1>2, <1>5, ShrinkGood
<1>9. Keeps(l, m, P)
  BY <1>1, <1>2, <1>5, <1>6, ShrinkPages
<1>10. /\ ListInv' /\ unpinned_list'[a] = m
       /\ \A b \in Areas : b # a => unpinned_list'[b] = unpinned_list[b]
  <2> HIDE DEF m
  <2> QED
    BY <1>1, <1>3, <1>8, ListChange
<1>11. /\ new.purged => LruOf(ashmem_lru_list, lru_count, Listed(unpinned_list'))
       /\ ~new.purged => \A k \in 1 .. Len(ashmem_lru_list) : ashmem_lru_list[k] = OnLru(a, r) =>
             LruOf(ReplaceAt(ashmem_lru_list, k, OnLru(a, new)),
                   lru_count - (range_size(r) - range_size(new)), Listed(unpinned_list'))
  <2>1. CutTo(l[i], new)
    BY <1>2, <1>5 DEF CutTo
  <2>2. LruOf(ashmem_lru_list, lru_count, Listed(unpinned_list))
    BY DEF LruInv
  <2>3. /\ l = unpinned_list[a] /\ unpinned_list'[a] = ReplaceAt(l, i, new)
        /\ i \in 1 .. Len(l) /\ r = l[i] /\ MaxSize \in Int
    BY <1>1, <1>10
  <2> HIDE DEF l, r, m
  <2> QED
    BY <1>1, <1>10, <2>1, <2>2, <2>3, LruShrinks
<1>12. LruInv'
  <2> HIDE DEF l, r, m
  <2>1. CASE r.purged
    BY <1>2, <1>4, <1>11, <2>1 DEF LruInv
  <2>2. CASE ~r.purged
    BY <1>2, <1>4, <1>7, <1>11, <2>2 DEF LruInv
  <2> QED
    BY <2>1, <2>2
<1> QED
  BY <1>9, <1>10, <1>12

(* range_alloc keeps the lists where there is room.                        *)
LEMMA AllocStep ==
    ASSUME AreaInv, ListInv, LruInv, NEW a \in Areas, file[a], NEW r \in Ranges,
           NEW i \in 1 .. Len(unpinned_list[a]) + 1,
           range_alloc(a, i, r), UNCHANGED areaVars, r.pgend >= r.pgstart - 1,
           GoodList(InsertAt(unpinned_list[a], i, r), MaxSize)
    PROVE  /\ ListInv' /\ LruInv'
           /\ unpinned_list'[a] = InsertAt(unpinned_list[a], i, r)
           /\ \A b \in Areas : b # a => unpinned_list'[b] = unpinned_list[b]
<1> DEFINE l == unpinned_list[a]
           m == InsertAt(l, i, r)
<1>1. l \in Seq(Ranges)
  BY DEF ListInv
<1>2. unpinned_list' = [unpinned_list EXCEPT ![a] = m]
  BY DEF range_alloc
<1>3. /\ r.purged => UNCHANGED <<ashmem_lru_list, lru_count>>
      /\ ~r.purged => /\ ashmem_lru_list' = Append(ashmem_lru_list, OnLru(a, r))
                      /\ lru_count' = lru_count + range_size(r)
  BY DEF range_alloc, range_on_lru
<1>4. /\ ListInv' /\ unpinned_list'[a] = m
      /\ \A b \in Areas : b # a => unpinned_list'[b] = unpinned_list[b]
  <2>1. GoodList(m, MaxSize)
    OBVIOUS
  <2> HIDE DEF m
  <2> QED
    BY <1>2, <2>1, ListChange
<1>5. /\ r.purged => LruOf(ashmem_lru_list, lru_count, Listed(unpinned_list'))
      /\ ~r.purged => LruOf(Append(ashmem_lru_list, OnLru(a, r)),
                            lru_count + range_size(r), Listed(unpinned_list'))
  <2>1. LruOf(ashmem_lru_list, lru_count, Listed(unpinned_list))
    BY DEF LruInv
  <2>2. /\ l = unpinned_list[a] /\ unpinned_list'[a] = InsertAt(l, i, r)
        /\ GoodList(unpinned_list'[a], MaxSize) /\ i \in 1 .. Len(l) + 1
    BY <1>4
  <2> HIDE DEF l, m
  <2> QED
    BY <1>1, <1>4, <2>1, <2>2, LruGrows
<1>6. LruInv'
  BY <1>3, <1>5 DEF LruInv
<1> QED
  BY <1>4, <1>6

-----------------------------------------------------------------------------
(* a range cut in two,                                                     *)

(* A list on which a range is cut in two is good, and keeps the other      *)
(* pages.                                                                  *)
LEMMA SplitGood ==
    ASSUME NEW l, NEW n \in Int, GoodList(l, n), NEW i \in 1 .. Len(l), NEW low, NEW high,
           CutTo(l[i], low), CutTo(l[i], high), NEW start \in Int, NEW end \in Int,
           start - 1 <= end, low.pgstart = l[i].pgstart, low.pgend = start - 1,
           high.pgstart = end + 1, high.pgend = l[i].pgend
    PROVE  LET m == ReplaceAt(l, i, low)
           IN  /\ GoodList(m, n) /\ GoodList(InsertAt(m, i, high), n)
               /\ Keeps(l, InsertAt(m, i, high), start .. end)
<1> DEFINE m == ReplaceAt(l, i, low)
           new == InsertAt(m, i, high)
<1>1. l \in Seq(Ranges)
  BY DEF GoodList
<1>2. /\ Len(l) \in Nat
      /\ \A k \in 1 .. Len(l) : l[k].pgstart \in Int /\ l[k].pgend \in Int
  BY <1>1, ElementType
<1>3. /\ low \in Ranges /\ high \in Ranges
      /\ low.purged = l[i].purged /\ high.purged = l[i].purged
      /\ l[i].pgstart <= low.pgstart /\ low.pgstart <= low.pgend /\ low.pgend <= l[i].pgend
      /\ l[i].pgstart <= high.pgstart /\ high.pgstart <= high.pgend
  BY DEF CutTo
<1>4. low.pgstart \in Int /\ low.pgend \in Int /\ high.pgstart \in Int /\ high.pgend \in Int
  BY <1>3, RangeType
<1>5. GoodList(m, n)
  BY <1>3, ShrinkGood
<1>6. /\ m \in Seq(Ranges) /\ Len(m) = Len(l) /\ m[i] = low
      /\ \A k \in 1 .. Len(l) : k # i => m[k] = l[k]
  BY <1>1, <1>3, <1>5, ReplacedRange DEF GoodList
<1>7. \A p \in Int : l[i].pgstart <= p /\ p <= l[i].pgend /\ p \notin start .. l[i].pgend
                        => low.pgstart <= p /\ p <= low.pgend
  BY <1>2, <1>4
<1>8. Keeps(l, m, start .. l[i].pgend)
  BY <1>1, <1>3, <1>7, ShrinkPages
<1> HIDE DEF m
<1>9. GoodList(new, n)
  <2>1. high.pgstart <= n /\ high.pgend \in high.pgstart - 1 .. n - 1
    BY <1>2, <1>3, <1>4 DEF GoodList
  <2>2. ASSUME NEW k \in 1 .. Len(m), k < i
        PROVE  m[k].pgstart > high.pgend
    BY <1>2, <1>6, <2>2 DEF GoodList
  <2>3. ASSUME NEW k \in 1 .. Len(m), k >= i
        PROVE  high.pgstart > m[k].pgend
    <3>1. CASE k = i
      BY <1>4, <1>6, <3>1
    <3>2. CASE k > i
      <4>1. m[k] = l[k] /\ l[i].pgstart > l[k].pgend
        BY <1>2, <1>6, <3>2 DEF GoodList
      <4> QED
        BY <1>2, <1>3, <1>4, <1>6, <4>1
    <3> QED
      BY <1>2, <2>3, <3>1, <3>2
  <2>4. i \in 1 .. Len(m) + 1 /\ ~(high.pgend < high.pgstart)
    BY <1>2, <1>3, <1>4, <1>6
  <2> QED
    BY <1>3, <1>5, <2>1, <2>2, <2>3, <2>4, InsertGood
<1>10. ASSUME NEW p \in Int
       PROVE  /\ Has(new, p) <=> Has(m, p) \/ (high.pgstart <= p /\ p <= high.pgend)
              /\ HasPurged(new, p) <=>
                    HasPurged(m, p) \/ (high.purged /\ high.pgstart <= p /\ p <= high.pgend)
  <2>1. i \in 1 .. Len(m) + 1
    BY <1>2, <1>6
  <2> QED
    BY <1>3, <1>6, <2>1, InsertPages
<1> HIDE DEF new
<1>11. ASSUME NEW p \in Int
       PROVE  Has(new, p) => Has(l, p)
  <2>1. Has(m, p) => Has(l, p)
    BY <1>8 DEF Keeps
  <2>2. high.pgstart <= p /\ p <= high.pgend => Has(l, p)
    BY <1>2, <1>3, <1>4 DEF Has
  <2> QED
    BY <1>10, <2>1, <2>2
<1>12. ASSUME NEW p \in Int, Has(l, p), p \notin start .. end
       PROVE  Has(new, p)
  <2>1. CASE p \in start .. l[i].pgend
    BY <1>2, <1>4, <1>10, <1>12, <2>1
  <2>2. CASE p \notin start .. l[i].pgend
    BY <1>8, <1>10, <1>12, <2>2 DEF Keeps
  <2> QED
    BY <2>1, <2>2
<1>13. ASSUME NEW p \in Int, HasPurged(l, p), p \notin start .. end
       PROVE  HasPurged(new, p)
  <2>1. CASE p \in start .. l[i].pgend
    <3>1. PICK k \in 1 .. Len(l) : l[k].purged /\ l[k].pgstart <= p /\ p <= l[k].pgend
      BY <1>13 DEF HasPurged
    <3>2. l[i].pgstart <= p /\ p <= l[i].pgend /\ high.pgstart <= p /\ p <= high.pgend
      BY <1>2, <1>3, <1>4, <1>13, <2>1
    <3>3. k = i
      <4>1. k < i => l[k].pgstart > l[i].pgend
        BY DEF GoodList
      <4>2. i < k => l[i].pgstart > l[k].pgend
        BY DEF GoodList
      <4> QED
        BY <1>2, <3>1, <3>2, <4>1, <4>2
    <3>4. high.purged
      BY <1>3, <3>1, <3>3
    <3> QED
      BY <1>10, <3>2, <3>4
  <2>2. CASE p \notin start .. l[i].pgend
    BY <1>8, <1>10, <1>13, <2>2 DEF Keeps
  <2> QED
    BY <2>1, <2>2
<1>14. Keeps(l, new, start .. end)
  BY <1>11, <1>12, <1>13 DEF Keeps
<1> QED
  BY <1>5, <1>9, <1>14 DEF m, new

(* A range is cut in two.                                                  *)
LEMMA SplitStep ==
    ASSUME AreaInv, ListInv, LruInv, NEW a \in Areas, NEW i \in 1 .. Len(unpinned_list[a]),
           NEW start \in Int, NEW end \in Int, Split(a, i, start, end), UNCHANGED areaVars,
           unpinned_list[a][i].pgstart < start, start - 1 <= end,
           end < unpinned_list[a][i].pgend
    PROVE  /\ ListInv' /\ LruInv'
           /\ \A b \in Areas : b # a => unpinned_list'[b] = unpinned_list[b]
           /\ Keeps(unpinned_list[a], unpinned_list'[a], start .. end)
<1> DEFINE l == unpinned_list[a]
           r == l[i]
           low == [r EXCEPT !.pgend = start - 1]
           high == [r EXCEPT !.pgstart = end + 1]
           m == ReplaceAt(l, i, low)
           new == InsertAt(m, i, high)
           mid == [unpinned_list EXCEPT ![a] = m]
           k == LruIndex(a, r)
<1>1. /\ MaxSize \in Nat /\ file[a] /\ GoodList(l, MaxSize) /\ l \in Seq(Ranges)
      /\ r \in Ranges /\ r.pgstart \in Nat /\ r.pgend \in Int
  BY RangeFacts
<1>2. /\ r.pgstart < start /\ end < r.pgend
  OBVIOUS
<1>3. /\ low \in Ranges /\ low.pgstart = r.pgstart /\ low.pgend = start - 1
      /\ low.purged = r.purged
      /\ high \in Ranges /\ high.pgstart = end + 1 /\ high.pgend = r.pgend
      /\ high.purged = r.purged
  <2>1. start - 1 \in Int /\ end + 1 \in Nat
    BY <1>1, <1>2
  <2>2. /\ low \in Ranges /\ low.pgstart = r.pgstart /\ low.pgend = start - 1
        /\ low.purged = r.purged
    BY <1>1, <2>1 DEF Ranges
  <2>3. /\ high \in Ranges /\ high.pgstart = end + 1 /\ high.pgend = r.pgend
        /\ high.purged = r.purged
    BY <1>1, <2>1 DEF Ranges
  <2> HIDE DEF low, high
  <2> QED
    BY <2>2, <2>3
<1>4. unpinned_list' = [unpinned_list EXCEPT ![a] = new]
  BY DEF Split
<1>5. /\ r.purged => UNCHANGED <<ashmem_lru_list, lru_count>>
      /\ ~r.purged =>
           /\ ashmem_lru_list' = Append(ReplaceAt(ashmem_lru_list, k, OnLru(a, low)),
                                        OnLru(a, high))
           /\ lru_count' = lru_count + range_size(high) - (range_size(r) - range_size(low))
  BY DEF Split, range_on_lru, Shrunk
<1>6. ~r.purged => /\ k \in 1 .. Len(ashmem_lru_list)
                   /\ ashmem_lru_list[k] = OnLru(a, r)
  BY LruIndexResult
<1> HIDE DEF low, high, k
<1>7. CutTo(r, low) /\ CutTo(r, high)
  BY <1>1, <1>2, <1>3 DEF CutTo
<1>8. /\ GoodList(m, MaxSize) /\ GoodList(new, MaxSize)
      /\ Keeps(l, new, start .. end)
  <2>1. i \in 1 .. Len(l) /\ r = l[i] /\ MaxSize \in Int
    BY <1>1
  <2> HIDE DEF l, r
  <2> QED
    BY <1>1, <1>3, <1>7, <2>1, SplitGood
<1>9. mid[a] = m /\ \A b \in Areas : b # a => mid[b] = unpinned_list[b]
  BY DEF ListInv
<1>10. Len(m) = Len(l) /\ m \in Seq(Ranges)
  BY <1>1, <1>3, <1>8, ReplacedRange DEF GoodList
<1>11. /\ ListInv' /\ unpinned_list'[a] = new
       /\ \A b \in Areas : b # a => unpinned_list'[b] = unpinned_list[b]
  <2> HIDE DEF new
  <2> QED
    BY <1>1, <1>4, <1>8, ListChange
<1> HIDE DEF mid
<1>12. /\ low.purged => LruOf(ashmem_lru_list, lru_count, Listed(mid))
       /\ ~low.purged => \A j \in 1 .. Len(ashmem_lru_list) : ashmem_lru_list[j] = OnLru(a, r) =>
             LruOf(ReplaceAt(ashmem_lru_list, j, OnLru(a, low)),
                   lru_count - (range_size(r) - range_size(low)), Listed(mid))
  <2>1. LruOf(ashmem_lru_list, lru_count, Listed(unpinned_list))
    BY DEF LruInv
  <2>2. /\ l = unpinned_list[a] /\ mid[a] = ReplaceAt(l, i, low)
        /\ i \in 1 .. Len(l) /\ r = l[i] /\ MaxSize \in Int
    BY <1>1, <1>9
  <2> HIDE DEF l, r, m
  <2> QED
    BY <1>1, <1>7, <1>9, <2>1, <2>2, LruShrinks
<1>13. ASSUME NEW lru, NEW count, LruOf(lru, count, Listed(mid))
       PROVE  /\ high.purged => LruOf(lru, count, Listed(unpinned_list'))
              /\ ~high.purged => LruOf(Append(lru, OnLru(a, high)),
                                       count + range_size(high), Listed(unpinned_list'))
  <2>1. /\ m = mid[a] /\ unpinned_list'[a] = InsertAt(m, i, high)
        /\ GoodList(unpinned_list'[a], MaxSize) /\ i \in 1 .. Len(m) + 1
    BY <1>8, <1>9, <1>10, <1>11
  <2>2. \A b \in Areas : b # a => unpinned_list'[b] = mid[b]
    BY <1>9, <1>11
  <2>3. high.pgend >= high.pgstart - 1
    BY <1>1, <1>2, <1>3
  <2> HIDE DEF l, r, m, new
  <2> QED
    BY <1>3, <1>10, <1>13, <2>1, <2>2, <2>3, LruGrows
<1>14. LruInv'
  <2> HIDE DEF l, r, m, new
  <2>1. CASE r.purged
    BY <1>3, <1>5, <1>12, <1>13, <2>1 DEF LruInv
  <2>2. CASE ~r.purged
    <3> DEFINE cut == ReplaceAt(ashmem_lru_list, k, OnLru(a, low))
               left == lru_count - (range_size(r) - range_size(low))
    <3>1. LruOf(cut, left, Listed(mid))
      BY <1>3, <1>6, <1>12, <2>2
    <3>2. LruOf(Append(cut, OnLru(a, high)), left + range_size(high), Listed(unpinned_list'))
      BY <1>3, <1>13, <2>2, <3>1
    <3>3. /\ lru_count \in Int /\ range_size(r) \in Int /\ range_size(low) \in Int
          /\ range_size(high) \in Int
      <4>1. lru_count \in Int
        BY LruFinite DEF LruInv
      <4>2. /\ r.pgstart \in Int /\ r.pgend \in Int /\ low.pgstart \in Int
            /\ low.pgend \in Int /\ high.pgstart \in Int /\ high.pgend \in Int
        BY <1>1, <1>3
      <4>3. \A q : q.pgstart \in Int /\ q.pgend \in Int => range_size(q) \in Int
        BY DEF range_size
      <4> QED
        BY <4>1, <4>2, <4>3, Zenon
    <3>4. left + range_size(high) = lru_count'
      BY <1>5, <2>2, <3>3
    <3> HIDE DEF left
    <3> QED
      BY <1>5, <2>2, <3>2, <3>4 DEF LruInv
  <2> QED
    BY <2>1, <2>2
<1> QED
  BY <1>8, <1>11, <1>14

-----------------------------------------------------------------------------
(* and ashmem_shrink.                                                      *)

(* The list after ashmem_shrink has purged the range of entry e.           *)
Purge(l, a, e) == [i \in DOMAIN l |-> IF OnLru(a, l[i]) = e
                                      THEN [l[i] EXCEPT !.purged = TRUE] ELSE l[i]]

(* It differs in that range only, which keeps its place and its pages.     *)
LEMMA PurgeGood ==
    ASSUME NEW l, NEW n \in Int, GoodList(l, n), NEW a, NEW e \in EntriesOf(l, a)
    PROVE  LET m == Purge(l, a, e)
           IN  /\ GoodList(m, n)
               /\ Becomes(EntriesOf(l, a), EntriesOf(m, a), {e}, {})
               /\ \A p \in Int : Has(m, p) <=> Has(l, p)
               /\ \A p \in Int : HasPurged(l, p) => HasPurged(m, p)
               /\ \A p \in PagesOf(e) : HasPurged(m, p)
<1> DEFINE m == Purge(l, a, e)
<1>1. l \in Seq(Ranges)
  BY DEF GoodList
<1>2. Len(l) \in Nat /\ DOMAIN l = 1 .. Len(l) /\ \A k \in 1 .. Len(l) : l[k] \in Ranges
  BY <1>1, ElementType
<1>3. PICK i \in 1 .. Len(l) : ~l[i].purged /\ e = OnLru(a, l[i])
  BY DEF EntriesOf
<1>4. \A k \in 1 .. Len(l) : OnLru(a, l[k]) = e <=> k = i
  BY <1>3, OnLruSame DEF GoodList
<1> DEFINE r == [l[i] EXCEPT !.purged = TRUE]
<1>5. r \in Ranges /\ r.purged /\ Same(r, l[i])
  <2>1. l[i] \in Ranges
    BY <1>2
  <2> QED
    BY <2>1 DEF Ranges, Same
<1>6. m[i] = r /\ \A k \in 1 .. Len(l) : k # i => m[k] = l[k]
  BY <1>2, <1>4 DEF Purge
<1> HIDE DEF r
<1>7. /\ m \in Seq(Ranges) /\ Len(m) = Len(l)
  <2>1. m = [k \in 1 .. Len(l) |-> m[k]]
    BY <1>2 DEF Purge
  <2>2. \A k \in 1 .. Len(l) : m[k] \in Ranges
    BY <1>2, <1>5, <1>6
  <2> HIDE DEF m
  <2>3. m \in [1 .. Len(l) -> Ranges]
    BY <2>1, <2>2, Zenon
  <2> QED
    BY <1>2, <2>3
<1> HIDE DEF m
<1>8. ASSUME NEW k \in 1 .. Len(l)
      PROVE  /\ m[k].pgstart = l[k].pgstart /\ m[k].pgend = l[k].pgend /\ m[k].tag = l[k].tag
             /\ l[k].purged => m[k].purged
             /\ ~m[k].purged => ~l[k].purged /\ k # i /\ m[k] = l[k]
  <2>1. CASE k = i
    BY <1>5, <1>6, <2>1 DEF Same
  <2>2. CASE k # i
    BY <1>6, <2>2
  <2> QED
    BY <2>1, <2>2
<1>9. GoodList(m, n)
  BY <1>7, <1>8 DEF GoodList, Same
<1>10. Becomes(EntriesOf(l, a), EntriesOf(m, a), {e}, {})
  <2>1. ASSUME NEW x \in EntriesOf(m, a)
        PROVE  x \in EntriesOf(l, a) /\ x # e
    <3>1. PICK k \in 1 .. Len(l) : ~m[k].purged /\ x = OnLru(a, m[k])
      BY <1>7 DEF EntriesOf
    <3>2. ~l[k].purged /\ k # i /\ m[k] = l[k]
      BY <1>8, <3>1
    <3> QED
      BY <1>4, <3>1, <3>2 DEF EntriesOf
  <2>2. ASSUME NEW x \in EntriesOf(l, a), x # e
        PROVE  x \in EntriesOf(m, a)
    <3>1. PICK k \in 1 .. Len(l) : ~l[k].purged /\ x = OnLru(a, l[k])
      BY DEF EntriesOf
    <3>2. k # i
      BY <1>3, <2>2, <3>1
    <3>3. m[k] = l[k]
      BY <1>6, <3>2
    <3> QED
      BY <1>7, <3>1, <3>3 DEF EntriesOf
  <2> QED
    BY <2>1, <2>2 DEF Becomes
<1>11. \A p \in Int : Has(m, p) <=> Has(l, p)
  BY <1>7, <1>8 DEF Has
<1>12. \A p \in Int : HasPurged(l, p) => HasPurged(m, p)
  BY <1>7, <1>8 DEF HasPurged
<1>13. ASSUME NEW p \in PagesOf(e)
       PROVE  HasPurged(m, p)
  <2>1. l[i].pgstart \in Int /\ l[i].pgend \in Int
    BY <1>2, RangeType
  <2>2. e.pgstart = l[i].pgstart /\ e.pgend = l[i].pgend
    BY <1>3 DEF OnLru
  <2>3. m[i].purged
    BY <1>5, <1>6
  <2>4. m[i].pgstart = l[i].pgstart /\ m[i].pgend = l[i].pgend
    BY <1>8
  <2>5. m[i].pgstart <= p /\ p <= m[i].pgend
    BY <2>1, <2>2, <2>4 DEF PagesOf
  <2> QED
    BY <1>7, <2>3, <2>5 DEF HasPurged
<1> QED
  BY <1>9, <1>10, <1>11, <1>12, <1>13 DEF m

(* An iteration of ashmem_shrink purges the range at the head.             *)
LEMMA PurgeStep ==
    ASSUME AreaInv, ListInv, LruInv, ashmem_lru_list # <<>>, ShrinkRange
    PROVE  LET e == Head(ashmem_lru_list)
               a == e.asma
           IN  /\ ListInv' /\ LruInv' /\ a \in Areas
               /\ \A b \in Areas : b # a => unpinned_list'[b] = unpinned_list[b]
               /\ \A p \in Int : Has(unpinned_list'[a], p) <=> Has(unpinned_list[a], p)
               /\ \A p \in Int : HasPurged(unpinned_list[a], p) => HasPurged(unpinned_list'[a], p)
               /\ \A p \in PagesOf(e) : p \in Int /\ HasPurged(unpinned_list'[a], p)
               /\ Len(ashmem_lru_list) # 1 => ashmem_lru_list' # <<>>
<1> DEFINE e == Head(ashmem_lru_list)
           a == e.asma
           l == unpinned_list[a]
           m == Purge(l, a, e)
<1>1. LruOf(ashmem_lru_list, lru_count, Listed(unpinned_list))
  BY DEF LruInv
<1>2. /\ 1 \in 1 .. Len(ashmem_lru_list) /\ e = ashmem_lru_list[1]
      /\ LruOf(Tail(ashmem_lru_list), lru_count - range_size(e), Listed(unpinned_list) \ {e})
      /\ Len(ashmem_lru_list) # 1 => Tail(ashmem_lru_list) # <<>>
  BY <1>1, LruTail
<1>3. /\ unpinned_list' = [unpinned_list EXCEPT ![a] = m]
      /\ ashmem_lru_list' = Tail(ashmem_lru_list) /\ lru_count' = lru_count - range_size(e)
      /\ UNCHANGED areaVars
  BY DEF ShrinkRange, Purge
<1> HIDE DEF e
<1>4. e \in Entries /\ e \in Listed(unpinned_list)
  BY <1>1, <1>2, LruFinite
<1>5. a \in Areas /\ \A p \in PagesOf(e) : p \in Int
  BY <1>4 DEF Entries, PagesOf
<1>6. e \in EntriesOf(l, a)
  BY <1>4, ListedOwn
<1>7. GoodList(l, MaxSize) /\ MaxSize \in Int
  BY <1>5, AshmemAssumption DEF ListInv, AreaInv
<1> HIDE DEF a
<1>8. /\ GoodList(m, MaxSize)
      /\ Becomes(EntriesOf(l, a), EntriesOf(m, a), {e}, {})
      /\ \A p \in Int : Has(m, p) <=> Has(l, p)
      /\ \A p \in Int : HasPurged(l, p) => HasPurged(m, p)
      /\ \A p \in PagesOf(e) : HasPurged(m, p)
  <2> HIDE DEF l
  <2> QED
    BY <1>6, <1>7, PurgeGood
<1>9. file[a]
  <2>1. PICK i \in 1 .. Len(l) : TRUE
    BY <1>6 DEF EntriesOf
  <2> QED
    BY <1>5, <2>1, RangeFacts
<1> HIDE DEF m
<1>10. /\ ListInv' /\ unpinned_list'[a] = m
       /\ \A b \in Areas : b # a => unpinned_list'[b] = unpinned_list[b]
  BY <1>3, <1>5, <1>8, <1>9, ListChange
<1>11. Becomes(Listed(unpinned_list), Listed(unpinned_list'), {e}, {})
  BY <1>5, <1>8, <1>10, ListedChange DEF a
<1>12. LruInv'
  <2>1. Listed(unpinned_list') = Listed(unpinned_list) \ {e}
    BY <1>11 DEF Becomes
  <2> QED
    BY <1>2, <1>3, <2>1 DEF LruInv
<1> QED
  BY <1>2, <1>3, <1>5, <1>8, <1>10, <1>12 DEF a, e

-----------------------------------------------------------------------------
(* The inductive invariant, and the calls that touch no list.              *)

(* The local variables of a call, ...                                      *)
Calls == [op : {"none", "pin", "unpin", "release", "shrink"}, asma : Areas \cup {"none"},
          pgstart : Int, pgend : Int, purged : BOOLEAN, nr_to_scan : Int, req : SUBSET Int]

(* ... and those of a walk: its request lies inside a size that the area   *)
(* has had, and while ashmem_unpin makes it grow by the ranges it merges,  *)
(* it grows by pages that were given up before.                            *)
RequestOK ==
    /\ call.asma \in Areas /\ file[call.asma]
    /\ call.pgstart >= 0 /\ call.pgend >= call.pgstart - 1
    /\ call.pgend <= MaxSize - 1
    /\ call.op = "pin" => call.req = call.pgstart .. call.pgend
    /\ call.op = "unpin" =>
          /\ call.req \subseteq call.pgstart .. call.pgend
          /\ call.pgstart .. call.pgend \subseteq call.req \cup given_up[call.asma]

(* The shrinker goes on only while there is a range to purge.              *)
CallInv ==
    /\ call \in Calls
    /\ call.op = "none" => call = NoCall
    /\ call.op = "release" => call.asma \in Areas
    /\ call.op = "shrink" => ashmem_lru_list # <<>>
    /\ call.op \in {"pin", "unpin"} => RequestOK

(* User space can only give up pages of an area with its file, and only    *)
(* pages given up are purged.                                              *)
HistInv ==
    /\ given_up \in [Areas -> SUBSET Int] /\ lost \in [Areas -> SUBSET Int]
    /\ alloc_failed \in BOOLEAN
    /\ \A a \in Areas : /\ given_up[a] \subseteq 0 .. MaxSize - 1 /\ lost[a] \subseteq given_up[a]
                        /\ given_up[a] # {} => file[a]

(* Page p is in the request of the call, as it has grown.                  *)
Within(p) == call.pgstart <= p /\ p <= call.pgend

(* A call has taken page p off the list of area a, or may have: when it    *)
(* ends the page is pinned, or is on the list again.                       *)
Waits(a, p) ==
    /\ call.asma = a
    /\ \/ call.op = "release"
       \/ call.op \in {"pin", "unpin"} /\ Within(p)

(* The call knows that page p may have been purged: a PIN will return it,  *)
(* and an UNPIN that has merged the page's range gives it to the new one.  *)
Reports(a, p) ==
    /\ call.asma = a
    /\ \/ call.op = "release"
       \/ call.op = "pin" /\ Within(p) /\ call.purged
       \/ call.op = "unpin" /\ Within(p) /\ call.purged /\ ~Has(unpinned_list[a], p)

(* The pages on the list of an area are pages given up; all of them, but   *)
(* for those that a call is dealing with; and a purged page is in a range  *)
(* marked so, or the call under way knows.                                 *)
OnlyGiven(a) == \A p \in Int : Has(unpinned_list[a], p) => p \in given_up[a]
AllGiven(a) == \A p \in given_up[a] : Has(unpinned_list[a], p) \/ Waits(a, p)
AllLost(a) == \A p \in lost[a] : HasPurged(unpinned_list[a], p) \/ Reports(a, p)

(* The first holds always, the others until an allocation fails.           *)
PageInv ==
    \A a \in Areas : OnlyGiven(a) /\ (~alloc_failed => AllGiven(a) /\ AllLost(a))

(* The inductive invariant.                                                *)
AshInv == AreaInv /\ ListInv /\ LruInv /\ CallInv /\ HistInv /\ PageInv

(* No call.                                                                *)
LEMMA NoCallType ==
    NoCall \in Calls /\ NoCall.op = "none"
  BY DEF NoCall, Calls

(* An area without ranges.                                                 *)
LEMMA EmptyGood ==
    ASSUME NEW n \in Int
    PROVE  GoodList(<<>>, n) /\ \A p : ~Has(<<>>, p)
<1>1. <<>> \in Seq(Ranges) /\ Len(<<>>) = 0
  BY EmptySeq
<1>2. 1 .. Len(<<>>) = {}
  BY <1>1
<1> QED
  BY <1>1, <1>2 DEF GoodList, Has

(* It holds at the start.                                                  *)
LEMMA AshInitInv ==
    AshInit => AshInv
<1> SUFFICES ASSUME AshInit
             PROVE  AshInv
  OBVIOUS
<1>1. AreaInv
  BY AshmemAssumption DEF AshInit, AreaInv
<1>2. ListInv
  <2>1. \A a \in Areas : unpinned_list[a] = <<>>
    BY DEF AshInit
  <2>2. unpinned_list \in [Areas -> Seq(Ranges)]
    BY EmptySeq DEF AshInit
  <2> QED
    BY <2>1, <2>2, EmptyGood, AshmemAssumption DEF ListInv
<1>3. LruInv
  <2>1. 1 .. Len(<<>>) = {} /\ <<>> \in Seq(Entries)
    BY EmptySeq
  <2>2. Listed(unpinned_list) = {}
    <3>1. \A a \in Areas : unpinned_list[a] = <<>>
      BY DEF AshInit
    <3> QED
      BY <2>1, <3>1 DEF Listed, EntriesOf
  <2>3. TotalSize({}) = 0
    BY FS_EmptySet, TotalSizeStep
  <2> QED
    BY <2>1, <2>2, <2>3 DEF LruInv, LruOf, AshInit
<1>4. CallInv
  BY NoCallType DEF AshInit, CallInv
<1>5. HistInv
  BY DEF AshInit, HistInv
<1>6. PageInv
  <2>1. \A a \in Areas : unpinned_list[a] = <<>> /\ given_up[a] = {} /\ lost[a] = {}
    BY DEF AshInit
  <2> QED
    BY <2>1, EmptyGood DEF PageInv, OnlyGiven, AllGiven, AllLost
<1> QED
  BY <1>1, <1>2, <1>3, <1>4, <1>5, <1>6 DEF AshInv

(* The areas change, and no list: nothing but the file matters to these.   *)
LEMMA AreaChange ==
    ASSUME AshInv, AreaInv', UNCHANGED <<listVars, call, histVars>>,
           \A b \in Areas : file[b] => file'[b]
    PROVE  AshInv'
<1>1. /\ unpinned_list' = unpinned_list
      /\ ashmem_lru_list' = ashmem_lru_list /\ lru_count' = lru_count /\ call' = call
      /\ given_up' = given_up /\ lost' = lost /\ alloc_failed' = alloc_failed
  BY DEF listVars, histVars
<1>2. ListInv'
  BY <1>1 DEF AshInv, ListInv
<1>3. LruInv'
  BY <1>1 DEF AshInv, LruInv
<1>4. CallInv'
  <2>1. RequestOK => RequestOK'
    BY <1>1 DEF RequestOK
  <2> QED
    BY <1>1, <2>1 DEF AshInv, CallInv
<1>5. HistInv'
  BY <1>1 DEF AshInv, HistInv
<1>6. PageInv'
  BY <1>1 DEF AshInv, PageInv, OnlyGiven, AllGiven, AllLost, Waits, Reports, Within
<1> QED
  BY <1>2, <1>3, <1>4, <1>5, <1>6 DEF AshInv

(* The test of ASHMEM_SET_SIZE, ...                                        *)
LEMMA SetSizeInv ==
    ASSUME AshInv, NEW a \in Areas, NEW n \in Sizes[a], ASHMEM_SET_SIZE(a, n)
    PROVE  AshInv'
<1>1. n \in 1 .. MaxSize
  BY AshmemAssumption
<1>2. /\ storing' = [storing EXCEPT ![a] = storing[a] \cup {n}]
      /\ size' = size /\ file' = file /\ had' = had
      /\ UNCHANGED <<listVars, call, histVars>>
  BY DEF ASHMEM_SET_SIZE
<1>3. AreaInv'
  BY <1>1, <1>2 DEF AshInv, AreaInv
<1> QED
  BY <1>2, <1>3, AreaChange

(* ... and its store, which the lists do not follow.                       *)
LEMMA StoreSizeInv ==
    ASSUME AshInv, NEW a \in Areas, NEW n \in Sizes[a], StoreSize(a, n)
    PROVE  AshInv'
<1> DEFINE h == IF file[a] THEN had[a] \cup {n} ELSE had[a]
<1>1. n \in 1 .. MaxSize
  BY AshmemAssumption
<1>2. /\ storing' = [storing EXCEPT ![a] = storing[a] \ {n}]
      /\ size' = [size EXCEPT ![a] = n] /\ file' = file
      /\ had' = [had EXCEPT ![a] = h]
      /\ UNCHANGED <<listVars, call, histVars>>
  BY DEF StoreSize
<1>3. /\ h \in SUBSET (1 .. MaxSize) /\ (file[a] <=> h # {})
  BY <1>1 DEF AshInv, AreaInv
<1> HIDE DEF h
<1>4. AreaInv'
  BY <1>1, <1>2, <1>3 DEF AshInv, AreaInv
<1> QED
  BY <1>2, <1>4, AreaChange

(* ashmem_mmap: the area gets its file.                                    *)
LEMMA MmapInv ==
    ASSUME AshInv, NEW a \in Areas, ashmem_mmap(a)
    PROVE  AshInv'
<1> DEFINE h == IF file[a] THEN had[a] ELSE {size[a]}
<1>1. /\ file' = [file EXCEPT ![a] = TRUE] /\ had' = [had EXCEPT ![a] = h]
      /\ size' = size /\ storing' = storing /\ size[a] # 0
      /\ UNCHANGED <<listVars, call, histVars>>
  BY DEF ashmem_mmap
<1>2. h \in SUBSET (1 .. MaxSize) /\ h # {}
  <2>1. size[a] \in 1 .. MaxSize
    BY <1>1, AshmemAssumption DEF AshInv, AreaInv
  <2> QED
    BY <2>1 DEF AshInv, AreaInv
<1> HIDE DEF h
<1>3. AreaInv'
  BY <1>1, <1>2 DEF AshInv, AreaInv
<1>4. \A b \in Areas : file[b] => file'[b]
  BY <1>1 DEF AshInv, AreaInv
<1> QED
  BY <1>1, <1>3, <1>4, AreaChange

-----------------------------------------------------------------------------
(* Calls begin.                                                            *)

(* A call is made.                                                         *)
LEMMA CallStarts ==
    ASSUME AshInv, call = NoCall, CallInv', UNCHANGED <<areaVars, listVars, histVars>>
    PROVE  AshInv'
<1>1. /\ size' = size /\ file' = file /\ storing' = storing /\ had' = had
      /\ unpinned_list' = unpinned_list
      /\ ashmem_lru_list' = ashmem_lru_list /\ lru_count' = lru_count
      /\ given_up' = given_up /\ lost' = lost /\ alloc_failed' = alloc_failed
  BY DEF areaVars, listVars, histVars
<1>2. \A a, p : ~Waits(a, p) /\ ~Reports(a, p)
  BY NoCallType DEF Waits, Reports
<1>3. PageInv'
  BY <1>1, <1>2 DEF AshInv, PageInv, OnlyGiven, AllGiven, AllLost
<1> QED
  BY <1>1, <1>3 DEF AshInv, AreaInv, ListInv, LruInv, HistInv

(* ashmem_pin_unpin: the request lies inside the size that was read.       *)
LEMMA PinUnpinInv ==
    ASSUME AshInv, NEW a \in Areas, NEW cmd \in {"pin", "unpin"}, NEW n \in had[a],
           NEW offset \in 0 .. MaxSize, NEW len \in 0 .. MaxSize,
           ashmem_pin_unpin(a, cmd, n, offset, len)
    PROVE  AshInv'
<1> DEFINE k == IF len = 0 THEN n - offset ELSE len
           pgend == offset + k - 1
<1>1. /\ call = NoCall /\ file[a] /\ offset <= n /\ offset + k <= n
      /\ call' = [NoCall EXCEPT !.op = cmd, !.asma = a, !.pgstart = offset,
                                !.pgend = pgend, !.req = offset .. pgend]
      /\ UNCHANGED <<areaVars, listVars, histVars>>
  BY DEF ashmem_pin_unpin
<1>2. /\ MaxSize \in Int /\ offset \in Int /\ len \in Int /\ offset >= 0 /\ len >= 0
      /\ n \in Int /\ n <= MaxSize
  BY AshmemAssumption DEF AshInv, AreaInv
<1>3. k \in Int /\ k >= 0
  BY <1>1, <1>2
<1> HIDE DEF k
<1>4. pgend \in Int /\ pgend >= offset - 1 /\ pgend <= MaxSize - 1
  BY <1>1, <1>2, <1>3
<1> HIDE DEF pgend
<1>5. /\ call' \in Calls /\ call'.op = cmd /\ call'.asma = a /\ call'.pgstart = offset
      /\ call'.pgend = pgend /\ call'.req = offset .. pgend
  <2>1. offset .. pgend \in SUBSET Int
    BY <1>2, <1>4
  <2> DEFINE c == NoCall
  <2>2. c \in Calls /\ call' = [c EXCEPT !.op = cmd, !.asma = a, !.pgstart = offset,
                                         !.pgend = pgend, !.req = offset .. pgend]
    BY <1>1, NoCallType
  <2> HIDE DEF c
  <2> QED
    BY <1>2, <1>4, <2>1, <2>2 DEF Calls
<1>6. size' = size /\ file' = file /\ storing' = storing /\ had' = had
      /\ given_up' = given_up
  BY <1>1 DEF areaVars, histVars
<1>7. RequestOK'
  BY <1>1, <1>2, <1>4, <1>5, <1>6 DEF RequestOK
<1>8. CallInv'
  BY <1>5, <1>7 DEF CallInv
<1> QED
  BY <1>1, <1>8, CallStarts

(* ashmem_release.                                                         *)
LEMMA ReleaseInv ==
    ASSUME AshInv, NEW a \in Areas, ashmem_release(a)
    PROVE  AshInv'
<1>1. /\ call = NoCall /\ UNCHANGED <<areaVars, listVars, histVars>>
      /\ call' = [NoCall EXCEPT !.op = "release", !.asma = a]
  BY DEF ashmem_release
<1>2. call' \in Calls /\ call'.op = "release" /\ call'.asma = a
  <2> DEFINE c == NoCall
  <2>1. c \in Calls /\ call' = [c EXCEPT !.op = "release", !.asma = a]
    BY <1>1, NoCallType
  <2> HIDE DEF c
  <2> QED
    BY <2>1 DEF Calls
<1>3. CallInv'
  BY <1>2 DEF CallInv
<1> QED
  BY <1>1, <1>3, CallStarts

(* ashmem_shrink.                                                          *)
LEMMA ShrinkInv ==
    ASSUME AshInv, NEW n \in 1 .. MaxScan, ashmem_shrink(n)
    PROVE  AshInv'
<1>1. /\ call = NoCall /\ UNCHANGED <<areaVars, listVars, histVars>>
      /\ ashmem_lru_list # <<>> /\ ashmem_lru_list' = ashmem_lru_list
      /\ call' = [NoCall EXCEPT !.op = "shrink", !.nr_to_scan = n]
  BY DEF ashmem_shrink, listVars
<1>2. call' \in Calls /\ call'.op = "shrink"
  <2> DEFINE c == NoCall
  <2>1. n \in Int /\ c \in Calls /\ call' = [c EXCEPT !.op = "shrink", !.nr_to_scan = n]
    BY <1>1, NoCallType, AshmemAssumption
  <2> HIDE DEF c
  <2> QED
    BY <2>1 DEF Calls
<1>3. CallInv'
  BY <1>1, <1>2 DEF CallInv
<1> QED
  BY <1>1, <1>3, CallStarts

(* The next range of a walk.                                               *)
LEMMA NextHitResult ==
    ASSUME AshInv, call.op \in {"pin", "unpin"}, Todo # {}
    PROVE  LET a == call.asma
           IN  /\ a \in Areas /\ NextHit \in 1 .. Len(unpinned_list[a])
               /\ NextRange = unpinned_list[a][NextHit]
               /\ NextRange \in Ranges
               /\ NextRange.pgstart \in Nat /\ NextRange.pgend \in Int
               /\ NextRange.pgend <= MaxSize - 1 /\ MaxSize \in Int
               /\ call.pgstart \in Nat /\ call.pgend \in Int /\ call.pgend >= call.pgstart - 1
               /\ NextRange.pgend >= call.pgstart
               /\ NextRange.pgstart <= call.pgend + 1 \/ NextRange.pgend <= call.pgend
               /\ call.pgstart <= call.pgend =>
                     NextRange.pgstart <= call.pgend \/ NextRange.pgend <= call.pgend
<1> DEFINE a == call.asma
           l == unpinned_list[a]
<1>1. RequestOK /\ call \in Calls
  BY DEF AshInv, CallInv
<1>2. /\ a \in Areas /\ call.pgstart \in Int /\ call.pgend \in Int /\ call.pgstart >= 0
      /\ call.pgend >= call.pgstart - 1
  BY <1>1 DEF RequestOK, Calls
<1>3. GoodList(l, MaxSize) /\ MaxSize \in Int /\ l \in Seq(Ranges)
  BY <1>2, AshmemAssumption DEF AshInv, ListInv, AreaInv
<1>4. Todo \in SUBSET Nat
  <2>1. Len(l) \in Nat /\ DOMAIN l = 1 .. Len(l)
    BY <1>3, ElementType
  <2> QED
    BY <2>1 DEF Todo, Hits, Reached
<1>5. NextHit \in Hits(l, call.pgstart, call.pgend)
  BY <1>4, MinResult DEF NextHit, Todo
<1>6. /\ NextHit \in 1 .. Len(l)
      /\ l[NextHit].pgend >= call.pgstart
      /\ l[NextHit].pgstart <= call.pgend + 1 \/ l[NextHit].pgend <= call.pgend
      /\ call.pgstart <= call.pgend =>
            l[NextHit].pgstart <= call.pgend \/ l[NextHit].pgend <= call.pgend
  <2> HIDE DEF a, l
  <2> QED
    BY <1>2, <1>3, <1>5, HitResult
<1>7. NextRange = l[NextHit]
  BY DEF NextRange
<1>8. /\ l[NextHit] \in Ranges /\ l[NextHit].pgstart \in Nat /\ l[NextHit].pgend \in Int
      /\ l[NextHit].pgend <= MaxSize - 1
  BY <1>2, <1>6, RangeFacts DEF AshInv
<1> QED
  BY <1>2, <1>3, <1>6, <1>7, <1>8

-----------------------------------------------------------------------------
(* ashmem_pin.                                                             *)

(* A page is in one range of a list at most.                               *)
LEMMA OnlyRange ==
    ASSUME NEW l, NEW n \in Int, GoodList(l, n), NEW i \in 1 .. Len(l), NEW p \in Int,
           l[i].pgstart <= p, p <= l[i].pgend, HasPurged(l, p)
    PROVE  l[i].purged
<1>1. PICK k \in 1 .. Len(l) : l[k].purged /\ l[k].pgstart <= p /\ p <= l[k].pgend
  BY DEF HasPurged
<1>2. l \in Seq(Ranges)
  BY DEF GoodList
<1>3. /\ l[k].pgstart \in Int /\ l[k].pgend \in Int /\ Len(l) \in Nat
      /\ l[i].pgstart \in Int /\ l[i].pgend \in Int
  BY <1>2, ElementType
<1>4. (k < i => l[k].pgstart > l[i].pgend) /\ (i < k => l[i].pgstart > l[k].pgend)
  BY DEF GoodList
<1>5. k = i
  BY <1>1, <1>3, <1>4
<1> QED
  BY <1>1, <1>5

(* What an iteration of ashmem_pin does to the list: it takes pages P of   *)
(* the request off, and ret tells if one of them was purged.               *)
LEMMA PinListInv ==
    ASSUME AshInv, call.op = "pin", UNCHANGED <<areaVars, given_up, lost>>,
           NEW was \in BOOLEAN, call' = [call EXCEPT !.purged = call.purged \/ was],
           NEW P, P \subseteq call.pgstart .. call.pgend,
           \A p \in P : HasPurged(unpinned_list[call.asma], p) => was,
           alloc_failed' \in BOOLEAN, ListInv', LruInv',
           \A b \in Areas : b # call.asma => unpinned_list'[b] = unpinned_list[b],
           \A p \in Int : Has(unpinned_list'[call.asma], p) => Has(unpinned_list[call.asma], p),
           ~alloc_failed' => ~alloc_failed /\ Keeps(unpinned_list[call.asma],
                                                   unpinned_list'[call.asma], P)
    PROVE  AshInv'
<1> DEFINE a == call.asma
<1>0. /\ call' \in Calls /\ call'.op = "pin" /\ call'.asma = a
      /\ call'.pgstart = call.pgstart /\ call'.pgend = call.pgend
      /\ call'.req = call.req /\ (call'.purged <=> call.purged \/ was)
  <2>1. PICK q \in BOOLEAN : q = (call.purged \/ was)
    BY DEF AshInv, CallInv, Calls
  <2>2. call \in Calls /\ call' = [call EXCEPT !.purged = q]
    BY <2>1 DEF AshInv, CallInv
  <2> QED
    BY <2>1, <2>2 DEF Calls
<1>1. /\ size' = size /\ file' = file /\ storing' = storing /\ had' = had
      /\ given_up' = given_up /\ lost' = lost
  BY DEF areaVars
<1>2. a \in Areas /\ call.pgstart \in Int /\ call.pgend \in Int
  BY DEF AshInv, CallInv, RequestOK, Calls
<1>3. AreaInv' /\ HistInv'
  BY <1>1 DEF AshInv, AreaInv, HistInv
<1>4. CallInv'
  <2>1. RequestOK'
    BY <1>0, <1>1 DEF AshInv, CallInv, RequestOK
  <2> QED
    BY <1>0, <2>1 DEF CallInv
<1>5. PageInv'
  <2> SUFFICES ASSUME NEW b \in Areas
               PROVE  OnlyGiven(b)' /\ (~alloc_failed' => AllGiven(b)' /\ AllLost(b)')
    BY DEF PageInv
  <2>1. OnlyGiven(b) /\ (~alloc_failed => AllGiven(b) /\ AllLost(b))
    BY DEF AshInv, PageInv
  <2>2. CASE b # a
    <3>1. unpinned_list'[b] = unpinned_list[b]
      BY <2>2
    <3>2. \A p : ~Waits(b, p) /\ ~Reports(b, p)
      BY <2>2 DEF Waits, Reports
    <3> QED
      BY <1>1, <2>1, <3>1, <3>2 DEF OnlyGiven, AllGiven, AllLost
  <2>3. CASE b = a
    <3>1. OnlyGiven(b)'
      BY <1>1, <2>1, <2>3 DEF OnlyGiven
    <3>2. \A p \in P : Within(p)
      BY <1>2 DEF Within
    <3>3. \A p : Within(p) => Waits(b, p)' /\ (call'.purged => Reports(b, p)')
      BY <1>0, <2>3 DEF Within, Waits, Reports
    <3>4. \A p : /\ Waits(b, p) => Within(p)
                 /\ Reports(b, p) => Within(p) /\ call.purged
      BY DEF Waits, Reports
    <3>5. ASSUME ~alloc_failed'
          PROVE  AllGiven(b)'
      <4>1. given_up[b] \subseteq Int
        BY DEF AshInv, HistInv
      <4>2. \A p \in Int : Has(unpinned_list[b], p) => Has(unpinned_list'[b], p) \/ p \in P
        BY <2>3, <3>5 DEF Keeps
      <4> QED
        BY <1>1, <2>1, <3>2, <3>3, <3>4, <3>5, <4>1, <4>2 DEF AllGiven
    <3>6. ASSUME ~alloc_failed'
          PROVE  AllLost(b)'
      <4>1. lost[b] \subseteq Int
        BY DEF AshInv, HistInv
      <4>2. \A p \in Int : HasPurged(unpinned_list[b], p) =>
                              HasPurged(unpinned_list'[b], p) \/ (p \in P /\ was)
        BY <2>3, <3>6 DEF Keeps
      <4>3. ASSUME NEW p \in lost[b]
            PROVE  HasPurged(unpinned_list'[b], p) \/ Reports(b, p)'
        <5>1. HasPurged(unpinned_list[b], p) \/ Reports(b, p)
          BY <2>1, <3>6 DEF AllLost
        <5>2. p \in P /\ was => Reports(b, p)'
          BY <1>0, <3>2, <3>3
        <5>3. Reports(b, p) => Reports(b, p)'
          BY <1>0, <3>3, <3>4
        <5> QED
          BY <4>1, <4>2, <5>1, <5>2, <5>3
      <4> QED
        BY <1>1, <4>3 DEF AllLost
    <3> QED
      BY <3>1, <3>5, <3>6
  <2> QED
    BY <2>2, <2>3
<1> QED
  BY <1>3, <1>4, <1>5 DEF AshInv

(* An iteration of ashmem_pin: in each of the four cases what is cut off   *)
(* is part of the request.                                                 *)
LEMMA PinRangeInv ==
    ASSUME AshInv, PinRange
    PROVE  AshInv'
<1> DEFINE a == call.asma
           l == unpinned_list[a]
           i == NextHit
           r == NextRange
           P == {p \in call.pgstart .. call.pgend : p \in PagesOf(r)}
<1>1. /\ call.op = "pin" /\ Todo # {} /\ ~Behind /\ UNCHANGED <<areaVars, histVars>>
      /\ call' = [call EXCEPT !.purged = call.purged \/ r.purged]
  BY DEF PinRange, PinDone
<1>2. /\ a \in Areas /\ i \in 1 .. Len(l) /\ r = l[i] /\ r.pgstart \in Nat /\ r.pgend \in Int
      /\ r \in Ranges
      /\ call.pgstart \in Nat /\ call.pgend \in Int /\ call.pgend >= call.pgstart - 1
      /\ r.pgend >= call.pgstart
      /\ r.pgstart <= call.pgend \/ r.pgend <= call.pgend
  <2>1. r.pgstart <= call.pgend \/ r.pgend <= call.pgend \/ ~(r \in Ranges /\ call.pgend \in Int)
    BY <1>1, RangeType DEF Behind
  <2> QED
    BY <1>1, <2>1, NextHitResult
<1>3. AreaInv /\ ListInv /\ LruInv
  BY DEF AshInv
<1>4. UNCHANGED areaVars
  BY <1>1
<1> DEFINE Done == /\ ListInv' /\ LruInv'
                   /\ \A b \in Areas : b # a => unpinned_list'[b] = unpinned_list[b]
                   /\ Keeps(l, unpinned_list'[a], P)
<1>5. ASSUME page_range_subsumes_range(r, call.pgstart, call.pgend), range_del(a, i)
      PROVE  Done
  <2>1. /\ ListInv' /\ LruInv'
        /\ \A b \in Areas : b # a => unpinned_list'[b] = unpinned_list[b]
        /\ Keeps(l, unpinned_list'[a], PagesOf(l[i]))
    BY <1>2, <1>3, <1>4, <1>5, DelStep
  <2>2. \A p \in Int : p \notin P => p \notin PagesOf(l[i])
    BY <1>2, <1>5 DEF page_range_subsumes_range, PagesOf
  <2> HIDE DEF P
  <2>3. Keeps(l, unpinned_list'[a], P)
    BY <2>1, <2>2 DEF Keeps
  <2> QED
    BY <2>1, <2>3
<1>6. ASSUME ~page_range_subsumes_range(r, call.pgstart, call.pgend),
             r.pgstart >= call.pgstart, range_shrink(a, i, call.pgend + 1, r.pgend)
      PROVE  Done
  <2>1. /\ l[i].pgstart <= call.pgend + 1 /\ call.pgend + 1 <= l[i].pgend
        /\ call.pgend + 1 \in Nat
    BY <1>2, <1>6 DEF page_range_subsumes_range
  <2>2. CutOff(l[i], call.pgend + 1, l[i].pgend, P)
    BY <1>2, <1>6 DEF CutOff, PagesOf
  <2>3. l[i].pgend \in Int /\ l[i].pgend <= l[i].pgend /\ range_shrink(a, i, call.pgend + 1, l[i].pgend)
    BY <1>2, <1>6
  <2> HIDE DEF P, i
  <2> QED
    BY <1>2, <1>3, <1>4, <2>1, <2>2, <2>3, ShrinkStep
<1>7. ASSUME r.pgstart < call.pgstart, r.pgend <= call.pgend,
             range_shrink(a, i, r.pgstart, call.pgstart - 1)
      PROVE  Done
  <2>1. /\ l[i].pgstart <= l[i].pgstart /\ l[i].pgstart <= call.pgstart - 1
        /\ call.pgstart - 1 <= l[i].pgend
        /\ l[i].pgstart \in Nat /\ call.pgstart - 1 \in Int
    BY <1>2, <1>7
  <2>2. CutOff(l[i], l[i].pgstart, call.pgstart - 1, P)
    BY <1>2, <1>7 DEF CutOff, PagesOf
  <2>3. range_shrink(a, i, l[i].pgstart, call.pgstart - 1)
    BY <1>2, <1>7
  <2> HIDE DEF P, i
  <2> QED
    BY <1>2, <1>3, <1>4, <2>1, <2>2, <2>3, ShrinkStep
<1>8. ASSUME r.pgstart < call.pgstart, r.pgend > call.pgend,
             Split(a, i, call.pgstart, call.pgend)
      PROVE  Done
  <2>1. /\ l[i].pgstart < call.pgstart /\ call.pgend < l[i].pgend /\ call.pgstart \in Int
        /\ call.pgstart - 1 <= call.pgend
    BY <1>2, <1>8
  <2>2. P = call.pgstart .. call.pgend
    BY <1>2, <2>1 DEF PagesOf
  <2> HIDE DEF i, P
  <2> QED
    BY <1>2, <1>3, <1>4, <1>8, <2>1, <2>2, SplitStep
<1>9. Done
  <2> HIDE DEF Done, a, i, r
  <2> QED
    BY <1>5, <1>6, <1>7, <1>8 DEF PinRange, a, i, r
<1>10. alloc_failed' = alloc_failed /\ alloc_failed \in BOOLEAN
       /\ UNCHANGED <<areaVars, given_up, lost>>
  BY <1>1 DEF histVars, AshInv, HistInv
<1>11. P \subseteq call.pgstart .. call.pgend /\ r.purged \in BOOLEAN
  BY <1>2, RangeType
<1>12. \A p \in P : HasPurged(l, p) => r.purged
  <2>1. GoodList(l, MaxSize) /\ MaxSize \in Int
    BY <1>2, <1>3, AshmemAssumption DEF ListInv
  <2>2. \A p \in P : p \in Int /\ l[i].pgstart <= p /\ p <= l[i].pgend
    BY <1>2 DEF PagesOf
  <2> HIDE DEF l, P, i, r
  <2> QED
    BY <1>2, <2>1, <2>2, OnlyRange
<1> HIDE DEF P, r
<1>13. \A p \in Int : Has(unpinned_list'[a], p) => Has(l, p)
  BY <1>9 DEF Keeps
<1> QED
  BY <1>1, <1>9, <1>10, <1>11, <1>12, <1>13, PinListInv

(* The part above the request is lost with the allocation: its pages stay  *)
(* pinned, though user space has given them up.                            *)
LEMMA PinAllocFailsInv ==
    ASSUME AshInv, PinAllocFails
    PROVE  AshInv'
<1> DEFINE a == call.asma
           l == unpinned_list[a]
           i == NextHit
           r == NextRange
           P == call.pgstart .. r.pgend
<1>1. /\ call.op = "pin" /\ Todo # {} /\ UNCHANGED <<areaVars, given_up, lost>>
      /\ call' = [call EXCEPT !.purged = call.purged \/ r.purged]
      /\ r.pgstart < call.pgstart /\ r.pgend > call.pgend
      /\ range_shrink(a, i, r.pgstart, call.pgstart - 1) /\ alloc_failed' = TRUE
  BY DEF PinAllocFails, PinDone
<1>2. /\ a \in Areas /\ i \in 1 .. Len(l) /\ r = l[i] /\ r.pgstart \in Nat /\ r.pgend \in Int
      /\ r \in Ranges /\ call.pgstart \in Nat /\ r.pgend >= call.pgstart
  BY <1>1, NextHitResult
<1>3. /\ ListInv' /\ LruInv'
      /\ \A b \in Areas : b # a => unpinned_list'[b] = unpinned_list[b]
      /\ Keeps(l, unpinned_list'[a], P)
  <2>1. /\ l[i].pgstart <= l[i].pgstart /\ l[i].pgstart <= call.pgstart - 1
        /\ call.pgstart - 1 <= l[i].pgend
        /\ l[i].pgstart \in Nat /\ call.pgstart - 1 \in Int
    BY <1>1, <1>2
  <2>2. CutOff(l[i], l[i].pgstart, call.pgstart - 1, P)
    BY <1>1, <1>2 DEF CutOff
  <2>3. range_shrink(a, i, l[i].pgstart, call.pgstart - 1)
    BY <1>1, <1>2
  <2>4. AreaInv /\ ListInv /\ LruInv /\ UNCHANGED areaVars
    BY <1>1 DEF AshInv
  <2> HIDE DEF P, i
  <2> QED
    BY <1>2, <2>1, <2>2, <2>3, <2>4, ShrinkStep
<1>4. \A p \in Int : Has(unpinned_list'[a], p) => Has(l, p)
  BY <1>3 DEF Keeps
<1> DEFINE none == {}
<1>5. /\ r.purged \in BOOLEAN /\ none \subseteq call.pgstart .. call.pgend
      /\ \A p \in none : HasPurged(l, p) => r.purged
  BY <1>2, RangeType
<1>6. alloc_failed' \in BOOLEAN /\ ~(~alloc_failed')
  BY <1>1
<1> HIDE DEF r, none
<1> QED
  BY <1>1, <1>3, <1>4, <1>5, <1>6, PinListInv

(* A walk of ashmem_pin that is done leaves no page of the request on the  *)
(* list.                                                                   *)
LEMMA PinDoneResult ==
    ASSUME AshInv, call.op = "pin", PinDone, NEW p \in Int,
           Has(unpinned_list[call.asma], p)
    PROVE  p \notin call.req
<1> DEFINE a == call.asma
           l == unpinned_list[a]
<1>1. /\ a \in Areas /\ call.pgstart \in Int /\ call.pgend \in Int
      /\ call.req = call.pgstart .. call.pgend
  BY DEF AshInv, CallInv, RequestOK, Calls
<1>2. PICK i \in 1 .. Len(l) : l[i].pgstart <= p /\ p <= l[i].pgend
  BY DEF Has
<1>3. GoodList(l, MaxSize) /\ MaxSize \in Int
  BY <1>1, AshmemAssumption DEF AshInv, ListInv
<1>4. call.pgstart <= p /\ p <= call.pgend => i \in Todo
  <2>1. Todo = Hits(l, call.pgstart, call.pgend)
    BY DEF Todo
  <2> HIDE DEF l
  <2> QED
    BY <1>1, <1>2, <1>3, <2>1, OverlapHit
<1>5. CASE Todo = {}
  BY <1>1, <1>4, <1>5
<1>6. CASE Behind
  <2>1. Todo # {} /\ NextRange.pgstart > call.pgend /\ NextRange.pgend > call.pgend
    BY <1>6 DEF Behind
  <2>2. ~(call.pgstart <= call.pgend)
    BY <2>1, NextHitResult
  <2> QED
    BY <1>1, <2>2
<1> QED
  BY <1>5, <1>6 DEF PinDone

(* ashmem_pin returns: no range overlaps the request any more, so none of  *)
(* its pages is left on the list.                                          *)
LEMMA PinReturnsInv ==
    ASSUME AshInv, PinReturns
    PROVE  AshInv'
<1> DEFINE a == call.asma
<1>1. /\ call.op = "pin" /\ PinDone /\ call' = NoCall
      /\ given_up' = [given_up EXCEPT ![a] = @ \ call.req]
      /\ lost' = [lost EXCEPT ![a] = @ \ call.req]
      /\ size' = size /\ file' = file /\ storing' = storing /\ had' = had
      /\ unpinned_list' = unpinned_list
      /\ ashmem_lru_list' = ashmem_lru_list /\ lru_count' = lru_count
      /\ alloc_failed' = alloc_failed
  BY DEF PinReturns, areaVars, listVars
<1>2. /\ a \in Areas /\ call.pgstart \in Int /\ call.pgend \in Int
      /\ call.req = call.pgstart .. call.pgend
  BY <1>1 DEF AshInv, CallInv, RequestOK, Calls
<1>3. /\ given_up'[a] = given_up[a] \ call.req /\ lost'[a] = lost[a] \ call.req
      /\ \A b \in Areas : b # a => given_up'[b] = given_up[b] /\ lost'[b] = lost[b]
      /\ given_up' \in [Areas -> SUBSET Int] /\ lost' \in [Areas -> SUBSET Int]
  BY <1>1, <1>2 DEF AshInv, HistInv
<1>4. AreaInv' /\ ListInv' /\ LruInv'
  BY <1>1 DEF AshInv, AreaInv, ListInv, LruInv
<1>5. CallInv'
  BY <1>1, NoCallType DEF CallInv
<1>6. HistInv'
  BY <1>1, <1>2, <1>3 DEF AshInv, HistInv
<1>7. PageInv'
  <2> SUFFICES ASSUME NEW b \in Areas
               PROVE  OnlyGiven(b)' /\ (~alloc_failed' => AllGiven(b)' /\ AllLost(b)')
    BY DEF PageInv
  <2>1. OnlyGiven(b) /\ (~alloc_failed => AllGiven(b) /\ AllLost(b))
    BY DEF AshInv, PageInv
  <2>2. CASE b # a
    <3>1. \A p : ~Waits(b, p) /\ ~Reports(b, p)
      BY <2>2 DEF Waits, Reports
    <3> QED
      BY <1>1, <1>3, <2>1, <2>2, <3>1 DEF OnlyGiven, AllGiven, AllLost
  <2>3. CASE b = a
    <3>1. ASSUME NEW p \in Int, Has(unpinned_list[a], p)
          PROVE  p \notin call.req
      BY <1>1, <3>1, PinDoneResult
    <3>2. OnlyGiven(b)'
      BY <1>1, <1>3, <2>1, <2>3, <3>1 DEF OnlyGiven
    <3>3. \A p \in Int : Waits(b, p) \/ Reports(b, p) => p \in call.req
      BY <1>1, <1>2 DEF Waits, Reports, Within
    <3>4. given_up[b] \subseteq Int /\ lost[b] \subseteq Int
      BY DEF AshInv, HistInv
    <3>5. ~alloc_failed' => AllGiven(b)'
      BY <1>1, <1>3, <2>1, <2>3, <3>3, <3>4 DEF AllGiven
    <3>6. ~alloc_failed' => AllLost(b)'
      BY <1>1, <1>3, <2>1, <2>3, <3>3, <3>4 DEF AllLost
    <3> QED
      BY <3>2, <3>5, <3>6
  <2> QED
    BY <2>2, <2>3
<1> QED
  BY <1>4, <1>5, <1>6, <1>7 DEF AshInv

-----------------------------------------------------------------------------
(* ashmem_unpin.                                                           *)

(* The lesser and the greater of two page numbers.                         *)
LEMMA MinMaxOfTwo ==
    ASSUME NEW x \in Int, NEW y \in Int
    PROVE  /\ Min({x, y}) \in {x, y} /\ Min({x, y}) <= x /\ Min({x, y}) <= y
           /\ Max({x, y}) \in {x, y} /\ Max({x, y}) >= x /\ Max({x, y}) >= y
<1>1. \E z \in {x, y} : \A u \in {x, y} : z <= u
  OBVIOUS
<1>2. \E z \in {x, y} : \A u \in {x, y} : z >= u
  OBVIOUS
<1> QED
  BY <1>1, <1>2 DEF Min, Max

(* An iteration of ashmem_unpin: the range's pages go from the list into   *)
(* the request, and that it was purged into the call's purged.             *)
LEMMA UnpinRangeInv ==
    ASSUME AshInv, UnpinRange
    PROVE  AshInv'
<1> DEFINE a == call.asma
           l == unpinned_list[a]
           i == NextHit
           r == NextRange
           s == Min({call.pgstart, r.pgstart})
           e == Max({call.pgend, r.pgend})
<1>1. /\ call.op = "unpin" /\ Todo # {} /\ range_del(a, i)
      /\ call' = [call EXCEPT !.pgstart = s, !.pgend = e, !.purged = MergedPurged(r)]
      /\ size' = size /\ file' = file /\ storing' = storing /\ had' = had /\ UNCHANGED areaVars
      /\ given_up' = given_up /\ lost' = lost /\ alloc_failed' = alloc_failed
  BY DEF UnpinRange, areaVars, histVars
<1>2. /\ a \in Areas /\ i \in 1 .. Len(l) /\ r = l[i] /\ r \in Ranges
      /\ r.pgstart \in Nat /\ r.pgend \in Int /\ r.pgend <= MaxSize - 1 /\ MaxSize \in Int
      /\ call.pgstart \in Nat /\ call.pgend \in Int /\ call.pgstart <= call.pgend
      /\ r.pgend >= call.pgstart
      /\ r.pgstart <= call.pgend \/ r.pgend <= call.pgend
  <2>1. ~(r.pgstart <= call.pgstart /\ r.pgend >= call.pgend)
    BY DEF UnpinRange, page_range_subsumed_by_range
  <2> QED
    BY <1>1, <2>1, NextHitResult
<1>3. RequestOK /\ call \in Calls
  BY <1>1 DEF AshInv, CallInv
<1>4. /\ ListInv' /\ LruInv'
      /\ \A b \in Areas : b # a => unpinned_list'[b] = unpinned_list[b]
      /\ Keeps(l, unpinned_list'[a], PagesOf(l[i]))
      /\ \A p \in PagesOf(l[i]) : ~Has(unpinned_list'[a], p)
  <2>1. AreaInv /\ ListInv /\ LruInv
    BY DEF AshInv
  <2> QED
    BY <1>1, <1>2, <2>1, DelStep
<1>5. /\ s \in {call.pgstart, r.pgstart} /\ s <= call.pgstart /\ s <= r.pgstart
      /\ e \in {call.pgend, r.pgend} /\ e >= call.pgend /\ e >= r.pgend
  <2>1. /\ call.pgstart \in Int /\ r.pgstart \in Int
        /\ call.pgend \in Int /\ r.pgend \in Int
    BY <1>2
  <2> HIDE DEF r
  <2> QED
    BY <2>1, MinMaxOfTwo, Zenon
<1>6. s \in Nat /\ e \in Int
  BY <1>2, <1>5
<1>7. MergedPurged(r) \in BOOLEAN /\ (MergedPurged(r) <=> call.purged \/ r.purged)
  BY <1>2, <1>3, RangeType DEF MergedPurged, Calls
<1> HIDE DEF s, e
<1>8. /\ call' \in Calls /\ call'.op = "unpin" /\ call'.asma = a /\ call'.pgstart = s
      /\ call'.pgend = e /\ call'.req = call.req /\ (call'.purged <=> MergedPurged(r))
  <2>1. PICK q \in BOOLEAN : q = MergedPurged(r)
    BY <1>7
  <2>2. call' = [call EXCEPT !.pgstart = s, !.pgend = e, !.purged = q]
    BY <1>1, <2>1
  <2>3. s \in Int /\ e \in Int
    BY <1>6
  <2>4. /\ call' \in Calls /\ call'.op = call.op /\ call'.asma = call.asma
        /\ call'.pgstart = s /\ call'.pgend = e /\ call'.req = call.req
        /\ (call'.purged <=> q)
    BY <1>3, <2>2, <2>3 DEF Calls
  <2> QED
    BY <1>1, <2>1, <2>4
<1>9. ASSUME NEW p \in s .. e
      PROVE  p \in call.pgstart .. call.pgend \/ p \in PagesOf(r)
  <2>1. p \in Int /\ s <= p /\ p <= e
    BY <1>6
  <2>2. CASE p < call.pgstart
    <3>1. r.pgstart <= p /\ p <= r.pgend
      BY <1>2, <1>5, <1>6, <2>1, <2>2
    <3> QED
      BY <1>2, <2>1, <3>1 DEF PagesOf
  <2>3. CASE p > call.pgend
    <3>1. r.pgstart <= p /\ p <= r.pgend
      BY <1>2, <1>5, <1>6, <2>1, <2>3
    <3> QED
      BY <1>2, <2>1, <3>1 DEF PagesOf
  <2> QED
    BY <1>2, <2>1, <2>2, <2>3
<1>10. \A p \in PagesOf(r) : p \in Int /\ p \in given_up[a]
  <2>1. \A p \in PagesOf(r) : p \in Int /\ Has(l, p)
    BY <1>2 DEF PagesOf, Has
  <2> QED
    BY <1>2, <2>1 DEF AshInv, PageInv, OnlyGiven
<1>11. RequestOK'
  <2>1. s >= 0 /\ e >= s - 1 /\ e <= MaxSize - 1 /\ ~(e < s)
    BY <1>2, <1>3, <1>5, <1>6 DEF RequestOK
  <2>2. call.req \subseteq s .. e
    BY <1>1, <1>2, <1>3, <1>5, <1>6 DEF RequestOK
  <2>3. s .. e \subseteq call.req \cup given_up[a]
    BY <1>1, <1>3, <1>9, <1>10 DEF RequestOK
  <2> QED
    BY <1>1, <1>3, <1>8, <2>1, <2>2, <2>3 DEF RequestOK
<1>12. CallInv'
  BY <1>8, <1>11 DEF CallInv
<1>13. AreaInv' /\ HistInv'
  BY <1>1 DEF AshInv, AreaInv, HistInv
<1>14. PageInv'
  <2> SUFFICES ASSUME NEW b \in Areas
               PROVE  OnlyGiven(b)' /\ (~alloc_failed' => AllGiven(b)' /\ AllLost(b)')
    BY DEF PageInv
  <2>1. OnlyGiven(b) /\ (~alloc_failed => AllGiven(b) /\ AllLost(b))
    BY DEF AshInv, PageInv
  <2>2. CASE b # a
    <3>1. unpinned_list'[b] = unpinned_list[b]
      BY <1>4, <2>2
    <3>2. \A p : ~Waits(b, p) /\ ~Reports(b, p)
      BY <2>2 DEF Waits, Reports
    <3> QED
      BY <1>1, <2>1, <3>1, <3>2 DEF OnlyGiven, AllGiven, AllLost
  <2>3. CASE b = a
    <3>1. OnlyGiven(b)'
      BY <1>1, <1>4, <2>1, <2>3 DEF OnlyGiven, Keeps
    <3>2. given_up[b] \subseteq Int /\ lost[b] \subseteq Int
      BY DEF AshInv, HistInv
    <3>3. \A p \in Int : Within(p) \/ p \in PagesOf(r) => Within(p)'
      BY <1>2, <1>5, <1>6, <1>8 DEF Within, PagesOf
    <3>4. \A p \in Int : Within(p)' => Waits(b, p)'
      BY <1>8, <2>3 DEF Waits
    <3>5. ASSUME NEW p \in Int, Has(l, p)
          PROVE  Has(unpinned_list'[a], p) \/ p \in PagesOf(r)
      BY <1>2, <1>4, <3>5 DEF Keeps
    <3>6. ASSUME NEW p \in given_up[b], ~alloc_failed
          PROVE  Has(unpinned_list'[b], p) \/ Waits(b, p)'
      <4>1. Has(l, p) \/ Within(p)
        BY <1>1, <2>1, <2>3, <3>6 DEF AllGiven, Waits
      <4> QED
        BY <2>3, <3>2, <3>3, <3>4, <3>5, <4>1
    <3>7. ~alloc_failed' => AllGiven(b)'
      BY <1>1, <3>6 DEF AllGiven
    <3>8. ASSUME NEW p \in lost[b], ~alloc_failed
          PROVE  HasPurged(unpinned_list'[b], p) \/ Reports(b, p)'
      <4>1. p \in Int
        BY <3>2
      <4>2. CASE HasPurged(l, p) /\ p \notin PagesOf(r)
        BY <1>2, <1>4, <2>3, <4>1, <4>2 DEF Keeps
      <4>3. CASE HasPurged(l, p) /\ p \in PagesOf(r)
        <5>1. ~Has(unpinned_list'[b], p) /\ Within(p)'
          BY <1>2, <1>4, <2>3, <3>3, <4>1, <4>3
        <5>2. r.purged
          <6>1. l[i].pgstart <= p /\ p <= l[i].pgend
            BY <1>2, <4>1, <4>3 DEF PagesOf
          <6>2. GoodList(l, MaxSize)
            BY <1>2 DEF AshInv, ListInv
          <6> QED
            BY <1>2, <4>1, <4>3, <6>1, <6>2, OnlyRange
        <5>3. call'.purged
          BY <1>7, <1>8, <5>2
        <5> QED
          BY <1>8, <2>3, <5>1, <5>3 DEF Reports
      <4>4. CASE Reports(b, p)
        <5>1. Within(p) /\ call.purged /\ ~Has(l, p)
          BY <1>1, <2>3, <4>4 DEF Reports
        <5>2. ~Has(unpinned_list'[b], p) /\ Within(p)'
          BY <1>4, <2>3, <3>3, <4>1, <5>1 DEF Keeps
        <5>3. call'.purged
          BY <1>7, <1>8, <5>1
        <5> QED
          BY <1>8, <2>3, <5>2, <5>3 DEF Reports
      <4> QED
        BY <2>1, <2>3, <3>8, <4>2, <4>3, <4>4 DEF AllLost
    <3>9. ~alloc_failed' => AllLost(b)'
      BY <1>1, <3>8 DEF AllLost
    <3> QED
      BY <3>1, <3>7, <3>9
  <2> QED
    BY <2>2, <2>3
<1> QED
  BY <1>4, <1>12, <1>13, <1>14 DEF AshInv

(* ashmem_unpin returns: the request is on the list.                       *)
LEMMA UnpinDoneInv ==
    ASSUME AshInv, call.op = "unpin", call' = NoCall, ListInv', LruInv',
           UNCHANGED <<areaVars, lost, alloc_failed>>,
           given_up' = [given_up EXCEPT ![call.asma] = @ \cup call.req],
           \A b \in Areas : b # call.asma => unpinned_list'[b] = unpinned_list[b],
           \A p \in Int : Has(unpinned_list'[call.asma], p) <=>
                             Has(unpinned_list[call.asma], p) \/ Within(p),
           \A p \in Int : HasPurged(unpinned_list[call.asma], p) \/ Reports(call.asma, p)
                             => HasPurged(unpinned_list'[call.asma], p)
    PROVE  AshInv'
<1> DEFINE a == call.asma
<1>1. size' = size /\ file' = file /\ storing' = storing /\ had' = had
      /\ lost' = lost /\ alloc_failed' = alloc_failed
  BY DEF areaVars
<1>2. RequestOK /\ a \in Areas /\ call.pgstart \in Int /\ call.pgend \in Int
  BY DEF AshInv, CallInv, RequestOK, Calls
<1>3. /\ call.req \subseteq call.pgstart .. call.pgend
      /\ call.pgstart .. call.pgend \subseteq call.req \cup given_up[a]
      /\ call.pgstart .. call.pgend \subseteq 0 .. MaxSize - 1 /\ file[a]
  <2>1. MaxSize \in Int
    BY <1>2, AshmemAssumption DEF AshInv, AreaInv
  <2> QED
    BY <1>2, <2>1 DEF RequestOK
<1>4. /\ given_up'[a] = given_up[a] \cup call.req
      /\ \A b \in Areas : b # a => given_up'[b] = given_up[b]
      /\ given_up' \in [Areas -> SUBSET Int]
  <2>1. call.req \in SUBSET Int
    BY <1>2, <1>3
  <2> QED
    BY <1>2, <2>1 DEF AshInv, HistInv
<1>5. AreaInv'
  BY <1>1 DEF AshInv, AreaInv
<1>6. CallInv'
  BY NoCallType DEF CallInv
<1>7. HistInv'
  BY <1>1, <1>2, <1>3, <1>4 DEF AshInv, HistInv
<1>8. PageInv'
  <2> SUFFICES ASSUME NEW b \in Areas
               PROVE  OnlyGiven(b)' /\ (~alloc_failed' => AllGiven(b)' /\ AllLost(b)')
    BY DEF PageInv
  <2>1. OnlyGiven(b) /\ (~alloc_failed => AllGiven(b) /\ AllLost(b))
    BY DEF AshInv, PageInv
  <2>2. CASE b # a
    <3>1. unpinned_list'[b] = unpinned_list[b]
      BY <2>2
    <3>2. \A p : ~Waits(b, p) /\ ~Reports(b, p)
      BY <2>2 DEF Waits, Reports
    <3> QED
      BY <1>1, <1>4, <2>1, <2>2, <3>1, <3>2 DEF OnlyGiven, AllGiven, AllLost
  <2>3. CASE b = a
    <3>1. \A p \in Int : Within(p) <=> p \in call.pgstart .. call.pgend
      BY <1>2 DEF Within
    <3>2. OnlyGiven(b)'
      BY <1>3, <1>4, <2>1, <2>3, <3>1 DEF OnlyGiven
    <3>3. given_up[b] \subseteq Int /\ lost[b] \subseteq Int /\ call.req \subseteq Int
      BY <1>2, <1>3 DEF AshInv, HistInv
    <3>4. \A p : Waits(b, p) => Within(p)
      BY DEF Waits
    <3>5. ~alloc_failed' => AllGiven(b)'
      BY <1>1, <1>3, <1>4, <2>1, <2>3, <3>1, <3>3, <3>4 DEF AllGiven
    <3>6. ASSUME ~alloc_failed, NEW p \in lost[b]
          PROVE  HasPurged(unpinned_list'[b], p)
      <4>1. p \in Int
        BY <3>3
      <4>2. HasPurged(unpinned_list[b], p) \/ Reports(b, p)
        BY <2>1, <3>6 DEF AllLost
      <4> QED
        BY <2>3, <4>1, <4>2
    <3>7. ~alloc_failed' => AllLost(b)'
      BY <1>1, <3>6 DEF AllLost
    <3> QED
      BY <3>2, <3>5, <3>7
  <2> QED
    BY <2>2, <2>3
<1> QED
  BY <1>5, <1>6, <1>7, <1>8 DEF AshInv

(* ashmem_unpin returns: the request was on the list already, or there is  *)
(* room for it where the walk ended, because every range that overlapped   *)
(* has been merged.                                                        *)
LEMMA UnpinReturnsInv ==
    ASSUME AshInv, UnpinReturns
    PROVE  AshInv'
<1> DEFINE a == call.asma
           l == unpinned_list[a]
           s == call.pgstart
           e == call.pgend
<1>1. /\ call.op = "unpin" /\ call' = NoCall
      /\ UNCHANGED <<areaVars, lost, alloc_failed>> /\ UNCHANGED areaVars
      /\ given_up' = [given_up EXCEPT ![a] = @ \cup call.req]
  BY DEF UnpinReturns
<1>2. /\ a \in Areas /\ file[a] /\ s \in Nat /\ e \in Int /\ e >= s - 1 /\ e <= MaxSize - 1
      /\ call.purged \in BOOLEAN
  BY <1>1 DEF AshInv, CallInv, RequestOK, Calls
<1>3. /\ MaxSize \in Int /\ GoodList(l, MaxSize) /\ l \in Seq(Ranges)
      /\ AreaInv /\ ListInv /\ LruInv
  BY <1>2, AshmemAssumption DEF AshInv, ListInv, AreaInv
<1>4. CASE /\ Todo # {} /\ page_range_subsumed_by_range(NextRange, s, e)
           /\ UNCHANGED listVars
  <2>1. /\ unpinned_list' = unpinned_list /\ ashmem_lru_list' = ashmem_lru_list
        /\ lru_count' = lru_count /\ size' = size /\ file' = file /\ storing' = storing /\ had' = had
    BY <1>1, <1>4 DEF listVars, areaVars
  <2>2. ListInv' /\ LruInv'
    BY <1>3, <2>1 DEF ListInv, LruInv
  <2>3. /\ NextHit \in 1 .. Len(l) /\ NextRange = l[NextHit]
        /\ NextRange.pgstart \in Nat /\ NextRange.pgend \in Int
    BY <1>1, <1>4, NextHitResult
  <2>4. \A p \in Int : Within(p) => Has(l, p)
    BY <1>2, <1>4, <2>3 DEF Within, Has, page_range_subsumed_by_range
  <2>5. \A p \in Int : ~Reports(a, p)
    BY <1>1, <2>4 DEF Reports
  <2>6. \A p \in Int : Has(unpinned_list'[a], p) <=> Has(l, p) \/ Within(p)
    BY <2>1, <2>4
  <2>7. \A p \in Int : HasPurged(l, p) \/ Reports(a, p) => HasPurged(unpinned_list'[a], p)
    BY <2>1, <2>5
  <2>8. \A b \in Areas : b # a => unpinned_list'[b] = unpinned_list[b]
    BY <2>1
  <2> QED
    BY <1>1, <2>2, <2>6, <2>7, <2>8, UnpinDoneInv
<1>5. ASSUME Todo = {}, NEW tag \in Tags(l, s, e),
             range_alloc(a, InsertionPoint(l, s),
                         [pgstart |-> s, pgend |-> e, purged |-> call.purged, tag |-> tag])
      PROVE  AshInv'
  <2> DEFINE i == InsertionPoint(l, s)
             r == [pgstart |-> s, pgend |-> e, purged |-> call.purged, tag |-> tag]
  <2>1. Hits(l, s, e) = {}
    BY <1>5 DEF Todo
  <2>2. tag \in Nat /\ (e < s => \A k \in 1 .. Len(l) : l[k].tag # tag)
    <3>1. DOMAIN l = 1 .. Len(l)
      BY <1>3, ElementType
    <3>2. s <= e \/ e < s
      BY <1>2
    <3> QED
      BY <1>2, <1>5, <3>1, <3>2, AshmemAssumption DEF Tags
  <2>3. /\ r \in Ranges /\ r.pgstart = s /\ r.pgend = e /\ r.tag = tag
        /\ (r.purged <=> call.purged)
    BY <1>2, <2>2 DEF Ranges
  <2>4. range_alloc(a, i, r)
    BY <1>5
  <2>5. /\ i \in 1 .. Len(l) + 1
        /\ \A k \in 1 .. Len(l) : k < i => l[k].pgstart > e
        /\ \A k \in 1 .. Len(l) : k >= i => s > l[k].pgend
    <3>1. s \in Int
      BY <1>2
    <3> HIDE DEF l, s, e
    <3> QED
      BY <1>2, <1>3, <2>1, <3>1, InsertionRoom
  <2> HIDE DEF i, r
  <2>6. GoodList(InsertAt(l, i, r), MaxSize)
    <3>1. r.pgstart <= MaxSize /\ r.pgend \in r.pgstart - 1 .. MaxSize - 1
      BY <1>2, <1>3, <2>3
    <3>2. /\ \A k \in 1 .. Len(l) : k < i => l[k].pgstart > r.pgend
          /\ \A k \in 1 .. Len(l) : k >= i => r.pgstart > l[k].pgend
          /\ r.pgend < r.pgstart => \A k \in 1 .. Len(l) : l[k].tag # r.tag
      BY <2>2, <2>3, <2>5
    <3> HIDE DEF l, s, e
    <3> QED
      BY <1>3, <2>3, <2>5, <3>1, <3>2, InsertGood
  <2>7. /\ ListInv' /\ LruInv' /\ unpinned_list'[a] = InsertAt(l, i, r)
        /\ \A b \in Areas : b # a => unpinned_list'[b] = unpinned_list[b]
    <3>1. r.pgend >= r.pgstart - 1
      BY <1>2, <2>3
    <3> QED
      BY <1>1, <1>2, <1>3, <2>3, <2>4, <2>5, <2>6, <3>1, AllocStep
  <2>8. ASSUME NEW p \in Int
        PROVE  /\ Has(unpinned_list'[a], p) <=> Has(l, p) \/ Within(p)
               /\ HasPurged(l, p) \/ (call.purged /\ Within(p)) => HasPurged(unpinned_list'[a], p)
    <3>1. /\ Has(InsertAt(l, i, r), p) <=> Has(l, p) \/ (r.pgstart <= p /\ p <= r.pgend)
          /\ HasPurged(InsertAt(l, i, r), p) <=>
                HasPurged(l, p) \/ (r.purged /\ r.pgstart <= p /\ p <= r.pgend)
      BY <1>3, <2>3, <2>5, InsertPages
    <3>2. Within(p) <=> r.pgstart <= p /\ p <= r.pgend
      BY <2>3 DEF Within
    <3> QED
      BY <2>3, <2>7, <3>1, <3>2
  <2>9. \A p \in Int : Reports(a, p) => call.purged /\ Within(p)
    BY <1>1 DEF Reports
  <2>10. \A p \in Int : HasPurged(l, p) \/ Reports(a, p) => HasPurged(unpinned_list'[a], p)
    BY <2>8, <2>9
  <2> QED
    BY <1>1, <2>7, <2>8, <2>10, UnpinDoneInv
<1> QED
  BY <1>4, <1>5 DEF UnpinReturns

(* -ENOMEM: the merged ranges are gone with what was known of them.        *)
LEMMA UnpinAllocFailsInv ==
    ASSUME AshInv, UnpinAllocFails
    PROVE  AshInv'
<1>1. /\ size' = size /\ file' = file /\ storing' = storing /\ had' = had
      /\ unpinned_list' = unpinned_list
      /\ ashmem_lru_list' = ashmem_lru_list /\ lru_count' = lru_count
      /\ given_up' = given_up /\ lost' = lost /\ alloc_failed' = TRUE /\ call' = NoCall
  BY DEF UnpinAllocFails, areaVars, listVars
<1>2. CallInv'
  BY <1>1, NoCallType DEF CallInv
<1>3. PageInv'
  BY <1>1 DEF AshInv, PageInv, OnlyGiven
<1> QED
  BY <1>1, <1>2, <1>3 DEF AshInv, AreaInv, ListInv, LruInv, HistInv

-----------------------------------------------------------------------------
(* ashmem_release and ashmem_shrink.                                       *)

(* An iteration of ashmem_release takes the first range off.               *)
LEMMA ReleaseRangeInv ==
    ASSUME AshInv, ReleaseRange
    PROVE  AshInv'
<1> DEFINE a == call.asma
           l == unpinned_list[a]
<1>1. /\ call.op = "release" /\ l # <<>> /\ range_del(a, 1) /\ UNCHANGED areaVars
      /\ size' = size /\ file' = file /\ storing' = storing /\ had' = had
      /\ call' = call
      /\ given_up' = given_up /\ lost' = lost /\ alloc_failed' = alloc_failed
  BY DEF ReleaseRange, areaVars, histVars
<1>2. a \in Areas /\ AreaInv /\ ListInv /\ LruInv
  BY <1>1 DEF AshInv, CallInv
<1>3. 1 \in 1 .. Len(l)
  <2>1. l \in Seq(Ranges)
    BY <1>2 DEF ListInv
  <2> HIDE DEF l
  <2>2. Len(l) \in Nat /\ Len(l) # 0
    BY <1>1, <2>1, EmptySeq, LenProperties
  <2> QED
    BY <2>2
<1>4. /\ ListInv' /\ LruInv'
      /\ \A b \in Areas : b # a => unpinned_list'[b] = unpinned_list[b]
      /\ \A p \in Int : Has(unpinned_list'[a], p) => Has(l, p)
  BY <1>1, <1>2, <1>3, DelStep DEF Keeps
<1>5. CallInv'
  BY <1>1 DEF AshInv, CallInv
<1>6. PageInv'
  <2> SUFFICES ASSUME NEW b \in Areas
               PROVE  OnlyGiven(b)' /\ (~alloc_failed' => AllGiven(b)' /\ AllLost(b)')
    BY DEF PageInv
  <2>1. OnlyGiven(b) /\ (~alloc_failed => AllGiven(b) /\ AllLost(b))
    BY DEF AshInv, PageInv
  <2>2. CASE b # a
    BY <1>1, <1>4, <2>1, <2>2 DEF OnlyGiven, AllGiven, AllLost, Waits, Reports
  <2>3. CASE b = a
    BY <1>1, <1>4, <2>1, <2>3 DEF OnlyGiven, AllGiven, AllLost, Waits, Reports
  <2> QED
    BY <2>2, <2>3
<1> QED
  BY <1>1, <1>4, <1>5, <1>6 DEF AshInv, AreaInv, HistInv

(* ashmem_release frees the area; it is opened anew, without a size.       *)
LEMMA ReleaseReturnsInv ==
    ASSUME AshInv, ReleaseReturns
    PROVE  AshInv'
<1> DEFINE a == call.asma
<1>1. /\ call.op = "release" /\ unpinned_list[a] = <<>> /\ call' = NoCall
      /\ size' = [size EXCEPT ![a] = 0] /\ file' = [file EXCEPT ![a] = FALSE]
      /\ had' = [had EXCEPT ![a] = {}] /\ storing' = storing
      /\ given_up' = [given_up EXCEPT ![a] = {}] /\ lost' = [lost EXCEPT ![a] = {}]
      /\ unpinned_list' = unpinned_list /\ ashmem_lru_list' = ashmem_lru_list
      /\ lru_count' = lru_count /\ alloc_failed' = alloc_failed
  BY DEF ReleaseReturns, listVars
<1>2. a \in Areas
  BY <1>1 DEF AshInv, CallInv
<1>3. /\ file'[a] = FALSE /\ given_up'[a] = {} /\ lost'[a] = {}
      /\ \A b \in Areas : b # a => /\ file'[b] = file[b]
                                   /\ given_up'[b] = given_up[b] /\ lost'[b] = lost[b]
  BY <1>1, <1>2 DEF AshInv, AreaInv, HistInv
<1>4. AreaInv'
  BY <1>1, <1>2, <1>3, AshmemAssumption DEF AshInv, AreaInv
<1>5. ListInv'
  <2>1. GoodList(unpinned_list[a], MaxSize)
    BY <1>1, EmptyGood, AshmemAssumption
  <2>2. \A b \in Areas : /\ GoodList(unpinned_list'[b], MaxSize)
                         /\ unpinned_list'[b] # <<>> => file'[b]
    BY <1>1, <1>3, <2>1 DEF AshInv, ListInv
  <2> QED
    BY <1>1, <2>2 DEF AshInv, ListInv
<1>6. LruInv'
  BY <1>1 DEF AshInv, LruInv
<1>7. CallInv'
  BY <1>1, NoCallType DEF CallInv
<1>8. HistInv'
  BY <1>1, <1>2, <1>3 DEF AshInv, HistInv
<1>9. PageInv'
  <2> SUFFICES ASSUME NEW b \in Areas
               PROVE  OnlyGiven(b)' /\ (~alloc_failed' => AllGiven(b)' /\ AllLost(b)')
    BY DEF PageInv
  <2>1. OnlyGiven(b) /\ (~alloc_failed => AllGiven(b) /\ AllLost(b))
    BY DEF AshInv, PageInv
  <2>2. CASE b # a
    BY <1>1, <1>3, <2>1, <2>2 DEF OnlyGiven, AllGiven, AllLost, Waits, Reports
  <2>3. CASE b = a
    BY <1>1, <1>3, <2>3, EmptyGood DEF OnlyGiven, AllGiven, AllLost
  <2> QED
    BY <2>2, <2>3
<1> QED
  BY <1>4, <1>5, <1>6, <1>7, <1>8, <1>9 DEF AshInv

(* An iteration of ashmem_shrink: what it purges was given up.             *)
LEMMA ShrinkRangeInv ==
    ASSUME AshInv, ShrinkRange
    PROVE  AshInv'
<1> DEFINE e == Head(ashmem_lru_list)
           a == e.asma
           left == call.nr_to_scan - range_size(e)
<1>1. /\ call.op = "shrink" /\ size' = size /\ file' = file /\ storing' = storing /\ had' = had
      /\ given_up' = given_up /\ alloc_failed' = alloc_failed
      /\ lost' = [lost EXCEPT ![a] = @ \cup PagesOf(e)]
      /\ call' = IF left <= 0 \/ Len(ashmem_lru_list) = 1 THEN NoCall
                 ELSE [call EXCEPT !.nr_to_scan = left]
  BY DEF ShrinkRange, areaVars
<1>2. ashmem_lru_list # <<>> /\ call \in Calls /\ AreaInv /\ ListInv /\ LruInv
  BY <1>1 DEF AshInv, CallInv
<1>3. /\ ListInv' /\ LruInv' /\ a \in Areas
      /\ \A b \in Areas : b # a => unpinned_list'[b] = unpinned_list[b]
      /\ \A p \in Int : Has(unpinned_list'[a], p) <=> Has(unpinned_list[a], p)
      /\ \A p \in Int : HasPurged(unpinned_list[a], p) => HasPurged(unpinned_list'[a], p)
      /\ \A p \in PagesOf(e) : p \in Int /\ HasPurged(unpinned_list'[a], p)
      /\ Len(ashmem_lru_list) # 1 => ashmem_lru_list' # <<>>
  BY <1>2, PurgeStep
<1>4. left \in Int
  <2>1. e = ashmem_lru_list[1] /\ 1 \in 1 .. Len(ashmem_lru_list)
    BY <1>2, LruTail DEF LruInv
  <2>2. e \in Entries
    <3> HIDE DEF e
    <3> QED
      BY <1>2, <2>1, LruFinite DEF LruInv
  <2> HIDE DEF e
  <2> QED
    BY <1>2, <2>2 DEF Calls, Entries, range_size
<1> HIDE DEF left, e
<1>5. PagesOf(e) \subseteq given_up[a]
  <2>1. ASSUME NEW p \in PagesOf(e)
        PROVE  p \in given_up[a]
    <3>1. p \in Int /\ Has(unpinned_list'[a], p)
      BY <1>3 DEF Has, HasPurged
    <3>2. Has(unpinned_list[a], p)
      BY <1>3, <3>1
    <3> QED
      BY <1>3, <3>1, <3>2 DEF AshInv, PageInv, OnlyGiven
  <2> QED
    BY <2>1
<1> HIDE DEF a
<1>6. /\ call' \in Calls
      /\ call'.op = "none" => call' = NoCall
      /\ call'.op \in {"none", "shrink"}
      /\ call'.op = "shrink" => ashmem_lru_list' # <<>>
  <2>1. CASE left <= 0 \/ Len(ashmem_lru_list) = 1
    BY <1>1, <2>1, NoCallType
  <2>2. CASE ~(left <= 0 \/ Len(ashmem_lru_list) = 1)
    <3>1. call' = [call EXCEPT !.nr_to_scan = left]
      BY <1>1, <2>2
    <3>2. call' \in Calls /\ call'.op = "shrink"
      BY <1>1, <1>2, <1>4, <3>1 DEF Calls
    <3> QED
      BY <1>3, <2>2, <3>2
  <2> QED
    BY <2>1, <2>2
<1>7. CallInv'
  BY <1>6 DEF CallInv
<1>8. /\ lost'[a] = lost[a] \cup PagesOf(e) /\ lost' \in [Areas -> SUBSET Int]
      /\ \A b \in Areas : b # a => lost'[b] = lost[b]
  BY <1>1, <1>3 DEF AshInv, HistInv
<1>9. HistInv'
  BY <1>1, <1>3, <1>5, <1>8 DEF AshInv, HistInv
<1>10. PageInv'
  <2> SUFFICES ASSUME NEW b \in Areas
               PROVE  OnlyGiven(b)' /\ (~alloc_failed' => AllGiven(b)' /\ AllLost(b)')
    BY DEF PageInv
  <2>1. /\ OnlyGiven(b) /\ (~alloc_failed => AllGiven(b) /\ AllLost(b))
        /\ given_up[b] \subseteq Int /\ lost[b] \subseteq Int
    BY DEF AshInv, PageInv, HistInv
  <2>2. \A p : ~Waits(b, p) /\ ~Reports(b, p)
    BY <1>1 DEF Waits, Reports
  <2>3. CASE b # a
    BY <1>1, <1>3, <1>8, <2>1, <2>2, <2>3 DEF OnlyGiven, AllGiven, AllLost
  <2>4. CASE b = a
    BY <1>1, <1>3, <1>8, <2>1, <2>2, <2>4 DEF OnlyGiven, AllGiven, AllLost
  <2> QED
    BY <2>3, <2>4
<1> QED
  BY <1>1, <1>3, <1>7, <1>9, <1>10 DEF AshInv, AreaInv

-----------------------------------------------------------------------------
(* The theorems.                                                           *)

(* Every step keeps the invariant.                                         *)
LEMMA AshNextInv ==
    ASSUME AshInv, [AshNext]_ashVars
    PROVE  AshInv'
<1>1. ASSUME NEW a \in Areas, NEW n \in Sizes[a], ASHMEM_SET_SIZE(a, n)
      PROVE  AshInv'
  BY <1>1, SetSizeInv
<1>16. ASSUME NEW a \in Areas, NEW n \in Sizes[a], StoreSize(a, n)
       PROVE  AshInv'
  BY <1>16, StoreSizeInv
<1>2. ASSUME NEW a \in Areas, ashmem_mmap(a)
      PROVE  AshInv'
  BY <1>2, MmapInv
<1>3. ASSUME NEW a \in Areas, ashmem_release(a)
      PROVE  AshInv'
  BY <1>3, ReleaseInv
<1>4. ASSUME NEW a \in Areas, NEW cmd \in {"pin", "unpin"}, NEW n \in had[a],
             NEW offset \in 0 .. MaxSize, NEW len \in 0 .. MaxSize,
             ashmem_pin_unpin(a, cmd, n, offset, len)
      PROVE  AshInv'
  BY <1>4, PinUnpinInv
<1>5. ASSUME NEW n \in 1 .. MaxScan, ashmem_shrink(n)
      PROVE  AshInv'
  BY <1>5, ShrinkInv
<1>6. CASE PinRange
  BY <1>6, PinRangeInv
<1>7. CASE PinAllocFails
  BY <1>7, PinAllocFailsInv
<1>8. CASE PinReturns
  BY <1>8, PinReturnsInv
<1>9. CASE UnpinRange
  BY <1>9, UnpinRangeInv
<1>10. CASE UnpinReturns
  BY <1>10, UnpinReturnsInv
<1>11. CASE UnpinAllocFails
  BY <1>11, UnpinAllocFailsInv
<1>12. CASE ReleaseRange
  BY <1>12, ReleaseRangeInv
<1>13. CASE ReleaseReturns
  BY <1>13, ReleaseReturnsInv
<1>14. CASE ShrinkRange
  BY <1>14, ShrinkRangeInv
<1>15. CASE UNCHANGED ashVars
  BY <1>15 DEF ashVars, areaVars, listVars, histVars, AshInv, AreaInv, ListInv, LruInv,
               CallInv, RequestOK, HistInv, PageInv, OnlyGiven, AllGiven, AllLost,
               Waits, Reports, Within
<1> QED
  BY <1>1, <1>2, <1>3, <1>4, <1>5, <1>6, <1>7, <1>8, <1>9, <1>10, <1>11, <1>12, <1>13,
     <1>14, <1>15, <1>16 DEF AshNext

(* The inductive invariant holds in every reachable state, for every       *)
(* number of areas and any sizes: through each step of each call that     *)
(* holds ashmem_mutex, whichever allocations fail.                         *)
THEOREM AshInvariant ==
    AshSpec => []AshInv
<1>1. AshInit => AshInv
  BY AshInitInv
<1>2. AshInv /\ [AshNext]_ashVars => AshInv'
  BY AshNextInv
<1> QED
  BY <1>1, <1>2, PTL DEF AshSpec

(* ToSet and the indices of a list.                                        *)
LEMMA ToSetOf ==
    ASSUME NEW S, NEW l \in Seq(S)
    PROVE  /\ ToSet(l) = {l[i] : i \in 1 .. Len(l)} /\ DOMAIN l = 1 .. Len(l)
  BY LenProperties DEF ToSet

(* The list of an area, by its indices.                                    *)
LEMMA ListType ==
    ASSUME AshInv, NEW a \in Areas
    PROVE  LET l == unpinned_list[a]
           IN  /\ l \in Seq(Ranges) /\ GoodList(l, MaxSize) /\ MaxSize \in Int
               /\ DOMAIN l = 1 .. Len(l) /\ ToSet(l) = {l[i] : i \in 1 .. Len(l)}
<1> DEFINE l == unpinned_list[a]
<1>1. l \in Seq(Ranges) /\ GoodList(l, MaxSize) /\ MaxSize \in Int
  BY AshmemAssumption DEF AshInv, ListInv
<1> HIDE DEF l
<1>2. DOMAIN l = 1 .. Len(l) /\ ToSet(l) = {l[i] : i \in 1 .. Len(l)}
  BY <1>1, ToSetOf
<1> QED
  BY <1>1, <1>2 DEF l

(* The invariant implies type correctness.                                 *)
LEMMA AshTypes ==
    AshInv => AshTypeOK
<1> SUFFICES ASSUME AshInv
             PROVE  AshTypeOK
  OBVIOUS
<1>1. /\ size \in [Areas -> 0 .. MaxSize] /\ file \in [Areas -> BOOLEAN]
      /\ storing \in [Areas -> SUBSET (1 .. MaxSize)] /\ had \in [Areas -> SUBSET (1 .. MaxSize)]
      /\ unpinned_list \in [Areas -> Seq(Ranges)] /\ alloc_failed \in BOOLEAN
      /\ \A a \in Areas :
            /\ file[a] <=> had[a] # {}
            /\ given_up[a] \subseteq 0 .. MaxSize - 1 /\ lost[a] \subseteq given_up[a]
  BY DEF AshInv, AreaInv, ListInv, HistInv
<1>2. ASSUME NEW a \in Areas, NEW r \in ToSet(unpinned_list[a])
      PROVE  /\ file[a]
             /\ r.pgend \in r.pgstart - 1 .. MaxSize - 1
  <2>1. PICK i \in 1 .. Len(unpinned_list[a]) : r = unpinned_list[a][i]
    BY ListType
  <2>2. file[a]
    BY RangeFacts DEF AshInv
  <2> QED
    BY <2>1, <2>2, ListType DEF GoodList
<1>3. lru_count \in Nat
  BY LruFinite DEF AshInv, LruInv
<1>4. call = NoCall \/ call.op \in {"pin", "unpin", "release", "shrink"}
  BY DEF AshInv, CallInv, Calls
<1> QED
  BY <1>1, <1>2, <1>3, <1>4 DEF AshTypeOK

(* Types are right, and the list of an area stays sorted and its ranges    *)
(* disjoint: range_alloc always adds a range where there is room for it,   *)
(* though the walks of ashmem_pin and ashmem_unpin stop early.             *)
THEOREM AshRangesSorted ==
    AshSpec => []RangesSorted
<1>1. AshInv => RangesSorted
  <2> SUFFICES ASSUME AshInv
               PROVE  RangesSorted
    OBVIOUS
  <2>1. AshTypeOK
    BY AshTypes
  <2>2. ASSUME NEW a \in Areas, NEW i \in DOMAIN unpinned_list[a],
               NEW j \in DOMAIN unpinned_list[a], i < j
        PROVE  unpinned_list[a][i].pgstart > unpinned_list[a][j].pgend
    <3>1. /\ GoodList(unpinned_list[a], MaxSize)
          /\ i \in 1 .. Len(unpinned_list[a]) /\ j \in 1 .. Len(unpinned_list[a])
      BY ListType
    <3> QED
      BY <2>2, <3>1 DEF GoodList
  <2> QED
    BY <2>1, <2>2 DEF RangesSorted
<1> QED
  BY <1>1, AshInvariant, PTL

(* The LRU list holds exactly the ranges that are not purged, each once,   *)
(* and lru_count is the number of their pages: range_del, range_shrink,    *)
(* range_alloc and the shrinker never let the two lists drift apart, and   *)
(* the count never wraps below zero.                                       *)
THEOREM AshLruExact ==
    AshSpec => []LruExact
<1>1. AshInv => LruExact
  <2> SUFFICES ASSUME AshInv
               PROVE  LruExact
    OBVIOUS
  <2> DEFINE lru == ashmem_lru_list
  <2>1. LruOf(lru, lru_count, Listed(unpinned_list))
    BY DEF AshInv, LruInv
  <2>2. DOMAIN lru = 1 .. Len(lru) /\ ToSet(lru) = {lru[k] : k \in 1 .. Len(lru)}
    <3>1. lru \in Seq(Entries)
      BY <2>1 DEF LruOf
    <3> HIDE DEF lru
    <3> QED
      BY <3>1, ToSetOf
  <2>3. ToSet(lru) = Listed(unpinned_list)
    BY <2>1, <2>2 DEF LruOf
  <2>4. ASSUME NEW a \in Areas
        PROVE  EntriesOf(unpinned_list[a], a) =
                  {OnLru(a, r) : r \in {x \in ToSet(unpinned_list[a]) : ~x.purged}}
    <3> DEFINE l == unpinned_list[a]
    <3>1. ToSet(l) = {l[i] : i \in 1 .. Len(l)}
      BY ListType
    <3> HIDE DEF l
    <3>2. EntriesOf(l, a) = {OnLru(a, r) : r \in {x \in ToSet(l) : ~x.purged}}
      BY <3>1 DEF EntriesOf
    <3> QED
      BY <3>2 DEF l
  <2>5. Listed(unpinned_list) =
           UNION {{OnLru(a, r) : r \in {x \in ToSet(unpinned_list[a]) : ~x.purged}} : a \in Areas}
    BY <2>4 DEF Listed
  <2>6. /\ \A j, k \in DOMAIN lru : lru[j] = lru[k] => j = k
        /\ lru_count = TotalSize(ToSet(lru))
    BY <2>1, <2>2, <2>3 DEF LruOf
  <2> QED
    BY <2>3, <2>5, <2>6 DEF LruExact
<1> QED
  BY <1>1, AshInvariant, PTL

(* The pages of an area's list.                                            *)
LEMMA UnpinnedHas ==
    ASSUME AshInv, NEW a \in Areas
    PROVE  UnpinnedPages(a) = {p \in Int : Has(unpinned_list[a], p)}
<1> DEFINE l == unpinned_list[a]
<1>1. l \in Seq(Ranges) /\ ToSet(l) = {l[i] : i \in 1 .. Len(l)}
  BY ListType
<1>2. UnpinnedPages(a) = UNION {PagesOf(r) : r \in ToSet(l)}
  BY DEF UnpinnedPages
<1> HIDE DEF l
<1>3. \A i \in 1 .. Len(l) : l[i].pgstart \in Int /\ l[i].pgend \in Int
  BY <1>1, ElementType
<1>4. ASSUME NEW p
      PROVE  p \in UnpinnedPages(a) <=> \E i \in 1 .. Len(l) : p \in PagesOf(l[i])
  BY <1>1, <1>2
<1>5. ASSUME NEW p, NEW i \in 1 .. Len(l)
      PROVE  p \in PagesOf(l[i]) <=> p \in Int /\ l[i].pgstart <= p /\ p <= l[i].pgend
  BY <1>3 DEF PagesOf
<1>6. UnpinnedPages(a) = {p \in Int : Has(l, p)}
  BY <1>4, <1>5 DEF Has
<1> QED
  BY <1>6 DEF l

(* Between two calls no page is being dealt with.                          *)
LEMMA Idle ==
    ASSUME call = NoCall
    PROVE  \A a, p : ~Waits(a, p) /\ ~Reports(a, p)
  BY NoCallType DEF Waits, Reports

(* Only pages that user space has given up with UNPIN, and not pinned      *)
(* since, are on the lists that ashmem_shrink takes its victims from; and  *)
(* between two calls all of those are on them, unless an allocation has    *)
(* failed.                                                                 *)
THEOREM AshOnlyGivenUp ==
    AshSpec => []OnlyGivenUp
<1>1. AshInv => OnlyGivenUp
  <2> SUFFICES ASSUME AshInv, NEW a \in Areas
               PROVE  /\ UnpinnedPages(a) \subseteq given_up[a]
                      /\ ~alloc_failed /\ call = NoCall => UnpinnedPages(a) = given_up[a]
    BY DEF OnlyGivenUp
  <2>1. /\ OnlyGiven(a) /\ (~alloc_failed => AllGiven(a))
        /\ given_up[a] \subseteq Int
    BY DEF AshInv, PageInv, HistInv
  <2>2. UnpinnedPages(a) \subseteq given_up[a]
    BY <2>1, UnpinnedHas DEF OnlyGiven
  <2>3. ASSUME ~alloc_failed, call = NoCall
        PROVE  given_up[a] \subseteq UnpinnedPages(a)
    BY <2>1, <2>3, Idle, UnpinnedHas DEF AllGiven
  <2> QED
    BY <2>2, <2>3
<1> QED
  BY <1>1, AshInvariant, PTL

(* Between two calls, ashmem_pin of a page that was purged since it was    *)
(* given up returns ASHMEM_WAS_PURGED, however its range was split and     *)
(* merged before; and a PIN of any pages, when it is done, has met the     *)
(* purge of each of them - unless an allocation has failed.                *)
THEOREM AshPurgeRemembered ==
    AshSpec => []PurgeRemembered
<1>1. ASSUME AshInv, ~alloc_failed, call = NoCall, NEW a \in Areas, NEW p \in lost[a]
      PROVE  PinResult(a, p)
  <2> DEFINE l == unpinned_list[a]
  <2>1. AllLost(a) /\ p \in Int
    BY <1>1 DEF AshInv, PageInv, HistInv
  <2>2. HasPurged(l, p)
    BY <1>1, <2>1, Idle DEF AllLost
  <2>3. PICK i \in 1 .. Len(l) : l[i].purged /\ l[i].pgstart <= p /\ p <= l[i].pgend
    BY <2>2 DEF HasPurged
  <2>4. GoodList(l, MaxSize) /\ MaxSize \in Int
    BY <1>1, ListType
  <2>5. i \in Hits(l, p, p)
    <3>1. p <= p
      BY <2>1
    <3> HIDE DEF l
    <3> QED
      BY <2>1, <2>3, <2>4, <3>1, OverlapHit
  <2> QED
    BY <2>3, <2>5 DEF PinResult
<1>2. ASSUME AshInv, ~alloc_failed, call.op = "pin", PinDone,
             NEW p \in call.req \cap lost[call.asma]
      PROVE  PinRet
  <2> DEFINE a == call.asma
  <2>1. a \in Areas
    BY <1>2 DEF AshInv, CallInv, RequestOK
  <2>2. AllLost(a) /\ p \in Int
    BY <1>2, <2>1 DEF AshInv, PageInv, HistInv
  <2>3. ~Has(unpinned_list[a], p)
    BY <1>2, <2>2, PinDoneResult
  <2>4. Reports(a, p)
    BY <2>2, <2>3 DEF AllLost, Has, HasPurged
  <2> QED
    BY <1>2, <2>4 DEF Reports, PinRet
<1>3. AshInv => PurgeRemembered
  BY <1>1, <1>2 DEF PurgeRemembered
<1> QED
  BY <1>3, AshInvariant, PTL

=============================================================================
