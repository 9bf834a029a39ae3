------------------------- MODULE UserWakeLockProofs -------------------------
(***************************************************************************)
(* Proofs about UserWakeLock: for every set of names and in a tree of      *)
(* every shape each name has its one lock, in the state in which user      *)
(* space last asked for it, with the timeout that was asked for.           *)
(*                                                                         *)
(* The tree is sorted.  That the lookup keeps it so, and finds what is in  *)
(* it, rests on the comparison being an order of names, although strncmp   *)
(* looks only at as many characters as the name looked for has.            *)
(***************************************************************************)
EXTENDS UserWakeLock, WellFoundedInduction, TLAPS

-----------------------------------------------------------------------------
(* The order of names.                                                     *)

(* Every set of numbers that is not empty has a least one.                 *)
LEMMA LeastNumber ==
    ASSUME NEW T \in SUBSET Nat, T # {}
    PROVE  \E n \in T : \A m \in T : n <= m
<1>1. PICK n \in T : \A m \in T : ~ (<<m, n>> \in OpToRel(<, Nat))
  BY WFMin, NatLessThanWellFounded
<1>2. \A m \in T : ~ (m < n)
  BY <1>1 DEF OpToRel
<1> QED
  BY <1>2

(* Min is that least number.                                               *)
LEMMA MinResult ==
    ASSUME NEW T \in SUBSET Nat, T # {}
    PROVE  Min(T) \in T /\ \A m \in T : Min(T) <= m
  BY LeastNumber DEF Min

(* The characters of a string are not NUL.                                 *)
String == Seq(Nat \ {0})

(* a comes before b: it is shorter than b where they first differ, or has  *)
(* a smaller character there.                                              *)
At(a, b, i) ==
    /\ i \in 1 .. Len(b) /\ i <= Len(a) + 1
    /\ \A j \in 1 .. i - 1 : a[j] = b[j]
    /\ i <= Len(a) => a[i] < b[i]

Before(a, b) == \E i \in 1 .. Len(b) : At(a, b, i)

(* strncmp is 0 for a beginning of b, and else tells which comes before.   *)
LEMMA strncmpResult ==
    ASSUME NEW a \in String, NEW b \in String
    PROVE  /\ strncmp(a, b) \in Int
           /\ \/ /\ strncmp(a, b) = 0
                 /\ Len(a) <= Len(b) /\ \A j \in 1 .. Len(a) : a[j] = b[j]
              \/ strncmp(a, b) < 0 /\ Before(a, b)
              \/ strncmp(a, b) > 0 /\ Before(b, a)
<1> DEFINE differ == {i \in 1..Len(a) : i > Len(b) \/ a[i] # b[i]}
           i == Min(differ)
<1>1. /\ Len(a) \in Nat /\ Len(b) \in Nat
      /\ \A j \in 1 .. Len(a) : a[j] \in Nat \ {0}
      /\ \A j \in 1 .. Len(b) : b[j] \in Nat \ {0}
  BY DEF String
<1>2. CASE differ = {}
  <2>1. strncmp(a, b) = 0
    BY <1>2 DEF strncmp
  <2>2. \A j \in 1 .. Len(a) : j <= Len(b) /\ a[j] = b[j]
    BY <1>1, <1>2
  <2>3. Len(a) <= Len(b)
    BY <1>1, <2>2
  <2> QED
    BY <2>1, <2>2, <2>3
<1>3. CASE differ # {}
  <2>1. i \in differ /\ \A m \in differ : i <= m
    <3>1. differ \in SUBSET Nat
      BY <1>1
    <3> HIDE DEF differ
    <3> QED
      BY <1>3, <3>1, MinResult
  <2>2. strncmp(a, b) = IF i > Len(b) THEN a[i] ELSE a[i] - b[i]
    BY <1>3 DEF strncmp
  <2> HIDE DEF i
  <2>3. i \in 1 .. Len(a) /\ (i > Len(b) \/ a[i] # b[i])
    BY <2>1
  <2>4. \A j \in 1 .. i - 1 : j <= Len(b) /\ a[j] = b[j]
    BY <1>1, <2>1, <2>3
  <2>5. i <= Len(b) + 1
    BY <1>1, <2>3, <2>4
  <2>6. CASE i > Len(b)
    <3>1. strncmp(a, b) \in Int /\ strncmp(a, b) > 0
      BY <1>1, <2>2, <2>3, <2>6
    <3>2. At(b, a, i)
      BY <1>1, <2>3, <2>4, <2>5, <2>6 DEF At
    <3> QED
      BY <2>3, <3>1, <3>2 DEF Before
  <2>7. CASE i <= Len(b) /\ a[i] < b[i]
    <3>1. strncmp(a, b) \in Int /\ strncmp(a, b) < 0
      BY <1>1, <2>2, <2>3, <2>7
    <3>2. At(a, b, i)
      BY <1>1, <2>3, <2>4, <2>7 DEF At
    <3> QED
      BY <1>1, <2>3, <2>7, <3>1, <3>2 DEF Before
  <2>8. CASE i <= Len(b) /\ a[i] > b[i]
    <3>1. strncmp(a, b) \in Int /\ strncmp(a, b) > 0
      BY <1>1, <2>2, <2>3, <2>8
    <3>2. At(b, a, i)
      BY <1>1, <2>3, <2>4, <2>8 DEF At
    <3> QED
      BY <2>3, <3>1, <3>2 DEF Before
  <2> QED
    BY <1>1, <2>3, <2>6, <2>7, <2>8
<1> QED
  BY <1>2, <1>3

(* With the correction for a longer b it is 0 only for b itself.           *)
LEMMA DiffResult ==
    ASSUME NEW a \in String, NEW b \in String
    PROVE  \/ Diff(a, b) = 0 /\ a = b
           \/ Diff(a, b) < 0 /\ Before(a, b)
           \/ Diff(a, b) > 0 /\ Before(b, a)
<1>1. Len(a) \in Nat /\ Len(b) \in Nat
  BY DEF String
<1>2. CASE strncmp(a, b) # 0
  BY <1>2, strncmpResult DEF Diff
<1>3. CASE strncmp(a, b) = 0 /\ Len(b) > Len(a)
  <2>1. At(a, b, Len(a) + 1)
    BY <1>1, <1>3, strncmpResult DEF At
  <2> QED
    BY <1>1, <1>3, <2>1 DEF Diff, Before
<1>4. CASE strncmp(a, b) = 0 /\ ~(Len(b) > Len(a))
  <2>1. Len(a) = Len(b) /\ \A j \in 1 .. Len(a) : a[j] = b[j]
    BY <1>1, <1>4, strncmpResult
  <2>2. a = b
    <3>1. /\ DOMAIN a = 1 .. Len(a) /\ a = [j \in DOMAIN a |-> a[j]]
          /\ DOMAIN b = 1 .. Len(b) /\ b = [j \in DOMAIN b |-> b[j]]
      BY DEF String
    <3> QED
      BY <2>1, <3>1
  <2> QED
    BY <1>4, <2>2 DEF Diff
<1> QED
  BY <1>2, <1>3, <1>4

(* Before is an order.                                                     *)
LEMMA BeforeIrreflexive ==
    ASSUME NEW a \in String, Before(a, a)
    PROVE  FALSE
  BY DEF Before, At, String

(* A name before one that is before a third is before that too.            *)
LEMMA BeforeTransitive ==
    ASSUME NEW a \in String, NEW b \in String, NEW c \in String,
           Before(a, b), Before(b, c)
    PROVE  Before(a, c)
<1>1. /\ Len(a) \in Nat /\ Len(b) \in Nat /\ Len(c) \in Nat
      /\ \A j \in 1 .. Len(a) : a[j] \in Nat
      /\ \A j \in 1 .. Len(b) : b[j] \in Nat
      /\ \A j \in 1 .. Len(c) : c[j] \in Nat
  BY DEF String
<1>2. PICK i \in 1 .. Len(b) : At(a, b, i)
  BY DEF Before
<1>3. PICK k \in 1 .. Len(c) : At(b, c, k)
  BY DEF Before
<1>4. CASE i <= k
  <2>1. At(a, c, i)
    BY <1>1, <1>2, <1>3, <1>4 DEF At
  <2> QED
    BY <2>1 DEF Before, At
<1>5. CASE k < i
  <2>1. At(a, c, k)
    BY <1>1, <1>2, <1>3, <1>5 DEF At
  <2> QED
    BY <2>1 DEF Before, At
<1> QED
  BY <1>4, <1>5

(* What the walk needs of the comparison.                                  *)
LEMMA DiffOrder ==
    ASSUME NEW a \in String, NEW b \in String
    PROVE  /\ Diff(a, b) \in Int
           /\ Diff(a, b) = 0 <=> a = b
           /\ Diff(a, b) < 0 <=> Before(a, b)
           /\ Diff(a, b) > 0 <=> Before(b, a)
<1>1. Diff(a, b) \in Int
  <2>1. strncmp(a, b) \in Int
    BY strncmpResult
  <2> QED
    BY <2>1 DEF Diff
<1>2. ~(Before(a, b) /\ Before(b, a)) /\ (a = b => ~Before(a, b))
  BY BeforeIrreflexive, BeforeTransitive
<1> QED
  BY <1>1, <1>2, DiffResult

-----------------------------------------------------------------------------
(* The walk down the tree.                                                 *)

Record == [name : Names, timeout : -LongMax - 1 .. LongMax, lock : Locks]

(* A tree, from left to right.                                             *)
Tree == Seq(Record)

(* k is the place of buf in the tree: the nodes before it are before buf,  *)
(* and those after it, and unless it is the lock of buf, the one at it too *)
(* are after buf.                                                          *)
Place(tree, buf, k) ==
    /\ k \in 1 .. Len(tree) + 1
    /\ \A m \in 1 .. Len(tree) :
          /\ m < k => Diff(buf, tree[m].name) > 0
          /\ m > k => Diff(buf, tree[m].name) < 0
          /\ m = k => Diff(buf, tree[m].name) <= 0

Found(tree, buf, k) == k <= Len(tree) /\ Diff(buf, tree[k].name) = 0

Hit(at) == [found |-> TRUE, at |-> at]
Miss(at) == [found |-> FALSE, at |-> at]

(* Where the walk for buf ends.                                            *)
Goal(tree, buf, k) == IF Found(tree, buf, k) THEN Hit(k) ELSE Miss(k)

(* Where the walk ends below a subtree.                                    *)
End(tree, buf, k, lo, hi) ==
    IF lo > hi \/ k < lo THEN Miss(lo)
    ELSE IF k <= hi THEN Goal(tree, buf, k)
    ELSE Miss(hi + 1)

(* One step of the walk, from the node m, and from any.                    *)
Under(tree, buf, w, lo, hi, m) ==
    IF Diff(buf, tree[m].name) < 0 THEN w[lo][m - 1]
    ELSE IF Diff(buf, tree[m].name) > 0 THEN w[m + 1][hi]
    ELSE {Hit(m)}

Walk(tree, buf, w) ==
    [lo \in 1 .. Len(tree) + 1 |-> [hi \in 0 .. Len(tree) |->
        IF lo > hi THEN {Miss(lo)}
        ELSE UNION {Under(tree, buf, w, lo, hi, m) : m \in lo..hi}]]

TheWalk(tree, buf) == CHOOSE w : w = Walk(tree, buf, w)

(* Lookups is the walk of the whole tree.                                  *)
LEMMA LookupsDef ==
    ASSUME NEW tree, NEW buf
    PROVE  Lookups(tree, buf) = TheWalk(tree, buf)[1][Len(tree)]
  BY DEF Lookups, Walk, TheWalk, Under, Hit, Miss

(* The walk of a subtree in terms of the walks of smaller ones.            *)
LEMMA WalkStep ==
    ASSUME NEW tree, NEW buf, NEW w, NEW v, v = Walk(tree, buf, w),
           NEW lo \in 1 .. Len(tree) + 1, NEW hi \in 0 .. Len(tree)
    PROVE  /\ lo > hi => v[lo][hi] = {Miss(lo)}
           /\ lo <= hi =>
                 v[lo][hi] = UNION {Under(tree, buf, w, lo, hi, m) : m \in lo..hi}
  BY DEF Walk

(* What the type of a tree says of its nodes.                              *)
LEMMA TreeType ==
    ASSUME NEW tree \in Tree
    PROVE  /\ Len(tree) \in Nat /\ DOMAIN tree = 1 .. Len(tree)
           /\ \A m \in 1 .. Len(tree) :
                 /\ tree[m] \in Record
                 /\ tree[m].name \in Names /\ tree[m].name \in String
<1>1. tree \in Seq(Record)
  BY DEF Tree
<1>2. Len(tree) \in Nat /\ DOMAIN tree = 1 .. Len(tree)
  BY <1>1
<1>3. \A m \in 1 .. Len(tree) : tree[m] \in Record
  BY <1>1
<1>4. \A r \in Record : r.name \in Names
  BY DEF Record
<1> QED
  BY <1>2, <1>3, <1>4, UwlAssumption DEF Record, String

(* The cases of End, one by one.                                           *)
LEMMA EndCases ==
    ASSUME NEW tree, NEW buf, NEW k \in Int, NEW lo \in Int, NEW hi \in Int
    PROVE  /\ lo > hi \/ k < lo => End(tree, buf, k, lo, hi) = Miss(lo)
           /\ lo <= k /\ k <= hi =>
                 End(tree, buf, k, lo, hi) = Goal(tree, buf, k)
           /\ lo <= hi /\ hi < k => End(tree, buf, k, lo, hi) = Miss(hi + 1)
  BY DEF End

(* A step of the walk stays on the way to its end.                         *)
LEMMA EndStep ==
    ASSUME NEW tree \in Tree, NEW buf \in String, NEW k, Place(tree, buf, k),
           NEW lo \in 1 .. Len(tree) + 1, NEW hi \in 0 .. Len(tree), NEW m \in lo .. hi
    PROVE  /\ Diff(buf, tree[m].name) < 0 =>
                 End(tree, buf, k, lo, hi) = End(tree, buf, k, lo, m - 1)
           /\ Diff(buf, tree[m].name) > 0 =>
                 End(tree, buf, k, lo, hi) = End(tree, buf, k, m + 1, hi)
           /\ ~(Diff(buf, tree[m].name) < 0) /\ ~(Diff(buf, tree[m].name) > 0) =>
                 End(tree, buf, k, lo, hi) = Hit(m)
<1>1. /\ Len(tree) \in Nat /\ k \in Nat /\ m \in 1 .. Len(tree) /\ lo <= hi
      /\ lo \in Nat /\ hi \in Nat /\ lo <= m /\ m <= hi
  BY TreeType DEF Place
<1>2. Diff(buf, tree[m].name) \in Int
  BY <1>1, TreeType, DiffOrder
<1>3. ASSUME Diff(buf, tree[m].name) < 0
      PROVE  End(tree, buf, k, lo, hi) = End(tree, buf, k, lo, m - 1)
  <2>1. k <= m /\ (k = m => Goal(tree, buf, k) = Miss(k))
    BY <1>1, <1>2, <1>3 DEF Place, Found, Goal
  <2>2. CASE k < lo
    BY <1>1, <2>2, EndCases
  <2>3. CASE lo <= k /\ k < m
    BY <1>1, <2>3, EndCases
  <2>4. CASE k = m
    <3>1. End(tree, buf, k, lo, hi) = Miss(m)
      BY <1>1, <2>1, <2>4, EndCases
    <3>2. End(tree, buf, k, lo, m - 1) = Miss(m)
      <4>1. CASE lo = m
        BY <1>1, <4>1, EndCases
      <4>2. CASE lo < m
        <5>1. m - 1 + 1 = m
          BY <1>1
        <5> QED
          BY <1>1, <2>4, <4>2, <5>1, EndCases
      <4> QED
        BY <1>1, <4>1, <4>2
    <3> QED
      BY <3>1, <3>2
  <2> QED
    BY <1>1, <2>1, <2>2, <2>3, <2>4
<1>4. ASSUME Diff(buf, tree[m].name) > 0
      PROVE  End(tree, buf, k, lo, hi) = End(tree, buf, k, m + 1, hi)
  <2>1. k > m
    BY <1>1, <1>2, <1>4 DEF Place
  <2>2. CASE k <= hi
    BY <1>1, <2>1, <2>2, EndCases
  <2>3. CASE hi < k
    <3>1. m = hi \/ m + 1 <= hi
      BY <1>1
    <3> QED
      BY <1>1, <2>1, <2>3, <3>1, EndCases
  <2> QED
    BY <1>1, <2>2, <2>3
<1>5. ASSUME Diff(buf, tree[m].name) = 0
      PROVE  End(tree, buf, k, lo, hi) = Hit(m)
  <2>1. k = m /\ Goal(tree, buf, k) = Hit(k)
    BY <1>1, <1>2, <1>5 DEF Place, Found, Goal
  <2> QED
    BY <1>1, <2>1, EndCases
<1> QED
  BY <1>2, <1>3, <1>4, <1>5

(* Whatever the shape of the tree, the walk ends at the place of the name. *)
(* There is such a function, the one with the values End; and there is no  *)
(* other, for on the smallest subtree on which it differed both would be   *)
(* the same step from the same values.                                     *)
LEMMA LookupResult ==
    ASSUME NEW tree \in Tree, NEW buf \in String, NEW k, Place(tree, buf, k)
    PROVE  Lookups(tree, buf) = {Goal(tree, buf, k)}
<1> DEFINE n == Len(tree)
           E(lo, hi) == End(tree, buf, k, lo, hi)
           f == [lo \in 1 .. n + 1 |-> [hi \in 0 .. n |-> {E(lo, hi)}]]
           w == TheWalk(tree, buf)
           U(v, lo, hi, m) == Under(tree, buf, v, lo, hi, m)
<1>1. n \in Nat
  BY TreeType
<1>2. f = Walk(tree, buf, f)
  <2>1. ASSUME NEW lo \in 1 .. n + 1, NEW hi \in 0 .. n
        PROVE  {E(lo, hi)} = IF lo > hi THEN {Miss(lo)}
                             ELSE UNION {U(f, lo, hi, m) : m \in lo..hi}
    <3>1. CASE lo > hi
      BY <1>1, <3>1, EndCases DEF Place
    <3>2. CASE ~(lo > hi)
      <4>1. ASSUME NEW m \in lo .. hi
            PROVE  U(f, lo, hi, m) = {E(lo, hi)}
        <5>1. m - 1 \in 0 .. n /\ m + 1 \in 1 .. n + 1
          BY <1>1
        <5>2. f[lo][m - 1] = {E(lo, m - 1)} /\ f[m + 1][hi] = {E(m + 1, hi)}
          BY <5>1
        <5> HIDE DEF f
        <5> QED
          BY <5>2, EndStep DEF Under
      <4>2. lo \in lo .. hi
        BY <1>1, <3>2
      <4> HIDE DEF U, E
      <4> QED
        BY <3>2, <4>1, <4>2
    <3> QED
      BY <3>1, <3>2
  <2> HIDE DEF E
  <2>2. f = [lo \in 1 .. n + 1 |-> [hi \in 0 .. n |->
                IF lo > hi THEN {Miss(lo)} ELSE UNION {U(f, lo, hi, m) : m \in lo..hi}]]
    <3> DEFINE g(lo, hi) ==
                 IF lo > hi THEN {Miss(lo)} ELSE UNION {U(f, lo, hi, m) : m \in lo..hi}
    <3>1. \A lo \in 1 .. n + 1, hi \in 0 .. n : {E(lo, hi)} = g(lo, hi)
      BY <2>1
    <3> HIDE DEF g
    <3>2. f = [lo \in 1 .. n + 1 |-> [hi \in 0 .. n |-> g(lo, hi)]]
      BY <3>1
    <3> QED
      BY <3>2 DEF g
  <2> QED
    BY <2>2 DEF Walk
<1>3. w = Walk(tree, buf, w)
  <2> HIDE DEF f
  <2> QED
    BY <1>2, Zenon DEF TheWalk
<1>4. ASSUME NEW lo \in 1 .. n + 1, NEW hi \in 0 .. n
      PROVE
        /\ lo > hi => w[lo][hi] = {Miss(lo)}
        /\ lo <= hi => w[lo][hi] = UNION {U(w, lo, hi, m) : m \in lo..hi}
  <2> HIDE DEF w
  <2>1. w = Walk(tree, buf, w) /\ n = Len(tree)
    BY <1>3
  <2> HIDE DEF n
  <2> QED
    BY <2>1, WalkStep
<1>5. \A lo \in 1 .. n + 1, hi \in 0 .. n : \A m \in lo .. hi :
         /\ Diff(buf, tree[m].name) < 0 => E(lo, hi) = E(lo, m - 1)
         /\ Diff(buf, tree[m].name) > 0 => E(lo, hi) = E(m + 1, hi)
         /\ ~(Diff(buf, tree[m].name) < 0) /\ ~(Diff(buf, tree[m].name) > 0) =>
                 E(lo, hi) = Hit(m)
  BY EndStep
<1>6. \A lo \in 1 .. n + 1, hi \in 0 .. n :
         lo > hi => E(lo, hi) = Miss(lo)
  BY DEF End
<1> HIDE DEF n, w, E
<1>7. ASSUME NEW lo \in 1 .. n + 1, NEW hi \in 0 .. n
      PROVE  w[lo][hi] = {E(lo, hi)}
  <2> DEFINE Off(d) == \E l \in 1 .. n + 1, h \in 0 .. n :
                           d = h + 1 + n - l /\ w[l][h] # {E(l, h)}
             T == {d \in Nat : Off(d)}
  <2>1. SUFFICES ASSUME w[lo][hi] # {E(lo, hi)} PROVE FALSE
    OBVIOUS
  <2>2. hi + 1 + n - lo \in T
    BY <1>1, <2>1
  <2>3. PICK d \in T : \A e \in T : d <= e
    <3> HIDE DEF Off
    <3> QED
      BY <2>2, LeastNumber
  <2>4. PICK l \in 1 .. n + 1, h \in 0 .. n :
           d = h + 1 + n - l /\ w[l][h] # {E(l, h)}
    BY <2>3
  <2>5. ASSUME NEW ll \in 1 .. n + 1, NEW hh \in 0 .. n, hh - ll < h - l
        PROVE  w[ll][hh] = {E(ll, hh)}
    <3>1. hh + 1 + n - ll \in Nat /\ hh + 1 + n - ll < d
      BY <1>1, <2>4, <2>5
    <3>2. hh + 1 + n - ll \notin T
      <4> HIDE DEF T
      <4>1. d \in Int
        BY <1>1, <2>4
      <4> QED
        BY <2>3, <3>1, <4>1
    <3> QED
      BY <3>1, <3>2
  <2>6. CASE l > h
    <3>1. w[l][h] = {Miss(l)}
      BY <1>4, <2>6
    <3>2. E(l, h) = Miss(l)
      BY <1>6, <2>6
    <3> QED
      BY <2>4, <3>1, <3>2
  <2>7. CASE l <= h
    <3>1. ASSUME NEW m \in l .. h
          PROVE  U(w, l, h, m) = {E(l, h)}
      <4>1. m \in Int /\ l <= m /\ m <= h /\ h <= n /\ 1 <= l
        BY <1>1, <2>7
      <4>2. m - 1 \in 0 .. n /\ (m - 1) - l < h - l
        BY <1>1, <4>1
      <4>3. m + 1 \in 1 .. n + 1 /\ h - (m + 1) < h - l
        BY <1>1, <4>1
      <4>4. w[l][m - 1] = {E(l, m - 1)}
        BY <2>5, <4>2
      <4>5. w[m + 1][h] = {E(m + 1, h)}
        BY <2>5, <4>3
      <4>6. /\ Diff(buf, tree[m].name) < 0 => E(l, h) = E(l, m - 1)
            /\ Diff(buf, tree[m].name) > 0 => E(l, h) = E(m + 1, h)
            /\ ~(Diff(buf, tree[m].name) < 0) /\ ~(Diff(buf, tree[m].name) > 0) =>
                   E(l, h) = Hit(m)
        BY <1>5
      <4> QED
        BY <4>4, <4>5, <4>6 DEF Under
    <3>2. w[l][h] = UNION {U(w, l, h, m) : m \in l..h}
      BY <1>4, <2>7
    <3> HIDE DEF U
    <3>3. l \in l .. h
      BY <1>1, <2>7
    <3>4. w[l][h] = {E(l, h)}
      BY <3>1, <3>2, <3>3
    <3> QED
      BY <2>4, <3>4
  <2> QED
    BY <1>1, <2>6, <2>7
<1>8. w[1][n] = {E(1, n)}
  BY <1>1, <1>7
<1>9. End(tree, buf, k, 1, n) = Goal(tree, buf, k)
  <2>1. k \in 1 .. n + 1
    BY DEF Place, n
  <2>2. CASE k <= n
    BY <1>1, <2>1, <2>2, EndCases
  <2>3. CASE k = n + 1
    <3>1. Goal(tree, buf, k) = Miss(k)
      BY <1>1, <2>3 DEF Found, Goal, n
    <3>2. End(tree, buf, k, 1, n) = Miss(n + 1)
      <4>1. CASE n = 0
        BY <1>1, <2>1, <4>1, EndCases
      <4>2. CASE 1 <= n
        BY <1>1, <2>3, <4>2, EndCases
      <4> QED
        BY <1>1, <4>1, <4>2
    <3> QED
      BY <2>3, <3>1, <3>2
  <2> QED
    BY <1>1, <2>1, <2>2, <2>3
<1> QED
  BY <1>8, <1>9, LookupsDef DEF n, w, E
-----------------------------------------------------------------------------
(* The tree stays sorted.                                                  *)

Sorted(tree) ==
    \A i, j \in 1 .. Len(tree) : i < j => Before(tree[i].name, tree[j].name)

(* In a sorted tree every name has its place.                              *)
LEMMA PlaceExists ==
    ASSUME NEW tree \in Tree, Sorted(tree), NEW buf \in String
    PROVE  \E k \in 1 .. Len(tree) + 1 : Place(tree, buf, k)
<1> DEFINE n == Len(tree)
           D(m) == Diff(buf, tree[m].name)
           T == {m \in 1 .. n : D(m) <= 0}
<1>1. n \in Nat
  BY TreeType
<1>2. \A m \in 1 .. n : D(m) \in Int
  BY TreeType, DiffOrder
<1>3. CASE T = {}
  <2>1. Place(tree, buf, n + 1)
    BY <1>1, <1>2, <1>3 DEF Place
  <2> QED
    BY <1>1, <2>1
<1>4. CASE T # {}
  <2>1. PICK k \in T : \A m \in T : k <= m
    <3>1. T \in SUBSET Nat
      BY <1>1
    <3> HIDE DEF T
    <3> QED
      BY <1>4, <3>1, LeastNumber
  <2>2. k \in 1 .. n /\ D(k) <= 0
    BY <2>1
  <2>3. \A m \in 1 .. n : m < k => D(m) > 0
    BY <1>1, <1>2, <2>1, <2>2
  <2>4. ASSUME NEW m \in 1 .. n, m > k
        PROVE  D(m) < 0
    <3>1. buf = tree[k].name \/ Before(buf, tree[k].name)
      BY <1>2, <2>2, TreeType, DiffOrder
    <3>2. Before(tree[k].name, tree[m].name)
      BY <2>2, <2>4 DEF Sorted
    <3>3. tree[k].name \in String /\ tree[m].name \in String
      BY <2>2, TreeType
    <3>4. Before(buf, tree[m].name)
      BY <3>1, <3>2, <3>3, BeforeTransitive
    <3> QED
      BY <3>3, <3>4, DiffOrder
  <2>5. Place(tree, buf, k)
    BY <1>1, <2>2, <2>3, <2>4 DEF Place
  <2> QED
    BY <1>1, <2>2, <2>5
<1> QED
  BY <1>3, <1>4

(* What a lookup returns.                                                  *)
LEMMA LookupExact ==
    ASSUME NEW tree \in Tree, Sorted(tree), NEW buf \in String,
           NEW l \in Lookups(tree, buf)
    PROVE  /\ l.at \in 1 .. Len(tree) + 1 /\ Place(tree, buf, l.at)
           /\ l.found => l.at \in 1 .. Len(tree) /\ tree[l.at].name = buf
           /\ ~l.found => \A m \in 1 .. Len(tree) :
                             /\ m < l.at => Before(tree[m].name, buf)
                             /\ m >= l.at => Before(buf, tree[m].name)
           /\ l.found <=> \E m \in 1 .. Len(tree) : tree[m].name = buf
<1>1. PICK k \in 1 .. Len(tree) + 1 : Place(tree, buf, k)
  BY PlaceExists
<1>2. l = Goal(tree, buf, k)
  BY <1>1, LookupResult
<1>3. l.at = k /\ (l.found <=> Found(tree, buf, k))
  BY <1>2 DEF Goal, Hit, Miss
<1>4. Len(tree) \in Nat /\ \A m \in 1 .. Len(tree) : tree[m].name \in String
  BY TreeType
<1>5. \A m \in 1 .. Len(tree) :
         /\ Diff(buf, tree[m].name) \in Int
         /\ Diff(buf, tree[m].name) = 0 <=> buf = tree[m].name
         /\ Diff(buf, tree[m].name) < 0 <=> Before(buf, tree[m].name)
         /\ Diff(buf, tree[m].name) > 0 <=> Before(tree[m].name, buf)
  BY <1>4, DiffOrder
<1>6. Found(tree, buf, k) => k \in 1 .. Len(tree) /\ tree[k].name = buf
  BY <1>4, <1>5 DEF Found
<1>7. ~Found(tree, buf, k) =>
         \A m \in 1 .. Len(tree) : /\ m < k => Before(tree[m].name, buf)
                                   /\ m >= k => Before(buf, tree[m].name)
  BY <1>1, <1>4, <1>5 DEF Found, Place
<1>8. (\E m \in 1 .. Len(tree) : tree[m].name = buf) => Found(tree, buf, k)
  BY <1>1, <1>4, <1>5 DEF Found, Place
<1> QED
  BY <1>1, <1>3, <1>6, <1>7, <1>8

(* What InsertAt returns.                                                  *)
LEMMA InsertResult ==
    ASSUME NEW tree \in Tree, NEW k \in 1 .. Len(tree) + 1,
           NEW e \in Record
    PROVE  /\ InsertAt(tree, k, e) \in Tree
           /\ Len(InsertAt(tree, k, e)) = Len(tree) + 1
           /\ \A i \in 1 .. Len(tree) + 1 :
                 InsertAt(tree, k, e)[i] =
                     IF i < k THEN tree[i] ELSE IF i = k THEN e ELSE tree[i - 1]
<1>0. Len(tree) \in Nat /\ k \in Nat /\ k <= Len(tree) + 1
  BY TreeType
<1>1. tree \in Seq(Record) /\ e \in Record
  BY DEF Tree
<1>2. InsertAt(tree, k, e) = SubSeq(tree, 1, k - 1) \o <<e>> \o SubSeq(tree, k, Len(tree))
  BY DEF InsertAt
<1> DEFINE a == SubSeq(tree, 1, k - 1)
           b == SubSeq(tree, k, Len(tree))
<1>3. /\ a \in Seq(Record) /\ Len(a) = k - 1
      /\ \A i \in 1 .. k - 1 : a[i] = tree[i]
  BY <1>1
<1>4. /\ b \in Seq(Record) /\ Len(b) = Len(tree) - k + 1
      /\ \A i \in 1 .. Len(tree) - k + 1 : b[i] = tree[i + k - 1]
  BY <1>1
<1> HIDE DEF a, b
<1> DEFINE c == a \o <<e>>
<1>5. /\ c \in Seq(Record) /\ Len(c) = k
      /\ \A i \in 1 .. k - 1 : c[i] = tree[i]
      /\ c[k] = e
  <2>1. c = Append(a, e)
    BY <1>1, <1>3
  <2> HIDE DEF c
  <2>2. c \in Seq(Record) /\ Len(c) = k /\ c[k] = e
    BY <1>0, <1>1, <1>3, <2>1
  <2>3. \A i \in 1 .. k - 1 : c[i] = a[i]
    BY <1>0, <1>1, <1>3, <2>1
  <2> QED
    BY <1>3, <2>2, <2>3
<1> HIDE DEF c
<1> DEFINE d == c \o b
<1>6. d \in Seq(Record) /\ Len(d) = Len(tree) + 1
  <2>1. d \in Seq(Record) /\ Len(d) = Len(c) + Len(b)
    BY <1>4, <1>5
  <2> QED
    BY <1>0, <1>4, <1>5, <2>1
<1>7. ASSUME NEW i \in 1 .. Len(tree) + 1
      PROVE  d[i] = IF i < k THEN tree[i] ELSE IF i = k THEN e ELSE tree[i - 1]
  <2>1. CASE i <= k
    <3>1. d[i] = c[i]
      BY <1>0, <1>4, <1>5, <2>1
    <3> QED
      BY <1>0, <1>5, <2>1, <3>1
  <2>2. CASE i > k
    <3>1. d[i] = b[i - k] /\ i - k \in 1 .. Len(tree) - k + 1 /\ i - k + k - 1 = i - 1
      BY <1>0, <1>4, <1>5, <2>2
    <3> HIDE DEF d
    <3>2. b[i - k] = tree[i - 1]
      BY <1>4, <3>1
    <3> QED
      BY <1>0, <2>2, <3>1, <3>2
  <2> HIDE DEF d
  <2> QED
    BY <1>0, <2>1, <2>2
<1>8. InsertAt(tree, k, e) = d
  BY <1>2 DEF a, b, c
<1> QED
  BY <1>6, <1>7, <1>8 DEF Tree, Record
-----------------------------------------------------------------------------
(* The timeout.                                                            *)

(* What rounding down to jiffies means.                                    *)
LEMMA WholeJiffies ==
    ASSUME NEW x \in Int
    PROVE  /\ x \div JiffyNs \in Int
           /\ (x \div JiffyNs) * JiffyNs \in Int
           /\ (x \div JiffyNs) * JiffyNs <= x
           /\ x < (x \div JiffyNs) * JiffyNs + JiffyNs
  BY UwlAssumption

(* A long is in its range, and what fits is not changed.                   *)
LEMMA LongResult ==
    ASSUME NEW x \in Int
    PROVE  /\ Long(x) \in -LongMax - 1 .. LongMax
           /\ x \in 0 .. LongMax => Long(x) = x
  BY UwlAssumption DEF Long

(* What a call asked for, as far as a timeout fits.                        *)
Fits(t, ns) ==
    /\ t >= 1 /\ t * JiffyNs >= ns
    /\ t > 1 => (t - 1) * JiffyNs < ns

(* The conversion of lookup_wake_lock_name: in range for every timeout,    *)
(* and right for those that fit.                                           *)
LEMMA JiffiesResult ==
    ASSUME NEW ns \in Timeouts
    PROVE  /\ ToJiffies(ns) \in -LongMax - 1 .. LongMax
           /\ ns \in 0 .. LongMax * JiffyNs => Fits(ToJiffies(ns), ns)
<1> DEFINE x == ns + JiffyNs - 1
           y == U64(x)
           q == y \div JiffyNs
<1>1. /\ ns \in Nat /\ JiffyNs \in Nat /\ JiffyNs >= 1 /\ U64Max \in Nat /\ LongMax \in Nat
      /\ LongMax >= 1 /\ x \in Nat
  BY UwlAssumption
<1>2. y \in Nat
  BY <1>1 DEF U64
<1>3. q \in Int
  BY <1>2, WholeJiffies
<1>4. ToJiffies(ns) = Long(IF q <= 0 THEN 1 ELSE q)
  BY DEF ToJiffies
<1>5. ToJiffies(ns) \in -LongMax - 1 .. LongMax
  <2> HIDE DEF q
  <2>1. (IF q <= 0 THEN 1 ELSE q) \in Int
    BY <1>3
  <2> QED
    BY <1>4, <2>1, LongResult
<1>6. ASSUME ns \in 0 .. LongMax * JiffyNs
      PROVE  Fits(ToJiffies(ns), ns)
  <2>1. x < (LongMax + 1) * JiffyNs /\ (LongMax + 1) * JiffyNs \in Int
    BY <1>1, <1>6
  <2>2. y = x
    <3>1. x < U64Max + 1
      BY <1>1, <2>1, UwlAssumption
    <3> HIDE DEF x
    <3> QED
      BY <1>1, <3>1 DEF U64
  <2>3. q * JiffyNs \in Int /\ q * JiffyNs <= x /\ x < q * JiffyNs + JiffyNs
    BY <1>1, <2>2, WholeJiffies
  <2> HIDE DEF q, y
  <2>4. q >= 0
    <3>1. q <= -1 => q * JiffyNs <= -JiffyNs
      BY <1>1, <1>3
    <3> QED
      BY <1>1, <1>3, <2>3, <3>1
  <2>5. q <= LongMax
    <3>1. q >= LongMax + 1 => q * JiffyNs >= (LongMax + 1) * JiffyNs
      BY <1>1, <1>3
    <3> QED
      BY <1>1, <1>3, <2>1, <2>3, <3>1
  <2>6. CASE q = 0
    <3>1. ns = 0
      BY <1>1, <2>3, <2>6
    <3>2. ToJiffies(ns) = 1
      BY <1>1, <1>4, <2>6, LongResult
    <3> QED
      BY <1>1, <3>1, <3>2 DEF Fits
  <2>7. CASE q >= 1
    <3>1. ToJiffies(ns) = q
      BY <1>1, <1>3, <1>4, <2>5, <2>7, LongResult
    <3>2. q * JiffyNs >= ns
      BY <1>1, <2>3
    <3>3. (q - 1) * JiffyNs = q * JiffyNs - JiffyNs
      BY <1>1, <1>3
    <3>4. (q - 1) * JiffyNs < ns
      BY <1>1, <2>3, <3>3
    <3> QED
      BY <2>7, <3>1, <3>2, <3>4 DEF Fits
  <2> QED
    BY <1>3, <2>4, <2>6, <2>7
<1> QED
  BY <1>5, <1>6

-----------------------------------------------------------------------------
(* The invariant.                                                          *)

(* What user space may last have asked for.                                *)
Asked == Timeouts \cup {NoTimeout, Released}

(* A node is as its name was last asked for.                               *)
NodeAsAsked(l, ns) ==
    /\ ns = Released <=> l.lock = "free"
    /\ ns = NoTimeout => l.lock = "held"
    /\ ns \in 0 .. LongMax * JiffyNs => l.lock = "timed" /\ Fits(l.timeout, ns)

NodesAsAsked(tree, ask) ==
    /\ \A i \in 1 .. Len(tree) : NodeAsAsked(tree[i], ask[tree[i].name])
    /\ \A n \in Names : ask[n] # Released => \E i \in 1 .. Len(tree) : tree[i].name = n

(* The tree is sorted and its nodes are as asked for; a name that was      *)
(* asked for has a node.                                                   *)
Inv(tree, ask) ==
    /\ tree \in Tree
    /\ Sorted(tree)
    /\ ask \in [Names -> Asked]
    /\ NodesAsAsked(tree, ask)

(* The lock of one name is taken or released.                              *)
LEMMA ReplaceKeeps ==
    ASSUME NEW tree, NEW ask, Inv(tree, ask),
           NEW k \in 1 .. Len(tree), NEW e \in Record, e.name = tree[k].name,
           NEW ns \in Asked, NodeAsAsked(e, ns)
    PROVE  Inv([tree EXCEPT ![k] = e], [ask EXCEPT ![e.name] = ns])
<1> DEFINE t == [tree EXCEPT ![k] = e]
           a == [ask EXCEPT ![e.name] = ns]
<1>1. tree \in Seq(Record) /\ tree \in Tree
  BY DEF Inv, Tree
<1>2. t \in Seq(Record) /\ Len(t) = Len(tree)
  BY <1>1
<1>3. \A i \in 1 .. Len(tree) : t[i] = IF i = k THEN e ELSE tree[i]
  BY <1>1
<1> HIDE DEF t
<1>4. \A i \in 1 .. Len(tree) : t[i].name = tree[i].name
  BY <1>3
<1>5. Sorted(t)
  BY <1>2, <1>4 DEF Inv, Sorted
<1>6. e.name \in Names /\ \A i \in 1 .. Len(tree) : tree[i].name \in Names
  BY <1>1, TreeType
<1>7. a \in [Names -> Asked] /\ \A n \in Names : a[n] = IF n = e.name THEN ns ELSE ask[n]
  BY <1>6 DEF Inv
<1> HIDE DEF a
<1>8. ASSUME NEW i \in 1 .. Len(t)
      PROVE  NodeAsAsked(t[i], a[t[i].name])
  <2>1. CASE i = k
    BY <1>2, <1>3, <1>6, <1>7, <2>1
  <2>2. CASE i # k
    <3>1. tree[i].name # e.name
      <4>1. i < k \/ k < i
        BY <1>1, <1>2, <2>2, TreeType
      <4>2. Before(tree[i].name, tree[k].name) \/ Before(tree[k].name, tree[i].name)
        BY <1>2, <4>1 DEF Inv, Sorted
      <4>3. tree[k].name \in String
        BY <1>1, TreeType
      <4> QED
        BY <4>2, <4>3, BeforeIrreflexive
    <3>2. t[i] = tree[i] /\ a[t[i].name] = ask[tree[i].name]
      BY <1>2, <1>3, <1>6, <1>7, <2>2, <3>1
    <3> QED
      BY <1>2, <3>2 DEF Inv, NodesAsAsked
  <2> QED
    BY <2>1, <2>2
<1>9. \A n \in Names : a[n] # Released => \E i \in 1 .. Len(t) : t[i].name = n
  BY <1>2, <1>4, <1>7 DEF Inv, NodesAsAsked
<1> QED
  BY <1>2, <1>5, <1>7, <1>8, <1>9 DEF Inv, NodesAsAsked, Tree, t, a

(* A name gets a lock.                                                     *)
LEMMA InsertKeeps ==
    ASSUME NEW tree, NEW ask, Inv(tree, ask),
           NEW k \in 1 .. Len(tree) + 1, NEW e \in Record,
           \A m \in 1 .. Len(tree) : /\ m < k => Before(tree[m].name, e.name)
                                     /\ m >= k => Before(e.name, tree[m].name),
           NEW ns \in Asked, NodeAsAsked(e, ns)
    PROVE  Inv(InsertAt(tree, k, e), [ask EXCEPT ![e.name] = ns])
<1> DEFINE t == InsertAt(tree, k, e)
           a == [ask EXCEPT ![e.name] = ns]
<1>1. tree \in Tree /\ Len(tree) \in Nat
  BY TreeType DEF Inv
<1>2. /\ t \in Tree /\ Len(t) = Len(tree) + 1
      /\ \A i \in 1 .. Len(tree) + 1 :
            t[i] = IF i < k THEN tree[i] ELSE IF i = k THEN e ELSE tree[i - 1]
  BY <1>1, InsertResult
<1> HIDE DEF t
<1>3. e.name \in Names /\ e.name \in String
  BY UwlAssumption DEF Record, String
<1>4. Sorted(t)
  <2> SUFFICES ASSUME NEW i \in 1 .. Len(tree) + 1, NEW j \in 1 .. Len(tree) + 1, i < j
               PROVE  Before(t[i].name, t[j].name)
    BY <1>2 DEF Sorted
  <2> DEFINE old(x) == IF x < k THEN x ELSE x - 1
  <2>1. CASE i # k /\ j # k
    <3>1. /\ old(i) \in 1 .. Len(tree) /\ old(j) \in 1 .. Len(tree) /\ old(i) < old(j)
          /\ t[i] = tree[old(i)] /\ t[j] = tree[old(j)]
      BY <1>1, <1>2, <2>1
    <3> HIDE DEF old
    <3> QED
      BY <3>1 DEF Inv, Sorted
  <2>2. CASE i = k
    <3>1. t[i] = e /\ t[j] = tree[j - 1] /\ j - 1 \in 1 .. Len(tree) /\ j - 1 >= k
      BY <1>1, <1>2, <2>2
    <3> QED
      BY <3>1
  <2>3. CASE j = k
    <3>1. t[j] = e /\ t[i] = tree[i] /\ i \in 1 .. Len(tree)
      BY <1>1, <1>2, <2>3
    <3> QED
      BY <2>3, <3>1
  <2> QED
    BY <2>1, <2>2, <2>3
<1>5. \A i \in 1 .. Len(tree) : tree[i].name \in Names /\ tree[i].name # e.name
  <2> SUFFICES ASSUME NEW i \in 1 .. Len(tree)
               PROVE  tree[i].name \in Names /\ tree[i].name # e.name
    OBVIOUS
  <2>1. Before(tree[i].name, e.name) \/ Before(e.name, tree[i].name)
    BY <1>1
  <2> QED
    BY <1>1, <1>3, <2>1, TreeType, BeforeIrreflexive
<1>6. a \in [Names -> Asked] /\ \A n \in Names : a[n] = IF n = e.name THEN ns ELSE ask[n]
  BY <1>3 DEF Inv
<1> HIDE DEF a
<1>7. ASSUME NEW i \in 1 .. Len(t)
      PROVE  NodeAsAsked(t[i], a[t[i].name])
  <2>1. CASE i = k
    BY <1>2, <1>3, <1>6, <2>1
  <2>2. CASE i # k
    <3>1. PICK m \in 1 .. Len(tree) : t[i] = tree[m]
      BY <1>1, <1>2, <2>2
    <3>2. a[t[i].name] = ask[tree[m].name]
      BY <1>5, <1>6, <3>1
    <3> QED
      BY <3>1, <3>2 DEF Inv, NodesAsAsked
  <2> QED
    BY <2>1, <2>2
<1>8. ASSUME NEW n \in Names, a[n] # Released
      PROVE  \E i \in 1 .. Len(t) : t[i].name = n
  <2>1. CASE n = e.name
    <3>1. k \in 1 .. Len(t) /\ t[k] = e
      BY <1>1, <1>2
    <3> QED
      BY <2>1, <3>1
  <2>2. CASE n # e.name
    <3>1. PICK m \in 1 .. Len(tree) : tree[m].name = n
      BY <1>6, <1>8, <2>2 DEF Inv, NodesAsAsked
    <3>2. \E i \in 1 .. Len(t) : t[i] = tree[m]
      <4>1. CASE m < k
        BY <1>1, <1>2, <4>1
      <4>2. CASE m >= k
        <5>1. m + 1 \in 1 .. Len(t) /\ t[m + 1] = tree[m]
          BY <1>1, <1>2, <4>2
        <5> QED
          BY <5>1
      <4> QED
        BY <1>1, <4>1, <4>2
    <3> QED
      BY <3>1, <3>2
  <2> QED
    BY <2>1, <2>2
<1> QED
  BY <1>2, <1>4, <1>6, <1>7, <1>8 DEF Inv, NodesAsAsked, t, a

(* The inductive invariant.                                                *)
UwlInv == Inv(user_wake_locks, asked)

(* The type of what is asked for.                                          *)
LEMMA AskedType ==
    /\ NoTimeout \in Asked /\ Released \in Asked /\ NoTimeout # Released
    /\ NoTimeout \notin Timeouts /\ Released \notin Timeouts
  BY UwlAssumption DEF Asked, NoTimeout, Released

(* What wake_lock_store makes of a name and a timeout.                     *)
LEMMA NodeResult ==
    ASSUME NEW name \in Names, NEW ns \in Timeouts \cup {NoTimeout}
    PROVE  LET e == Node(name, IF ns = NoTimeout THEN 0 ELSE ToJiffies(ns))
           IN  e \in Record /\ e.name = name /\ NodeAsAsked(e, ns)
<1> DEFINE t == IF ns = NoTimeout THEN 0 ELSE ToJiffies(ns)
           e == Node(name, t)
<1>1. t \in -LongMax - 1 .. LongMax
  BY AskedType, JiffiesResult, UwlAssumption
<1>2. ns = NoTimeout => t = 0
  OBVIOUS
<1>3. ns \in 0 .. LongMax * JiffyNs => t >= 1 /\ Fits(t, ns)
  <2>1. ns \in 0 .. LongMax * JiffyNs => ns # NoTimeout
    BY UwlAssumption DEF NoTimeout
  <2>2. ns # NoTimeout => t = ToJiffies(ns)
    OBVIOUS
  <2>3. ns \in 0 .. LongMax * JiffyNs => Fits(t, ns)
    BY <2>1, <2>2, JiffiesResult
  <2> QED
    BY <2>3 DEF Fits
<1> HIDE DEF t
<1>4. e = [name |-> name, timeout |-> t, lock |-> IF t = 0 THEN "held" ELSE "timed"]
  BY DEF Node
<1> HIDE DEF e
<1>5. e.name = name /\ e.timeout = t /\ e.lock = IF t = 0 THEN "held" ELSE "timed"
  BY <1>4
<1>6. e \in Record
  BY <1>1, <1>4 DEF Record, Locks
<1>7. ns # Released
  BY AskedType
<1>8. NodeAsAsked(e, ns)
  BY <1>2, <1>3, <1>5, <1>7 DEF NodeAsAsked
<1> QED
  BY <1>5, <1>6, <1>8 DEF e, t

(* A released node.                                                        *)
LEMMA ReleaseKeeps ==
    ASSUME NEW tree, NEW ask, Inv(tree, ask), NEW k \in 1 .. Len(tree)
    PROVE  Inv([tree EXCEPT ![k].lock = "free", ![k].timeout = 0],
               [ask EXCEPT ![tree[k].name] = Released])
<1> DEFINE e == [tree[k] EXCEPT !.lock = "free", !.timeout = 0]
<1>1. tree \in Tree /\ tree \in Seq(Record) /\ tree[k] \in Record
  BY TreeType DEF Inv, Tree
<1>2. e \in Record /\ e.name = tree[k].name /\ e.lock = "free"
  <2>1. 0 \in -LongMax - 1 .. LongMax /\ "free" \in Locks
    BY UwlAssumption DEF Locks
  <2>2. tree[k] \in [name : Names, timeout : -LongMax - 1 .. LongMax, lock : Locks]
    BY <1>1 DEF Record
  <2> DEFINE T == -LongMax - 1 .. LongMax
  <2> HIDE DEF T
  <2>3. e \in [name : Names, timeout : T, lock : Locks]
    BY <2>1, <2>2 DEF T
  <2> QED
    BY <2>2, <2>3 DEF Record, T
<1>3. [tree EXCEPT ![k].lock = "free", ![k].timeout = 0] = [tree EXCEPT ![k] = e]
  BY <1>1
<1> HIDE DEF e
<1>4. NodeAsAsked(e, Released)
  BY <1>2, AskedType, UwlAssumption DEF NodeAsAsked, Released
<1>5. Inv([tree EXCEPT ![k] = e], [ask EXCEPT ![e.name] = Released])
  BY <1>2, <1>4, AskedType, ReplaceKeeps
<1> QED
  BY <1>2, <1>3, <1>5

(* wake_lock_store keeps the invariant.                                    *)
LEMMA StoreKeeps ==
    ASSUME UwlInv, NEW name \in Names, NEW ns \in Timeouts \cup {NoTimeout},
           wake_lock_store(name, ns)
    PROVE  UwlInv'
<1> DEFINE t == IF ns = NoTimeout THEN 0 ELSE ToJiffies(ns)
           e == Node(name, t)
           tree == user_wake_locks
<1>1. PICK l \in Lookups(tree, name) :
         tree' = IF l.found THEN [tree EXCEPT ![l.at] = Node(@.name, t)]
                 ELSE InsertAt(tree, l.at, Node(name, t))
  BY DEF wake_lock_store
<1>2. asked' = [asked EXCEPT ![name] = ns]
  BY DEF wake_lock_store
<1>3. tree \in Tree /\ Sorted(tree) /\ name \in String /\ ns \in Asked
  BY UwlAssumption DEF UwlInv, Inv, String, Asked
<1>4. e \in Record /\ e.name = name /\ NodeAsAsked(e, ns)
  BY NodeResult
<1> HIDE DEF t
<1>5. CASE l.found
  <2>1. l.at \in 1 .. Len(tree) /\ tree[l.at].name = name
    BY <1>3, <1>5, LookupExact
  <2>2. tree' = [tree EXCEPT ![l.at] = e]
    <3>1. tree' = [tree EXCEPT ![l.at] = Node(tree[l.at].name, t)]
      BY <1>1, <1>5
    <3> QED
      BY <2>1, <3>1
  <2> HIDE DEF e
  <2>3. Inv([tree EXCEPT ![l.at] = e], [asked EXCEPT ![e.name] = ns])
    BY <1>3, <1>4, <2>1, ReplaceKeeps DEF UwlInv
  <2> QED
    BY <1>2, <1>4, <2>2, <2>3 DEF UwlInv
<1>6. CASE ~l.found
  <2>1. /\ l.at \in 1 .. Len(tree) + 1
        /\ \A m \in 1 .. Len(tree) : /\ m < l.at => Before(tree[m].name, name)
                                     /\ m >= l.at => Before(name, tree[m].name)
    BY <1>3, <1>6, LookupExact
  <2>2. tree' = InsertAt(tree, l.at, e)
    BY <1>1, <1>6
  <2> HIDE DEF e
  <2>3. Inv(InsertAt(tree, l.at, e), [asked EXCEPT ![e.name] = ns])
    BY <1>3, <1>4, <2>1, InsertKeeps DEF UwlInv
  <2> QED
    BY <1>2, <1>4, <2>2, <2>3 DEF UwlInv
<1> QED
  BY <1>5, <1>6

(* wake_unlock_store keeps the invariant.                                  *)
LEMMA UnlockKeeps ==
    ASSUME UwlInv, NEW name \in Names, wake_unlock_store(name)
    PROVE  UwlInv'
<1> DEFINE tree == user_wake_locks
<1>1. PICK l \in Lookups(tree, name) :
         tree' = IF l.found
                 THEN [tree EXCEPT ![l.at].lock = "free", ![l.at].timeout = 0]
                 ELSE tree
  BY DEF wake_unlock_store
<1>2. asked' = [asked EXCEPT ![name] = Released]
  BY DEF wake_unlock_store
<1>3. tree \in Tree /\ Sorted(tree) /\ name \in String
  BY UwlAssumption DEF UwlInv, Inv, String
<1>4. CASE l.found
  <2>1. l.at \in 1 .. Len(tree) /\ tree[l.at].name = name
    BY <1>3, <1>4, LookupExact
  <2>2. Inv([tree EXCEPT ![l.at].lock = "free", ![l.at].timeout = 0],
            [asked EXCEPT ![tree[l.at].name] = Released])
    BY <2>1, ReleaseKeeps DEF UwlInv
  <2> QED
    BY <1>1, <1>2, <1>4, <2>1, <2>2 DEF UwlInv
<1>5. CASE ~l.found
  <2>1. \A m \in 1 .. Len(tree) : tree[m].name # name
    BY <1>3, <1>5, LookupExact
  <2>2. tree' = tree
    BY <1>1, <1>5
  <2>3. asked' \in [Names -> Asked]
    BY <1>2, AskedType DEF UwlInv, Inv
  <2>4. \A n \in Names : n # name => asked'[n] = asked[n]
    BY <1>2 DEF UwlInv, Inv
  <2>5. asked'[name] = Released
    BY <1>2 DEF UwlInv, Inv
  <2>6. NodesAsAsked(tree, asked')
    <3>1. \A m \in 1 .. Len(tree) : tree[m].name \in Names
      BY <1>3, TreeType
    <3> QED
      BY <2>1, <2>4, <2>5, <3>1 DEF UwlInv, Inv, NodesAsAsked
  <2> QED
    BY <1>3, <2>2, <2>3, <2>6 DEF UwlInv, Inv
<1> QED
  BY <1>4, <1>5

(* The invariant holds of every reachable state.                           *)
THEOREM UwlInvariant == UwlSpec => []UwlInv
<1>1. UwlInit => UwlInv
  <2> SUFFICES ASSUME UwlInit PROVE UwlInv
    OBVIOUS
  <2>1. user_wake_locks \in Tree /\ Len(user_wake_locks) = 0
    BY DEF UwlInit, Tree
  <2>2. asked \in [Names -> Asked] /\ \A n \in Names : asked[n] = Released
    BY AskedType DEF UwlInit
  <2> QED
    BY <2>1, <2>2 DEF UwlInv, Inv, Sorted, NodesAsAsked
<1>2. UwlInv /\ [UwlNext]_uwlVars => UwlInv'
  <2> SUFFICES ASSUME UwlInv, [UwlNext]_uwlVars PROVE UwlInv'
    OBVIOUS
  <2>1. ASSUME NEW n \in Names, NEW ns \in Timeouts \cup {NoTimeout}, wake_lock_store(n, ns)
        PROVE  UwlInv'
    BY <2>1, StoreKeeps
  <2>2. ASSUME NEW n \in Names, wake_unlock_store(n)
        PROVE  UwlInv'
    BY <2>2, UnlockKeeps
  <2>3. ASSUME NEW i \in DOMAIN user_wake_locks, Expires(i)
        PROVE  UwlInv'
    <3>1. i \in 1 .. Len(user_wake_locks)
      BY TreeType DEF UwlInv, Inv
    <3>2. Inv([user_wake_locks EXCEPT ![i].lock = "free", ![i].timeout = 0],
              [asked EXCEPT ![user_wake_locks[i].name] = Released])
      BY <3>1, ReleaseKeeps DEF UwlInv
    <3> QED
      BY <2>3, <3>2 DEF Expires, UwlInv
  <2>4. CASE UNCHANGED uwlVars
    BY <2>4 DEF uwlVars, UwlInv
  <2> QED
    BY <2>1, <2>2, <2>3, <2>4 DEF UwlNext
<1> QED
  BY <1>1, <1>2, PTL DEF UwlSpec

(* For every set of names and every shape of the tree, a lookup finds the  *)
(* lock of a name exactly if there is one, and no name has two.            *)
THEOREM TreeTheorem == UwlSpec => []TreeExact
<1>1. UwlInv => TreeExact
  <2> SUFFICES ASSUME UwlInv PROVE TreeExact
    OBVIOUS
  <2> DEFINE tree == user_wake_locks
  <2>1. tree \in Tree /\ Sorted(tree) /\ asked \in [Names -> Asked]
    BY DEF UwlInv, Inv
  <2>2. /\ DOMAIN tree = 1 .. Len(tree) /\ Len(tree) \in Nat
        /\ \A i \in 1 .. Len(tree) : tree[i] \in Record /\ tree[i].name \in String
    BY <2>1, TreeType
  <2>3. UwlTypeOK
    BY <2>1, <2>2 DEF UwlTypeOK, ToSet, Record, Asked
  <2>4. LookupsExact
    <3> SUFFICES ASSUME NEW n \in Names, NEW l \in Lookups(tree, n)
                 PROVE  l.found <=> \E i \in DOMAIN tree : tree[i].name = n
      BY DEF LookupsExact
    <3>1. n \in String
      BY UwlAssumption DEF String
    <3> QED
      BY <2>1, <2>2, <3>1, LookupExact
  <2>5. OneLockPerName
    <3> SUFFICES ASSUME NEW i \in DOMAIN tree, NEW j \in DOMAIN tree,
                        tree[i].name = tree[j].name, i # j
                 PROVE  FALSE
      BY DEF OneLockPerName
    <3>1. i < j \/ j < i
      BY <2>2
    <3>2. Before(tree[i].name, tree[j].name) \/ Before(tree[j].name, tree[i].name)
      BY <2>1, <2>2, <3>1 DEF Sorted
    <3> QED
      BY <2>2, <3>2, BeforeIrreflexive
  <2> QED
    BY <2>3, <2>4, <2>5 DEF TreeExact
<1> QED
  BY <1>1, UwlInvariant, PTL

(* No call takes or releases the lock of another name.                     *)
THEOREM AskedTheorem == UwlSpec => []LocksAsAsked
<1>1. UwlInv => LocksAsAsked
  <2> SUFFICES ASSUME UwlInv, NEW n \in Names
               PROVE  LET mine == {l \in ToSet(user_wake_locks) : l.name = n}
                      IN  /\ asked[n] = Released => \A l \in mine : l.lock = "free"
                          /\ asked[n] # Released =>
                                mine # {} /\ \A l \in mine : l.lock # "free"
                          /\ asked[n] = NoTimeout => \A l \in mine : l.lock = "held"
    BY DEF LocksAsAsked
  <2> DEFINE tree == user_wake_locks
             mine == {l \in ToSet(tree) : l.name = n}
  <2>1. DOMAIN tree = 1 .. Len(tree)
    BY TreeType DEF UwlInv, Inv
  <2>2. \A l \in mine : NodeAsAsked(l, asked[n])
    BY <2>1 DEF ToSet, UwlInv, Inv, NodesAsAsked
  <2>3. asked[n] # Released => mine # {}
    BY <2>1 DEF ToSet, UwlInv, Inv, NodesAsAsked
  <2> QED
    BY <2>2, <2>3 DEF NodeAsAsked
<1> QED
  BY <1>1, UwlInvariant, PTL

(* A timeout that fits into a long of jiffies is rounded up to the next    *)
(* jiffy and is never forever.                                             *)
THEOREM TimeoutTheorem == UwlSpec => []TimeoutsKept
<1>1. UwlInv => TimeoutsKept
  <2> SUFFICES ASSUME UwlInv, NEW l \in ToSet(user_wake_locks),
                      asked[l.name] \in 0 .. LongMax * JiffyNs
               PROVE  l.lock = "timed" /\ Fits(l.timeout, asked[l.name])
    BY DEF TimeoutsKept, Fits
  <2>1. DOMAIN user_wake_locks = 1 .. Len(user_wake_locks)
    BY TreeType DEF UwlInv, Inv
  <2>2. NodeAsAsked(l, asked[l.name])
    BY <2>1 DEF ToSet, UwlInv, Inv, NodesAsAsked
  <2> QED
    BY <2>2 DEF NodeAsAsked
<1> QED
  BY <1>1, UwlInvariant, PTL
=============================================================================
