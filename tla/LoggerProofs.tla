---------------------------- MODULE LoggerProofs ----------------------------
(***************************************************************************)
(* Proofs about Logger, for every size of the ring, any writers and        *)
(* readers, and whatever they write.                                       *)
(*                                                                         *)
(* The invariant is about the whole contents of the ring.  Behind the end  *)
(* of the log there is a window of entries that are whole and adjoin; the  *)
(* head and the readers stand at starts of entries in it.  While a write   *)
(* holds the mutex the window is relative to the place where the entry     *)
(* begins, and must shrink to what the entry leaves alone before the first *)
(* byte is stored: that everybody then still stands in it is what the walk *)
(* of fix_up_readers achieves, reader by reader.  All of it is about the   *)
(* readers on the list; that the open ones are is the invariant ListInv.   *)
(*                                                                         *)
(* The window is given by sums: c[i] is the number of bytes of the first i *)
(* completed writes, so that distances add up without a modulus, and only  *)
(* Back turns a distance into an offset.                                   *)
(*                                                                         *)
(* get_next_entry and SumOf are recursive functions.  That they exist, and *)
(* what they return, is shown by taking a smallest counterexample.         *)
(***************************************************************************)
EXTENDS Logger, SequenceTheorems, WellFoundedInduction, TLAPS

-----------------------------------------------------------------------------
(* Arithmetic of the ring.                                                 *)

(* The ring holds two entries at least.                                    *)
LEMMA SizeFacts ==
    /\ Size \in Nat /\ Size > 0 /\ MaxPayload \in Nat
    /\ HeaderSize = 2 /\ 2 * (2 + MaxPayload) <= Size /\ LenBase \in Nat /\ LenBase > 0
    /\ LongHalf \in Nat /\ LongHalf > 0
    /\ \A x : x \in Offsets <=> x \in Int /\ 0 <= x /\ x < Size
  BY LoggerAssumption DEF HeaderSize, Offsets

(* logger_offset, for what it is used on: at most one lap too far.         *)
LEMMA OffsetOf ==
    ASSUME NEW x \in Nat, x < 2 * Size
    PROVE  logger_offset(x) = IF x < Size THEN x ELSE x - Size
<1>1. CASE x < Size
  BY <1>1, SizeFacts DEF logger_offset
<1>2. CASE x >= Size
  BY <1>2, SizeFacts DEF logger_offset
<1> QED
  BY <1>1, <1>2, SizeFacts

(* The offset m bytes after b.                                             *)
LEMMA OffsetSum ==
    ASSUME NEW b \in Offsets, NEW m \in Nat, m <= Size
    PROVE  /\ logger_offset(b + m) = IF b + m < Size THEN b + m ELSE b + m - Size
           /\ logger_offset(b + m) \in Offsets
<1>1. b \in Int /\ 0 <= b /\ b < Size
  BY SizeFacts
<1>2. CASE b + m < Size
  BY <1>1, <1>2, SizeFacts DEF logger_offset
<1>3. CASE b + m >= Size
  BY <1>1, <1>3, SizeFacts DEF logger_offset
<1> QED
  BY <1>1, <1>2, <1>3, SizeFacts

(* logger_offset never leaves the ring.                                    *)
LEMMA OffsetType ==
    ASSUME NEW x \in Int
    PROVE  logger_offset(x) \in Offsets
  BY SizeFacts DEF logger_offset

(* A long, after it has wrapped.                                           *)
LEMMA longType ==
    ASSUME NEW x \in Int
    PROVE  long(x) \in Longs
<1> DEFINE m == 2 * LongHalf
           y == x + LongHalf
<1>1. m \in Nat /\ m > 0 /\ y \in Int
  BY SizeFacts
<1> HIDE DEF m, y
<1>2. y % m \in 0 .. m - 1
  BY <1>1
<1> QED
  BY <1>2, SizeFacts DEF m, y, long, Longs

(* The offset d bytes behind b.                                            *)
Back(b, d) == IF d <= b THEN b - d ELSE b - d + Size

(* It is an offset if d is less than a lap.                                *)
LEMMA BackType ==
    ASSUME NEW b \in Offsets, NEW d \in Nat, d < Size
    PROVE  Back(b, d) \in Offsets
  BY SizeFacts DEF Back

(* Forward from there.                                                     *)
LEMMA BackForward ==
    ASSUME NEW b \in Offsets, NEW d \in Nat, d < Size, NEW j \in Nat, j <= d
    PROVE  logger_offset(Back(b, d) + j) = Back(b, d - j)
<1> DEFINE x == Back(b, d)
<1>1. x \in Offsets /\ j <= Size
  BY BackType, SizeFacts
<1> HIDE DEF x
<1>2. logger_offset(x + j) = IF x + j < Size THEN x + j ELSE x + j - Size
  BY <1>1, OffsetSum
<1> QED
  BY <1>2, SizeFacts DEF x, Back

(* The end moves on by m bytes.                                            *)
LEMMA BackMoved ==
    ASSUME NEW b \in Offsets, NEW d \in Nat, NEW m \in Nat, d + m < Size
    PROVE  Back(logger_offset(b + m), d + m) = Back(b, d)
<1>1. m <= Size
  BY SizeFacts
<1>2. logger_offset(b + m) = IF b + m < Size THEN b + m ELSE b + m - Size
  BY <1>1, OffsetSum
<1> QED
  BY <1>2, SizeFacts DEF Back

(* Offsets behind the end are different, and none of them is among the     *)
(* next m bytes, as long as the two do not fill the ring.                  *)
LEMMA BackDifferent ==
    ASSUME NEW b \in Offsets, NEW d \in Nat, d < Size, d > 0
    PROVE  Back(b, d) # b
  BY SizeFacts DEF Back

(* None of the next m bytes is one of those.                               *)
LEMMA BackAhead ==
    ASSUME NEW b \in Offsets, NEW d \in Nat, d > 0, NEW m \in Nat, d + m < Size,
           NEW k \in Nat, k < m
    PROVE  Back(b, d) # logger_offset(b + k)
<1>1. k <= Size
  BY SizeFacts
<1>2. logger_offset(b + k) = IF b + k < Size THEN b + k ELSE b + k - Size
  BY <1>1, OffsetSum
<1> QED
  BY <1>2, SizeFacts DEF Back

(* get_log_len.                                                            *)
LEMMA LogLen ==
    ASSUME w_off \in Offsets, NEW d \in Nat, d < Size
    PROVE  get_log_len(Back(w_off, d)) = d
  BY SizeFacts DEF Back, get_log_len

(* What fix_up_readers asks: do the next m bytes reach the offset?         *)
LEMMA ClockInterval ==
    ASSUME NEW b \in Offsets, NEW d \in Nat, d < Size, NEW m \in Nat, m < Size
    PROVE  clock_interval(b, logger_offset(b + m), Back(b, d)) <=> d + m >= Size
<1>1. m <= Size
  BY SizeFacts
<1>2. logger_offset(b + m) = IF b + m < Size THEN b + m ELSE b + m - Size
  BY <1>1, OffsetSum
<1> QED
  BY <1>2, SizeFacts DEF Back, clock_interval

(* The cells that do_write_log fills.                                      *)
LEMMA StoredCells ==
    ASSUME NEW off \in Offsets, NEW first \in Nat, NEW m \in Nat, m < Size, NEW id, NEW bytes
    PROVE  LET s == Stored(off, first, m, id, bytes)
           IN  /\ \A j \in Nat : j < m => s[logger_offset(off + j)] =
                     [id |-> id, pos |-> first + j, byte |-> bytes[first + j]]
               /\ \A x \in Offsets : (\A j \in Nat : j < m => x # logger_offset(off + j))
                                        => s[x] = buffer[x]
<1> DEFINE s == Stored(off, first, m, id, bytes)
<1>1. ASSUME NEW x \in Offsets
      PROVE  LET j == (x - off + Size) % Size
             IN  /\ j \in Nat /\ j < Size /\ logger_offset(off + j) = x
                 /\ s[x] = IF j < m THEN [id |-> id, pos |-> first + j, byte |-> bytes[first + j]]
                                    ELSE buffer[x]
  <2> DEFINE j == (x - off + Size) % Size
  <2>1. x - off + Size \in Nat /\ x - off + Size < 2 * Size
    BY SizeFacts
  <2>2. j = IF x - off + Size < Size THEN x - off + Size ELSE x - off
    BY <2>1, OffsetOf, SizeFacts DEF logger_offset
  <2>3. j \in Nat /\ j < Size /\ off + j < 2 * Size
    BY <2>2, SizeFacts
  <2>4. logger_offset(off + j) = IF off + j < Size THEN off + j ELSE off + j - Size
    <3> HIDE DEF j
    <3> QED
      BY <2>3, OffsetOf, SizeFacts
  <2>5. logger_offset(off + j) = x
    BY <2>2, <2>4, SizeFacts
  <2>6. s[x] = IF j < m THEN [id |-> id, pos |-> first + j, byte |-> bytes[first + j]]
                        ELSE buffer[x]
    BY DEF Stored
  <2> QED
    BY <2>3, <2>5, <2>6
<1>2. ASSUME NEW j \in Nat, j < m
      PROVE  s[logger_offset(off + j)] =
                [id |-> id, pos |-> first + j, byte |-> bytes[first + j]]
  <2> DEFINE x == logger_offset(off + j)
             k == (x - off + Size) % Size
  <2>1. x = IF off + j < Size THEN off + j ELSE off + j - Size
    BY <1>2, OffsetOf, SizeFacts
  <2>2. x \in Offsets
    BY <1>2, <2>1, SizeFacts
  <2> HIDE DEF x
  <2>3. x - off + Size \in Nat /\ x - off + Size < 2 * Size
    BY <2>2, SizeFacts
  <2>4. k = IF x - off + Size < Size THEN x - off + Size ELSE x - off
    <3> DEFINE y == x - off + Size
    <3>1. y \in Nat /\ y < 2 * Size
      BY <2>3
    <3> HIDE DEF y
    <3>2. y % Size = IF y < Size THEN y ELSE y - Size
      BY <3>1, OffsetOf DEF logger_offset
    <3> QED
      BY <2>2, <3>2, SizeFacts DEF y
  <2>5. k = j
    BY <1>2, <2>1, <2>4, SizeFacts
  <2> HIDE DEF k
  <2>6. s[x] = IF k < m THEN [id |-> id, pos |-> first + k, byte |-> bytes[first + k]]
                        ELSE buffer[x]
    BY <1>1, <2>2 DEF k
  <2> QED
    BY <1>2, <2>5, <2>6 DEF x
<1>3. ASSUME NEW x \in Offsets, \A j \in Nat : j < m => x # logger_offset(off + j)
      PROVE  s[x] = buffer[x]
  <2> DEFINE k == (x - off + Size) % Size
  <2>1. /\ k \in Nat /\ logger_offset(off + k) = x
        /\ s[x] = IF k < m THEN [id |-> id, pos |-> first + k, byte |-> bytes[first + k]]
                           ELSE buffer[x]
    BY <1>1
  <2> HIDE DEF k, s
  <2> QED
    BY <1>3, <2>1
<1> QED
  BY <1>2, <1>3

-----------------------------------------------------------------------------
(* Sums.                                                                   *)

(* A set of numbers that is not empty has a least one.                     *)
LEMMA LeastNumber ==
    ASSUME NEW T \in SUBSET Nat, T # {}
    PROVE  \E m \in T : \A k \in T : m <= k
<1>1. PICK m \in T : \A k \in T : ~ (<<k, m>> \in OpToRel(<, Nat))
  BY WFMin, NatLessThanWellFounded
<1>2. \A k \in T : ~ (k < m)
  BY <1>1 DEF OpToRel
<1> QED
  BY <1>2

(* t holds the sums of the first elements of v.                            *)
Adds(t, v, m) ==
    /\ t \in [0 .. m -> Nat]
    /\ t[0] = 0
    /\ \A i \in 1 .. m : t[i] = v[i] + t[i - 1]

(* SumOf, a recursive function, has the value of any such sums: at the     *)
(* first index where they differed they would have to agree.               *)
LEMMA SumOfResult ==
    ASSUME NEW v, Len(v) \in Nat, NEW t, Adds(t, v, Len(v))
    PROVE  SumOf(v) = t[Len(v)]
<1> DEFINE n == Len(v)
           D == 0 .. n
           Is(f) == f = [i \in D |-> IF i = 0 THEN 0 ELSE v[i] + f[i - 1]]
           s == CHOOSE f : Is(f)
<1>1. SumOf(v) = s[n]
  BY DEF SumOf
<1>2. n \in Nat
  OBVIOUS
<1>3. Is(t)
  <2>1. t = [i \in D |-> t[i]]
    BY DEF Adds
  <2>2. ASSUME NEW i \in D
        PROVE  t[i] = IF i = 0 THEN 0 ELSE v[i] + t[i - 1]
    <3>1. CASE i = 0
      BY <3>1 DEF Adds
    <3>2. CASE i # 0
      <4>1. i \in 1 .. n /\ i - 1 \in 0 .. n
        BY <1>2, <3>2
      <4>2. t[i] = v[i] + t[i - 1]
        BY <4>1 DEF Adds
      <4> QED
        BY <3>2, <4>2
    <3> QED
      BY <3>1, <3>2
  <2> QED
    BY <2>1, <2>2, Zenon
<1>4. Is(s)
  BY <1>3
<1> HIDE DEF s
<1>5. \A i \in D : s[i] = IF i = 0 THEN 0 ELSE v[i] + s[i - 1]
  BY <1>4
<1>6. \A i \in D : t[i] = IF i = 0 THEN 0 ELSE v[i] + t[i - 1]
  BY <1>3
<1> DEFINE bad == {i \in D : s[i] # t[i]}
<1>7. bad = {}
  <2> SUFFICES ASSUME bad # {}
               PROVE  FALSE
    OBVIOUS
  <2>1. PICK i \in bad : \A k \in bad : i <= k
    <3>1. bad \in SUBSET Nat
      BY <1>2
    <3> HIDE DEF bad
    <3> QED
      BY <3>1, LeastNumber
  <2>2. i # 0
    BY <1>2, <1>5, <1>6, <2>1
  <2>3. i - 1 \in D /\ i - 1 \notin bad
    BY <1>2, <2>1, <2>2
  <2>4. s[i - 1] = t[i - 1]
    BY <2>3
  <2> QED
    BY <1>5, <1>6, <2>1, <2>2, <2>4
<1> QED
  BY <1>1, <1>2, <1>7

(* There are such sums for every sequence of numbers.                      *)
LEMMA SumsExist ==
    ASSUME NEW v \in Seq(Nat)
    PROVE  \E t : Adds(t, v, Len(v))
<1> DEFINE n == Len(v)
           bad == {m \in 0 .. n : ~ \E t : Adds(t, v, m)}
<1>1. n \in Nat /\ \A i \in 1 .. n : v[i] \in Nat
  BY LenProperties, ElementOfSeq
<1> SUFFICES bad = {}
  BY <1>1
<1> SUFFICES ASSUME bad # {}
             PROVE  FALSE
  OBVIOUS
<1>2. PICK m \in bad : \A k \in bad : m <= k
  <2>1. bad \in SUBSET Nat
    BY <1>1
  <2> HIDE DEF bad
  <2> QED
    BY <2>1, LeastNumber
<1>3. m # 0
  <2>1. Adds([i \in 0 .. 0 |-> 0], v, 0)
    BY DEF Adds
  <2> QED
    BY <1>2, <2>1
<1>4. m \in 1 .. n /\ m - 1 \in 0 .. n /\ m - 1 \notin bad
  BY <1>1, <1>2, <1>3
<1>5. PICK t : Adds(t, v, m - 1)
  BY <1>4
<1> DEFINE u == [i \in 0 .. m |-> IF i = m THEN v[m] + t[m - 1] ELSE t[i]]
<1>6. t \in [0 .. m - 1 -> Nat] /\ t[m - 1] \in Nat /\ v[m] \in Nat
  BY <1>1, <1>4, <1>5 DEF Adds
<1>7. u \in [0 .. m -> Nat]
  BY <1>4, <1>6
<1>8. ASSUME NEW i \in 1 .. m
      PROVE  u[i] = v[i] + u[i - 1]
  <2>1. i - 1 \in 0 .. m /\ i - 1 # m /\ i \in 0 .. m
    BY <1>4
  <2>2. u[i - 1] = t[i - 1]
    BY <2>1
  <2>3. CASE i = m
    BY <2>1, <2>2, <2>3
  <2>4. CASE i # m
    <3>1. i \in 1 .. m - 1
      BY <1>4, <2>4
    <3> QED
      BY <1>5, <2>1, <2>2, <2>4, <3>1 DEF Adds
  <2> QED
    BY <2>3, <2>4
<1>9. u[0] = 0
  BY <1>4, <1>5 DEF Adds
<1>10. Adds(u, v, m)
  BY <1>7, <1>8, <1>9 DEF Adds
<1> QED
  BY <1>2, <1>10

(* The segments that are still to be written.                              *)
LEMMA SumOfTail ==
    ASSUME NEW v \in Seq(Nat)
    PROVE  /\ SumOf(v) \in Nat
           /\ v = <<>> => SumOf(v) = 0
           /\ v # <<>> => /\ Head(v) \in Nat /\ Tail(v) \in Seq(Nat)
                          /\ SumOf(Tail(v)) = SumOf(v) - Head(v)
<1> DEFINE n == Len(v)
<1>1. n \in Nat /\ \A i \in 1 .. n : v[i] \in Nat
  BY LenProperties, ElementOfSeq
<1>2. PICK t : Adds(t, v, n)
  BY SumsExist
<1>3. SumOf(v) = t[n] /\ t[n] \in Nat
  <2>1. SumOf(v) = t[n]
    BY <1>1, <1>2, SumOfResult
  <2> QED
    BY <1>1, <1>2, <2>1 DEF Adds
<1>4. v = <<>> => SumOf(v) = 0
  BY <1>2, <1>3, EmptySeq DEF Adds
<1>5. ASSUME v # <<>>
      PROVE  /\ Head(v) \in Nat /\ Tail(v) \in Seq(Nat)
             /\ SumOf(Tail(v)) = SumOf(v) - Head(v)
  <2>1. n # 0 /\ n - 1 \in Nat
    BY <1>1, <1>5, EmptySeq
  <2>2. /\ Head(v) = v[1] /\ v[1] \in Nat /\ Tail(v) \in Seq(Nat) /\ Len(Tail(v)) = n - 1
        /\ \A i \in 1 .. n - 1 : Tail(v)[i] = v[i + 1]
    BY <1>1, <1>5, <2>1, HeadTailProperties
  <2>3. /\ t \in [0 .. n -> Nat] /\ t[0] = 0 /\ t[1] = v[1]
        /\ \A i \in 1 .. n : t[i] = v[i] + t[i - 1]
    <3>1. 1 \in 1 .. n /\ 1 \in 0 .. n
      BY <1>1, <2>1
    <3>2. t[1] = v[1] + t[0]
      BY <1>2, <3>1 DEF Adds
    <3> QED
      BY <1>2, <2>2, <3>2 DEF Adds
  <2> DEFINE u == [i \in 0 .. n - 1 |-> t[i + 1] - v[1]]
  <2>4. \A i \in 1 .. n : t[i] >= v[1]
    <3> DEFINE bad == {i \in 1 .. n : t[i] < v[1]}
    <3> SUFFICES ASSUME bad # {}
                 PROVE  FALSE
      BY <1>1, <2>2, <2>3
    <3>1. PICK i \in bad : \A k \in bad : i <= k
      <4>1. bad \in SUBSET Nat
        BY <1>1
      <4> HIDE DEF bad
      <4> QED
        BY <4>1, LeastNumber
    <3>2. i # 1
      BY <2>2, <2>3, <3>1
    <3>3. i - 1 \in 1 .. n /\ i - 1 \notin bad
      BY <1>1, <3>1, <3>2
    <3>4. i \in 1 .. n /\ i \in 0 .. n /\ i - 1 \in 0 .. n
      BY <1>1, <3>1, <3>3
    <3>5. t[i] \in Nat /\ t[i - 1] \in Nat /\ v[i] \in Nat /\ t[i] = v[i] + t[i - 1]
      BY <1>1, <2>3, <3>4
    <3> QED
      BY <2>2, <3>1, <3>3, <3>5
  <2>5. u \in [0 .. n - 1 -> Nat]
    <3>1. ASSUME NEW i \in 0 .. n - 1
          PROVE  t[i + 1] - v[1] \in Nat
      <4>1. i + 1 \in 1 .. n /\ i + 1 \in 0 .. n
        BY <1>1
      <4>2. t[i + 1] \in Nat /\ t[i + 1] >= v[1]
        BY <2>3, <2>4, <4>1
      <4> QED
        BY <2>2, <4>2
    <3> QED
      BY <3>1
  <2>6. ASSUME NEW i \in 1 .. n - 1
        PROVE  u[i] = Tail(v)[i] + u[i - 1]
    <3>1. i - 1 \in 0 .. n - 1 /\ i \in 0 .. n - 1 /\ i + 1 \in 1 .. n /\ (i - 1) + 1 = i
          /\ (i + 1) - 1 = i /\ i \in 0 .. n
      BY <1>1
    <3>2. u[i] = t[i + 1] - v[1] /\ u[i - 1] = t[i] - v[1]
      BY <3>1
    <3>3. t[i + 1] = v[i + 1] + t[i] /\ Tail(v)[i] = v[i + 1] /\ v[i + 1] \in Nat /\ t[i] \in Nat
      BY <1>1, <2>2, <2>3, <3>1
    <3> HIDE DEF u
    <3> QED
      BY <2>2, <3>2, <3>3
  <2>7. u[0] = 0
    BY <2>1, <2>2, <2>3
  <2> HIDE DEF u
  <2>8. Adds(u, Tail(v), n - 1)
    BY <2>5, <2>6, <2>7 DEF Adds
  <2>9. SumOf(Tail(v)) = u[n - 1]
    BY <2>1, <2>2, <2>8, SumOfResult
  <2>10. u[n - 1] = t[n] - v[1]
    BY <1>1, <2>1 DEF u
  <2> QED
    BY <1>3, <2>2, <2>9, <2>10
<1> QED
  BY <1>3, <1>4, <1>5

-----------------------------------------------------------------------------
(* The walk of get_next_entry.                                             *)

(* get_entry_len is at least the header, whatever the two bytes are.       *)
LEMMA EntryLenType ==
    ASSUME buffer \in [Offsets -> Cells], NEW off \in Offsets
    PROVE  /\ get_entry_len(off) \in Nat /\ get_entry_len(off) > 0
           /\ logger_offset(off + get_entry_len(off)) \in Offsets
<1> DEFINE nx == logger_offset(off + 1)
<1>1. nx \in Offsets
  BY OffsetType, SizeFacts
<1> HIDE DEF nx
<1>2. buffer[off].byte \in Nat /\ buffer[nx].byte \in Nat
  BY <1>1 DEF Cells
<1>3. LenBase * buffer[nx].byte \in Nat
  BY <1>2, SizeFacts
<1>4. get_entry_len(off) = 2 + buffer[off].byte + LenBase * buffer[nx].byte
  BY SizeFacts DEF get_entry_len, nx
<1>5. get_entry_len(off) \in Nat /\ get_entry_len(off) > 0
  BY <1>2, <1>3, <1>4
<1> DEFINE y == off + get_entry_len(off)
<1>6. y \in Int
  BY <1>5, SizeFacts
<1> HIDE DEF y
<1>7. logger_offset(y) \in Offsets
  BY <1>6, OffsetType
<1> QED
  BY <1>5, <1>7 DEF y

(* The walk of get_next_entry: where it is and how much it has skipped.    *)
Spots == [off : Offsets, count : Nat]

(* One iteration of its loop.                                              *)
Step(c) ==
    [off |-> logger_offset(c.off + get_entry_len(c.off)),
     count |-> c.count + get_entry_len(c.off)]

(* f is the function that get_next_entry defines, on the spots D.          *)
IsSkip(f, D, len) == f = [c \in D |-> IF c.count >= len THEN c.off ELSE f[Step(c)]]

(* The count grows with each iteration.                                    *)
LEMMA StepType ==
    ASSUME buffer \in [Offsets -> Cells], NEW c \in Spots
    PROVE  Step(c) \in Spots /\ Step(c).count >= c.count + 1
<1>1. c.off \in Offsets /\ c.count \in Nat
  BY DEF Spots
<1> DEFINE o == c.off
<1>2. /\ get_entry_len(o) \in Nat /\ get_entry_len(o) > 0
      /\ logger_offset(o + get_entry_len(o)) \in Offsets
  <2>1. o \in Offsets
    BY <1>1
  <2> HIDE DEF o
  <2> QED
    BY <2>1, EntryLenType
<1> QED
  BY <1>1, <1>2 DEF Step, Spots

(* The values of such a function.                                          *)
LEMMA IsSkipAt ==
    ASSUME NEW f, NEW D, NEW len, IsSkip(f, D, len)
    PROVE  \A c \in D : f[c] = IF c.count >= len THEN c.off ELSE f[Step(c)]
<1>1. f = [c \in D |-> IF c.count >= len THEN c.off ELSE f[Step(c)]]
  BY DEF IsSkip
<1> QED
  BY <1>1, Zenon

(* There is one: the loop ends because the count grows by at least one     *)
(* with each iteration.                                                    *)
LEMMA SkipExists ==
    ASSUME buffer \in [Offsets -> Cells], NEW len \in Nat
    PROVE  \E f : IsSkip(f, Spots, len)
<1> DEFINE D(m) == {c \in Spots : c.count + m >= len}
           bad == {m \in Nat : ~ \E f : IsSkip(f, D(m), len)}
<1>1. D(len) = Spots
  <2>1. \A c \in Spots : c.count \in Nat
    BY DEF Spots
  <2>2. \A c \in Spots : c.count + len >= len
    BY <2>1
  <2> QED
    BY <2>2, Zenon
<1> SUFFICES ASSUME bad # {}
             PROVE  FALSE
  BY <1>1
<1>2. PICK m \in bad : \A k \in bad : m <= k
  <2>1. bad \in SUBSET Nat
    OBVIOUS
  <2> HIDE DEF bad
  <2> QED
    BY <2>1, LeastNumber
<1>3. m # 0
  <2> DEFINE f == [c \in D(0) |-> c.off]
  <2>1. \A c \in D(0) : c.count >= len
    BY DEF Spots
  <2>2. f = [c \in D(0) |-> IF c.count >= len THEN c.off ELSE f[Step(c)]]
    BY <2>1
  <2>3. IsSkip(f, D(0), len)
    BY <2>2 DEF IsSkip
  <2> QED
    BY <1>2, <2>3
<1>4. m - 1 \in Nat /\ m - 1 \notin bad /\ m \in Nat
  <2>1. m \in Nat
    BY <1>2
  <2> HIDE DEF bad
  <2> QED
    BY <1>2, <1>3, <2>1
<1>5. PICK f : IsSkip(f, D(m - 1), len)
  BY <1>4
<1>6. \A c \in D(m - 1) : f[c] = IF c.count >= len THEN c.off ELSE f[Step(c)]
  <2> DEFINE E == D(m - 1)
  <2>1. IsSkip(f, E, len)
    BY <1>5
  <2> HIDE DEF E
  <2>2. \A c \in E : f[c] = IF c.count >= len THEN c.off ELSE f[Step(c)]
    BY <2>1, IsSkipAt
  <2> QED
    BY <2>2 DEF E
<1> DEFINE g == [c \in D(m) |-> IF c.count >= len THEN c.off ELSE f[Step(c)]]
<1>7. ASSUME NEW c \in D(m), ~(c.count >= len)
      PROVE  g[Step(c)] = f[Step(c)]
  <2>1. c \in Spots /\ c.count \in Nat /\ c.count + m >= len
    BY DEF Spots
  <2>2. Step(c) \in Spots /\ Step(c).count >= c.count + 1
    BY <2>1, StepType
  <2>3. Step(c).count \in Nat
    BY <2>2 DEF Spots
  <2> DEFINE x == Step(c)
  <2> HIDE DEF x
  <2>4. x \in D(m - 1) /\ x \in D(m)
    BY <1>4, <2>1, <2>2, <2>3 DEF x
  <2>5. g[x] = f[x]
    BY <1>6, <2>4
  <2> QED
    BY <2>5 DEF x
<1>8. \A c \in D(m) : g[c] = IF c.count >= len THEN c.off ELSE g[Step(c)]
  BY <1>7
<1>9. g = [c \in D(m) |-> g[c]]
  OBVIOUS
<1> HIDE DEF g
<1>10. g = [c \in D(m) |-> IF c.count >= len THEN c.off ELSE g[Step(c)]]
  <2> DEFINE E == D(m)
  <2> HIDE DEF E
  <2>1. g = [c \in E |-> g[c]] /\ \A c \in E : g[c] = IF c.count >= len THEN c.off ELSE g[Step(c)]
    BY <1>8, <1>9 DEF E
  <2>2. g = [c \in E |-> IF c.count >= len THEN c.off ELSE g[Step(c)]]
    BY <2>1, Zenon
  <2> QED
    BY <2>2 DEF E
<1>11. IsSkip(g, D(m), len)
  BY <1>10 DEF IsSkip
<1> QED
  BY <1>2, <1>11

(* From off on the buffer parses into m entries: p are their offsets, and  *)
(* s the bytes in front of them.                                           *)
Parses(p, s, m, off) ==
    /\ p \in [0 .. m -> Offsets] /\ s \in [0 .. m -> Nat]
    /\ p[0] = off /\ s[0] = 0
    /\ \A k \in 0 .. m - 1 :
          /\ s[k + 1] = s[k] + get_entry_len(p[k])
          /\ p[k + 1] = logger_offset(p[k] + get_entry_len(p[k]))

(* Then get_next_entry stops at one of them, len bytes on at least.        *)
LEMMA NextEntry ==
    ASSUME buffer \in [Offsets -> Cells], NEW len \in Nat, len > 0, NEW m \in Nat, NEW off,
           NEW p, NEW s, Parses(p, s, m, off), s[m] >= len
    PROVE  \E k \in 1 .. m : s[k] >= len /\ get_next_entry(off, len) = p[k]
<1> DEFINE skip == CHOOSE f : IsSkip(f, Spots, len)
           nr1 == get_entry_len(off)
           At(k) == [off |-> p[k], count |-> s[k]]
<1>1. get_next_entry(off, len) = skip[[off |-> logger_offset(off + nr1), count |-> nr1]]
  BY DEF get_next_entry, IsSkip, Step, Spots
<1>2. IsSkip(skip, Spots, len)
  BY SkipExists
<1> HIDE DEF skip
<1>3. \A c \in Spots : skip[c] = IF c.count >= len THEN c.off ELSE skip[Step(c)]
  BY <1>2, IsSkipAt
<1>4. \A k \in 0 .. m : p[k] \in Offsets /\ s[k] \in Nat
  BY DEF Parses
<1>5. ASSUME NEW k \in 0 .. m
      PROVE  At(k) \in Spots /\ At(k).off = p[k] /\ At(k).count = s[k]
  BY <1>4 DEF Spots
<1>6. ASSUME NEW k \in 0 .. m, k # m
      PROVE  Step(At(k)) = At(k + 1)
  <2>1. k \in 0 .. m - 1
    BY <1>6
  <2> QED
    BY <2>1 DEF Parses, Step
<1>7. m # 0
  BY DEF Parses
<1> DEFINE Ok(k) == \E j \in 1 .. m : s[j] >= len /\ skip[At(k)] = p[j]
           bad == {d \in 0 .. m - 1 : ~Ok(m - d)}
<1>8. bad = {}
  <2> SUFFICES ASSUME bad # {}
               PROVE  FALSE
    OBVIOUS
  <2>1. PICK d \in bad : \A k \in bad : d <= k
    <3>1. bad \in SUBSET Nat
      OBVIOUS
    <3> HIDE DEF bad
    <3> QED
      BY <3>1, LeastNumber
  <2> DEFINE k == m - d
  <2>2. k \in 1 .. m /\ k \in 0 .. m /\ ~Ok(k)
    BY <2>1
  <2>3. ~(s[k] >= len)
    <3>1. ASSUME s[k] >= len
          PROVE  skip[At(k)] = p[k]
      <4> DEFINE c == At(k)
      <4>1. c \in Spots /\ c.off = p[k] /\ c.count = s[k]
        BY <1>5, <2>2
      <4> HIDE DEF c, k
      <4>2. skip[c] = p[k]
        BY <1>3, <3>1, <4>1
      <4> QED
        BY <4>2 DEF c
    <3> QED
      BY <2>2, <3>1
  <2>4. k # m
    BY <2>3
  <2>5. k + 1 \in 0 .. m /\ d - 1 \in 0 .. m - 1 /\ m - (d - 1) = k + 1
    BY <2>1, <2>2, <2>4
  <2>6. Ok(k + 1)
    <3>1. d - 1 \notin bad
      BY <2>1, <2>5
    <3>2. Ok(m - (d - 1))
      BY <2>5, <3>1
    <3> QED
      BY <2>5, <3>2
  <2>7. skip[At(k)] = skip[At(k + 1)]
    <3> DEFINE c == At(k)
    <3>1. c \in Spots /\ c.count = s[k] /\ Step(c) = At(k + 1)
      BY <1>5, <1>6, <2>2, <2>4
    <3> HIDE DEF c, k, At
    <3>2. skip[c] = skip[Step(c)]
      BY <1>3, <2>3, <3>1
    <3> QED
      BY <3>1, <3>2 DEF c
  <2> QED
    BY <2>2, <2>6, <2>7
<1>9. Ok(1)
  <2>1. m - 1 \in 0 .. m - 1 /\ m - 1 \notin bad /\ m - (m - 1) = 1
    BY <1>7, <1>8
  <2>2. Ok(m - (m - 1))
    BY <2>1
  <2> QED
    BY <2>1, <2>2
<1>10. At(1) = [off |-> logger_offset(off + nr1), count |-> nr1]
  <2>1. 0 \in 0 .. m - 1
    BY <1>7
  <2>2. /\ s[0 + 1] = s[0] + get_entry_len(p[0])
        /\ p[0 + 1] = logger_offset(p[0] + get_entry_len(p[0]))
    BY <2>1 DEF Parses
  <2>3. off \in Offsets /\ p[0] = off /\ s[0] = 0
    BY <1>4 DEF Parses
  <2>4. get_entry_len(off) \in Nat
    BY <2>3, EntryLenType
  <2> QED
    BY <2>2, <2>3, <2>4
<1> QED
  BY <1>1, <1>9, <1>10

-----------------------------------------------------------------------------
(* The window: the entries that are whole.                                 *)

(* c holds the bytes of the first completed writes, ...                    *)
Sums(c) ==
    /\ c \in [0 .. Len(entries) -> Nat]
    /\ \A i, j \in 0 .. Len(entries) : i < j => c[i] < c[j]
    /\ \A i \in 1 .. Len(entries) : c[i] = c[i - 1] + entries[i].len

(* ... so this is how far the start of entry i is behind the end.          *)
Behind(c, i) == c[Len(entries)] - c[i - 1]

(* The cells of entry i are those that were written for it.                *)
Whole(i) ==
    /\ get_entry_len(entries[i].off) = entries[i].len
    /\ \A j \in 0 .. entries[i].len - 1 :
          LET x == buffer[logger_offset(entries[i].off + j)]
          IN  x.id = i /\ x.pos = j

(* The entries from number lo on are whole and lie behind offset b, and    *)
(* they do not fill the ring.                                              *)
Window(c, lo, b) ==
    /\ Sums(c) /\ lo \in 1 .. Len(entries) + 1 /\ b \in Offsets
    /\ Behind(c, lo) < Size
    /\ \A i \in lo .. Len(entries) : entries[i].off = Back(b, Behind(c, i)) /\ Whole(i)

(* Offset off is the start of one of them, or the end, with room for some  *)
(* more bytes in front of it.                                              *)
Stands(off, c, lo, b, room) ==
    \E i \in lo .. Len(entries) + 1 : off = Back(b, Behind(c, i)) /\ Behind(c, i) + room < Size

(* The place of an entry in the window, and of the one after it.           *)
LEMMA BehindFacts ==
    ASSUME entries \in Seq([off : Offsets, len : 1 .. Size]), NEW c, NEW lo, NEW b,
           Window(c, lo, b), NEW i \in lo .. Len(entries) + 1
    PROVE  /\ Len(entries) \in Nat /\ lo \in Nat /\ i \in Nat /\ i >= 1
           /\ Behind(c, i) \in Nat /\ Behind(c, i) < Size /\ Behind(c, i) <= Behind(c, lo)
           /\ Behind(c, Len(entries) + 1) = 0
           /\ Back(b, Behind(c, i)) \in Offsets
           /\ Back(b, Behind(c, Len(entries) + 1)) = b
           /\ i <= Len(entries) =>
                 /\ entries[i].len \in 1 .. Size /\ entries[i].off \in Offsets
                 /\ Behind(c, i) > 0 /\ entries[i].len <= Behind(c, i)
                 /\ Behind(c, i + 1) = Behind(c, i) - entries[i].len
                 /\ Back(b, Behind(c, i)) # b
                 /\ logger_offset(Back(b, Behind(c, i)) + entries[i].len) = Back(b, Behind(c, i + 1))
<1> DEFINE n == Len(entries)
<1>1. /\ n \in Nat /\ lo \in 1 .. n + 1 /\ Sums(c) /\ b \in Offsets
      /\ Behind(c, lo) < Size
  BY LenProperties DEF Window
<1>2. i \in Nat /\ i - 1 \in 0 .. n /\ lo - 1 \in 0 .. n /\ i >= 1 /\ lo \in Nat /\ n \in 0 .. n
  BY <1>1
<1>3. c[n] \in Nat /\ c[i - 1] \in Nat /\ c[lo - 1] \in Nat
  BY <1>1, <1>2 DEF Sums
<1>4. c[i - 1] <= c[n]
  <2>1. CASE i - 1 = n
    BY <1>3, <2>1
  <2>2. CASE i - 1 # n
    <3>1. i - 1 < n
      BY <1>1, <1>2, <2>2
    <3>2. c[i - 1] < c[n]
      BY <1>1, <1>2, <3>1 DEF Sums
    <3> QED
      BY <1>3, <3>2
  <2> QED
    BY <2>1, <2>2
<1>5. c[lo - 1] <= c[i - 1]
  <2>1. CASE i = lo
    BY <1>3, <2>1
  <2>2. CASE i # lo
    <3>1. lo - 1 < i - 1
      BY <1>1, <1>2, <2>2
    <3>2. c[lo - 1] < c[i - 1]
      BY <1>1, <1>2, <3>1 DEF Sums
    <3> QED
      BY <1>3, <3>2
  <2> QED
    BY <2>1, <2>2
<1>6. Behind(c, i) \in Nat /\ Behind(c, i) < Size /\ Behind(c, i) <= Behind(c, lo)
  BY <1>1, <1>3, <1>4, <1>5, SizeFacts DEF Behind
<1>7. Behind(c, n + 1) = 0
  <2>1. (n + 1) - 1 = n
    BY <1>1
  <2> QED
    BY <1>3, <2>1 DEF Behind
<1>8. Back(b, Behind(c, i)) \in Offsets
  <2> DEFINE d == Behind(c, i)
  <2>1. d \in Nat /\ d < Size
    BY <1>6
  <2> HIDE DEF d
  <2>2. Back(b, d) \in Offsets
    BY <1>1, <2>1, BackType
  <2> QED
    BY <2>2 DEF d
<1>9. Back(b, Behind(c, n + 1)) = b
  BY <1>1, <1>7, SizeFacts DEF Back
<1>10. ASSUME i <= n
       PROVE  /\ entries[i].len \in 1 .. Size /\ entries[i].off \in Offsets
              /\ Behind(c, i) > 0 /\ entries[i].len <= Behind(c, i)
              /\ Behind(c, i + 1) = Behind(c, i) - entries[i].len
              /\ Back(b, Behind(c, i)) # b
              /\ logger_offset(Back(b, Behind(c, i)) + entries[i].len) = Back(b, Behind(c, i + 1))
  <2>1. i \in 1 .. n /\ i \in 0 .. n /\ (i + 1) - 1 = i
    BY <1>1, <1>2, <1>10
  <2>2. entries[i] \in [off : Offsets, len : 1 .. Size]
    BY <2>1, ElementOfSeq
  <2>3. entries[i].len \in 1 .. Size /\ entries[i].off \in Offsets
    BY <2>2
  <2>4. c[i] \in Nat /\ c[i] = c[i - 1] + entries[i].len /\ c[i] <= c[n]
    <3>1. c[i] \in Nat /\ c[i] = c[i - 1] + entries[i].len
      BY <1>1, <2>1 DEF Sums
    <3>2. CASE i = n
      BY <3>1, <3>2
    <3>3. CASE i # n
      <4>1. i < n
        BY <1>1, <1>2, <1>10, <3>3
      <4>2. c[i] < c[n]
        BY <1>1, <1>2, <2>1, <4>1 DEF Sums
      <4> QED
        BY <1>3, <3>1, <4>2
    <3> QED
      BY <3>1, <3>2, <3>3
  <2>5. Behind(c, i + 1) = c[n] - c[i] /\ Behind(c, i) = c[n] - c[i - 1]
    BY <2>1 DEF Behind
  <2>6. /\ Behind(c, i) > 0 /\ entries[i].len <= Behind(c, i)
        /\ Behind(c, i + 1) = Behind(c, i) - entries[i].len
    <3> DEFINE x == c[n]
               y == c[i - 1]
               z == c[i]
               e == entries[i].len
    <3>1. x \in Nat /\ y \in Nat /\ z \in Nat /\ e \in Nat /\ e >= 1 /\ z = y + e /\ z <= x
      <4>1. e \in Nat /\ e >= 1
        BY <2>3, SizeFacts
      <4>2. x \in Nat /\ y \in Nat
        BY <1>3
      <4>3. z \in Nat /\ z = y + e /\ z <= x
        BY <2>4
      <4> QED
        BY <4>1, <4>2, <4>3, Zenon
    <3>2. Behind(c, i + 1) = x - z /\ Behind(c, i) = x - y
      BY <2>5
    <3> HIDE DEF x, y, z, e
    <3>3. Behind(c, i) > 0 /\ e <= Behind(c, i) /\ Behind(c, i + 1) = Behind(c, i) - e
      BY <3>1, <3>2
    <3> QED
      BY <3>3 DEF e
  <2> DEFINE d == Behind(c, i)
             e == entries[i].len
  <2>7. d \in Nat /\ d < Size /\ d > 0 /\ e \in Nat /\ e <= d /\ Behind(c, i + 1) = d - e
    BY <1>6, <2>3, <2>6, SizeFacts
  <2> HIDE DEF d, e
  <2>8. Back(b, d) # b /\ logger_offset(Back(b, d) + e) = Back(b, d - e)
    BY <1>1, <2>7, BackDifferent, BackForward
  <2>9. Back(b, d) # b /\ logger_offset(Back(b, d) + e) = Back(b, Behind(c, i + 1))
    BY <2>7, <2>8
  <2> QED
    BY <2>3, <2>6, <2>9 DEF d, e
<1> QED
  BY <1>1, <1>2, <1>6, <1>7, <1>8, <1>9, <1>10

(* fix_up_readers makes room for m bytes in front of the offset.           *)
LEMMA FixUpResult ==
    ASSUME entries \in Seq([off : Offsets, len : 1 .. Size]), buffer \in [Offsets -> Cells],
           NEW c, NEW lo, NEW b, Window(c, lo, b), NEW off, Stands(off, c, lo, b, 0),
           NEW m \in Nat, m > 0, 2 * m <= Size
    PROVE  Stands(fix_up(b, m, off), c, lo, b, m)
<1> DEFINE n == Len(entries)
<1>1. PICK i \in lo .. n + 1 : off = Back(b, Behind(c, i)) /\ Behind(c, i) + 0 < Size
  BY DEF Stands
<1>2. b \in Offsets
  BY DEF Window
<1>3. \A j \in lo .. n + 1 :
         /\ n \in Nat /\ lo \in Nat /\ j \in Nat /\ j >= 1
         /\ Behind(c, j) \in Nat /\ Behind(c, j) < Size
         /\ Behind(c, n + 1) = 0
         /\ Back(b, Behind(c, j)) \in Offsets
         /\ j <= n => /\ entries[j].len \in 1 .. Size /\ entries[j].len <= Behind(c, j)
                      /\ Behind(c, j + 1) = Behind(c, j) - entries[j].len
                      /\ logger_offset(Back(b, Behind(c, j)) + entries[j].len)
                            = Back(b, Behind(c, j + 1))
  BY BehindFacts
<1> DEFINE d == Behind(c, i)
<1>4. /\ d \in Nat /\ d < Size /\ n \in Nat /\ i \in Nat /\ i >= 1 /\ i <= n + 1
      /\ lo \in Nat /\ lo <= i
  BY <1>1, <1>3
<1>5. clock_interval(b, logger_offset(b + m), off) <=> d + m >= Size
  <2>1. off = Back(b, d) /\ m < Size
    BY <1>1, SizeFacts
  <2> HIDE DEF d
  <2> QED
    BY <1>2, <1>4, <2>1, ClockInterval
<1>6. CASE d + m < Size
  <2>1. fix_up(b, m, off) = off
    BY <1>4, <1>5, <1>6, SizeFacts DEF fix_up
  <2> QED
    BY <1>1, <1>6, <2>1 DEF Stands
<1>7. CASE d + m >= Size
  <2>1. fix_up(b, m, off) = get_next_entry(off, m)
    BY <1>5, <1>7 DEF fix_up
  <2> DEFINE k == n + 1 - i
             p == [j \in 0 .. k |-> Back(b, Behind(c, i + j))]
             s == [j \in 0 .. k |-> d - Behind(c, i + j)]
  <2>2. k \in Nat /\ i + k = n + 1 /\ i + 0 = i
    BY <1>4
  <2>3. ASSUME NEW j \in 0 .. k
        PROVE  /\ i + j \in lo .. n + 1 /\ Behind(c, i + j) \in Nat
               /\ Back(b, Behind(c, i + j)) \in Offsets
    BY <1>1, <1>3, <1>4
  <2>4. ASSUME NEW j \in 0 .. k, j # k
        PROVE  /\ get_entry_len(p[j]) = entries[i + j].len
               /\ entries[i + j].len \in Nat
               /\ Behind(c, i + (j + 1)) = Behind(c, i + j) - entries[i + j].len
               /\ logger_offset(p[j] + entries[i + j].len) = Back(b, Behind(c, i + (j + 1)))
    <3> DEFINE x == i + j
    <3>1. x \in lo .. n /\ x \in lo .. n + 1 /\ i + (j + 1) = x + 1 /\ x <= n
      <4>1. j \in Nat /\ j < n + 1 - i
        <5>1. k = n + 1 - i /\ j \in Nat /\ j <= k
          BY <2>2
        <5> HIDE DEF k
        <5> QED
          BY <1>4, <2>2, <2>4, <5>1
      <4> QED
        BY <1>4, <4>1
    <3> HIDE DEF x
    <3>2. /\ entries[x].off = Back(b, Behind(c, x))
          /\ get_entry_len(entries[x].off) = entries[x].len
      BY <3>1 DEF Window, Whole
    <3>3. /\ entries[x].len \in 1 .. Size
          /\ Behind(c, x + 1) = Behind(c, x) - entries[x].len
          /\ logger_offset(Back(b, Behind(c, x)) + entries[x].len) = Back(b, Behind(c, x + 1))
      BY <1>3, <3>1
    <3>4. p[j] = Back(b, Behind(c, x))
      BY DEF x
    <3> HIDE DEF p
    <3> QED
      BY <3>1, <3>2, <3>3, <3>4, SizeFacts DEF x
  <2>5. \A j \in 0 .. k : s[j] \in Nat
    <3> DEFINE bad == {j \in 0 .. k : s[j] \notin Nat}
    <3> SUFFICES ASSUME bad # {}
                 PROVE  FALSE
      OBVIOUS
    <3>1. PICK j \in bad : \A h \in bad : j <= h
      <4>1. bad \in SUBSET Nat
        OBVIOUS
      <4> HIDE DEF bad
      <4> QED
        BY <4>1, LeastNumber
    <3>2. j # 0
      BY <1>4, <2>2, <3>1
    <3>3. j - 1 \in 0 .. k /\ j - 1 \notin bad /\ j - 1 # k /\ (j - 1) + 1 = j
      <4>1. j \in 0 .. k
        BY <3>1
      <4> HIDE DEF bad, k
      <4> QED
        BY <2>2, <3>1, <3>2, <4>1
    <3> DEFINE h == j - 1
    <3>4. h \in 0 .. k /\ h # k /\ h + 1 = j /\ s[h] \in Nat
      BY <3>3
    <3> HIDE DEF h
    <3>5. /\ entries[i + h].len \in Nat
          /\ Behind(c, i + (h + 1)) = Behind(c, i + h) - entries[i + h].len
      BY <2>4, <3>4
    <3>6. s[j] = d - Behind(c, i + j) /\ s[h] = d - Behind(c, i + h)
      BY <3>1, <3>4
    <3>7. Behind(c, i + h) \in Nat /\ Behind(c, i + j) = Behind(c, i + h) - entries[i + h].len
      BY <2>3, <3>4, <3>5
    <3>8. s[j] = s[h] + entries[i + h].len
      <4> HIDE DEF s
      <4> QED
        BY <1>4, <3>5, <3>6, <3>7
    <3>9. s[j] \in Nat
      BY <3>4, <3>5, <3>8
    <3> QED
      BY <3>1, <3>9
  <2>6. Parses(p, s, k, off)
    <3>1. p \in [0 .. k -> Offsets]
      BY <2>3
    <3>2. s \in [0 .. k -> Nat]
      BY <2>5
    <3>3. p[0] = off /\ s[0] = 0
      BY <1>1, <1>4, <2>2
    <3>4. ASSUME NEW j \in 0 .. k - 1
          PROVE  /\ s[j + 1] = s[j] + get_entry_len(p[j])
                 /\ p[j + 1] = logger_offset(p[j] + get_entry_len(p[j]))
      <4>1. j \in 0 .. k /\ j # k /\ j + 1 \in 0 .. k
        BY <2>2
      <4>2. /\ get_entry_len(p[j]) = entries[i + j].len /\ entries[i + j].len \in Nat
            /\ Behind(c, i + (j + 1)) = Behind(c, i + j) - entries[i + j].len
            /\ logger_offset(p[j] + entries[i + j].len) = Back(b, Behind(c, i + (j + 1)))
            /\ Behind(c, i + j) \in Nat
        BY <2>3, <2>4, <4>1
      <4>3. /\ s[j] = d - Behind(c, i + j) /\ s[j + 1] = d - Behind(c, i + (j + 1))
            /\ p[j + 1] = Back(b, Behind(c, i + (j + 1)))
        BY <4>1
      <4> DEFINE e == entries[i + j].len
                 u == Behind(c, i + j)
                 v == Behind(c, i + (j + 1))
      <4>4. p[j + 1] = logger_offset(p[j] + get_entry_len(p[j]))
        BY <4>2, <4>3, Zenon
      <4>5. /\ s[j] = d - u /\ s[j + 1] = d - v /\ v = u - e /\ e \in Nat /\ u \in Nat
            /\ get_entry_len(p[j]) = e
        BY <4>2, <4>3, Zenon
      <4> HIDE DEF p, s, d, e, u, v
      <4>6. s[j + 1] = s[j] + e
        BY <1>4, <4>5
      <4> QED
        BY <4>4, <4>5, <4>6, Zenon
    <3> HIDE DEF p, s
    <3> QED
      BY <3>1, <3>2, <3>3, <3>4 DEF Parses
  <2>7. s[k] = d
    <3>1. s[k] = d - Behind(c, n + 1)
      BY <2>2
    <3>2. Behind(c, n + 1) = 0
      BY <1>1, <1>3
    <3> QED
      BY <1>4, <3>1, <3>2
  <2>8. d >= m
    BY <1>4, <1>7, SizeFacts
  <2>9. PICK j \in 1 .. k : s[j] >= m /\ get_next_entry(off, m) = p[j]
    <3>1. s[k] >= m
      BY <2>7, <2>8
    <3> HIDE DEF p, s, k
    <3> QED
      BY <2>2, <2>6, <3>1, NextEntry
  <2>10. j \in 0 .. k
    BY <2>2
  <2>11. /\ p[j] = Back(b, Behind(c, i + j)) /\ s[j] = d - Behind(c, i + j)
         /\ i + j \in lo .. n + 1 /\ Behind(c, i + j) \in Nat
    BY <2>3, <2>10
  <2>12. Behind(c, i + j) + m < Size
    BY <1>4, <2>9, <2>11, SizeFacts
  <2> QED
    BY <2>1, <2>9, <2>11, <2>12 DEF Stands
<1> QED
  BY <1>4, <1>6, <1>7, SizeFacts

-----------------------------------------------------------------------------
(* The inductive invariant.                                                *)

(* The local variables of logger_aio_write.                                *)
WriterRecord ==
    [pc : WriterPC, orig : Offsets, from : Offsets, iov : Seq(Nat), len : 0 .. MaxPayload,
     ret : Nat, at : Readers \cup {NoOne}, todo : SUBSET Readers]

(* No write has copied more than header.len.                               *)
WriterTyped ==
    /\ writer \in [Writers -> WriterRecord]
    /\ \A w \in Writers : writer[w].ret <= writer[w].len

(* The local variables of LOGGER_FLUSH_LOG.                                *)
FlusherRecord ==
    [pc : {"idle", "walk", "oops"}, at : Readers \cup {NoOne}, todo : SUBSET Readers]

(* The types of the other variables.                                       *)
LogTyped ==
    /\ buffer \in [Offsets -> Cells]
    /\ w_off \in Offsets /\ head \in Offsets /\ sign \in Longs
    /\ mutex \in Writers \cup Readers \cup {Flusher, NoOne}
    /\ readers \subseteq Readers
    /\ reader \in [Readers -> [r_off : Offsets, sign : Longs, pc : ReaderPC]]
    /\ asleep \subseteq Readers
    /\ flusher \in FlusherRecord
    /\ entries \in Seq([off : Offsets, len : 1 .. Size])
    /\ got \in [Readers -> Nat] /\ told \in [Readers -> BOOLEAN]
    /\ flushed \in Nat
    /\ attempts \in 0 .. MaxWrites
    /\ faulted \in BOOLEAN /\ raced \in BOOLEAN /\ stale \in BOOLEAN

(* The write that is past mutex_lock is the one that holds the mutex, and  *)
(* the segments that are left make up header.len.                          *)
WriterInv ==
    \A w \in Writers :
        /\ writer[w].pc \in {"walk", "payload", "oops"} <=> mutex = w
        /\ writer[w].pc \in {"begun", "walk", "payload"}
              => writer[w].len >= 1 /\ SumOf(writer[w].iov) >= writer[w].len - writer[w].ret
        /\ writer[w].pc \in {"begun", "walk"} => writer[w].ret = 0

(* The bytes that a write needs.                                           *)
Need(w) == HeaderSize + writer[w].len

(* No write is on its way: the head and the readers stand in the window.   *)
FreeAt(c, lo) ==
    /\ Window(c, lo, w_off)
    /\ Stands(head, c, lo, w_off, 0)
    /\ \A r \in readers : Stands(reader[r].r_off, c, lo, w_off, 0)

(* In the walk: the head and the readers that it has passed leave room.    *)
WalkAt(w, c, lo) ==
    /\ w_off = writer[w].from
    /\ Window(c, lo, w_off)
    /\ Stands(head, c, lo, w_off, Need(w))
    /\ \A r \in readers :
          Stands(reader[r].r_off, c, lo, w_off, IF r \in writer[w].todo THEN 0 ELSE Need(w))

(* The first m cells of the entry that is being written.                   *)
Written(off, m) ==
    \A j \in Nat : j < m => LET x == buffer[logger_offset(off + j)]
                            IN  x.id = Len(entries) + 1 /\ x.pos = j

(* Behind the header: everything in the window is out of reach.            *)
PayloadAt(w, c, lo) ==
    /\ Window(c, lo, writer[w].from)
    /\ Behind(c, lo) + Need(w) < Size
    /\ Stands(head, c, lo, writer[w].from, 0)
    /\ \A r \in readers : Stands(reader[r].r_off, c, lo, writer[w].from, 0)
    /\ w_off = logger_offset(writer[w].from + (HeaderSize + writer[w].ret))
    /\ get_entry_len(writer[w].from) = Need(w)
    /\ Written(writer[w].from, HeaderSize + writer[w].ret)

(* The ring, whoever holds the mutex.  A task that died in the walk holds  *)
(* it for ever, and nobody looks at the ring again.                        *)
RingInv ==
    /\ mutex \notin Writers => \E c, lo : FreeAt(c, lo)
    /\ \A w \in Writers : /\ writer[w].pc = "walk" => \E c, lo : WalkAt(w, c, lo)
                          /\ writer[w].pc = "payload" => \E c, lo : PayloadAt(w, c, lo)

(* An offset at the end has seen everything.                               *)
SeenInv ==
    mutex \notin Writers =>
        /\ head = w_off => Len(entries) <= flushed \/ faulted
        /\ \A r \in readers : reader[r].r_off = w_off
              => Len(entries) <= got[r] \/ Len(entries) <= flushed \/ faulted

(* The list, and who holds the mutex for it, as long as no two operations  *)
(* on it have overlapped: a reader that is being added holds the mutex and *)
(* stands at the head, and a walk finds every reader that is open.         *)
ListInv ==
    /\ \A r \in Readers : reader[r].pc = "linking" => mutex = r /\ reader[r].r_off = head
    /\ \A r \in Readers : IsOpen(r) => r \in readers
    /\ flusher.pc = "walk" => mutex = Flusher /\ flushed = Len(entries)

(* The inductive invariant.  Once a fault has restored a stale w_off only  *)
(* the types are left of it.                                               *)
LogInv == LogTyped /\ WriterTyped /\ WriterInv /\ (~stale => RingInv /\ SeenInv)

-----------------------------------------------------------------------------
(* The tasks are different.                                                *)
LEMMA Tasks ==
    /\ NoOne \notin Writers /\ Flusher \notin Writers
    /\ NoOne \notin Readers /\ Flusher \notin Readers /\ Flusher # NoOne
    /\ \A r \in Readers : r \notin Writers
  BY LoggerAssumption

(* Steps that leave the ring, and whoever holds the mutex, alone.          *)
Quiet ==
    /\ UNCHANGED <<buffer, w_off, head, mutex, entries, flushed, faulted, stale>>
    /\ readers' \subseteq readers
    /\ \A r \in readers' : reader'[r].r_off = reader[r].r_off /\ got'[r] = got[r]
    /\ \A w \in Writers : writer'[w].pc \in {"walk", "payload"} => writer'[w] = writer[w]

(* They keep what is known of the ring.                                    *)
LEMMA QuietStep ==
    ASSUME RingInv, SeenInv, Quiet
    PROVE  RingInv' /\ SeenInv'
<1>1. SeenInv'
  BY DEF SeenInv, Quiet
<1>2. ASSUME mutex' \notin Writers
      PROVE  \E c, lo : FreeAt(c, lo)'
  <2>1. PICK c, lo : FreeAt(c, lo)
    BY <1>2 DEF RingInv, Quiet
  <2>2. Window(c, lo, w_off)'
    BY <2>1 DEF FreeAt, Quiet, Window, Sums, Behind, Whole, get_entry_len
  <2>3. Stands(head, c, lo, w_off, 0)'
    BY <2>1 DEF FreeAt, Quiet, Stands, Behind
  <2>4. \A r \in readers' : Stands(reader[r].r_off, c, lo, w_off, 0)'
    BY <2>1 DEF FreeAt, Quiet, Stands, Behind
  <2> QED
    BY <2>2, <2>3, <2>4 DEF FreeAt
<1>3. ASSUME NEW w \in Writers, (writer[w].pc = "walk")'
      PROVE  \E c, lo : WalkAt(w, c, lo)'
  <2>1. writer'[w] = writer[w] /\ writer[w].pc = "walk"
    BY <1>3 DEF Quiet
  <2>2. PICK c, lo : WalkAt(w, c, lo)
    BY <2>1 DEF RingInv
  <2>3. WalkAt(w, c, lo)'
    BY <2>1, <2>2 DEF WalkAt, Quiet, Window, Stands, Sums, Behind, Whole, Written,
           get_entry_len, Need
  <2> QED
    BY <2>3
<1>4. ASSUME NEW w \in Writers, (writer[w].pc = "payload")'
      PROVE  \E c, lo : PayloadAt(w, c, lo)'
  <2>1. writer'[w] = writer[w] /\ writer[w].pc = "payload"
    BY <1>4 DEF Quiet
  <2>2. PICK c, lo : PayloadAt(w, c, lo)
    BY <2>1 DEF RingInv
  <2>3. PayloadAt(w, c, lo)'
    BY <2>1, <2>2 DEF PayloadAt, Quiet, Window, Stands, Sums, Behind, Whole, Written,
           get_entry_len, Need
  <2> QED
    BY <2>3
<1> QED
  BY <1>1, <1>2, <1>3, <1>4 DEF RingInv

(* So the types and the writers are left to show.                          *)
LEMMA QuietInv ==
    ASSUME LogInv, ~stale, Quiet, LogTyped', WriterTyped', WriterInv'
    PROVE  LogInv'
<1>1. RingInv' /\ SeenInv'
  BY QuietStep DEF LogInv
<1> QED
  BY <1>1 DEF LogInv

(* The empty log.                                                          *)
LEMMA InitInv ==
    LogInit => LogInv
<1> SUFFICES ASSUME LogInit
             PROVE  LogInv
  OBVIOUS
<1>1. 0 \in Offsets /\ 0 \in Longs /\ 0 \in 0 .. MaxPayload /\ 0 \in Nat /\ 0 \in 0 .. MaxWrites
  BY SizeFacts, LoggerAssumption DEF Longs
<1>2. entries \in Seq([off : Offsets, len : 1 .. Size]) /\ entries = <<>> /\ Len(entries) = 0
  BY EmptySeq DEF LogInit
<1>3. LogTyped
  <2>1. [id |-> 0, pos |-> 0, byte |-> 0] \in Cells
    BY DEF Cells
  <2>2. Closed \in [r_off : Offsets, sign : Longs, pc : ReaderPC]
    BY <1>1 DEF Closed, ReaderPC
  <2>3. flusher \in FlusherRecord
    BY DEF FlusherRecord, LogInit, NotFlushing
  <2> QED
    BY <1>1, <1>2, <2>1, <2>2, <2>3 DEF LogTyped, LogInit
<1>4. NotWriting \in WriterRecord /\ NotWriting.ret <= NotWriting.len
  <2>1. <<>> \in Seq(Nat)
    BY EmptySeq
  <2> QED
    BY <1>1, <2>1 DEF NotWriting, WriterRecord, WriterPC
<1>5. WriterTyped
  BY <1>4 DEF WriterTyped, LogInit
<1>6. WriterInv
  BY LoggerAssumption DEF WriterInv, LogInit, NotWriting
<1> DEFINE c == [i \in 0 .. 0 |-> 0]
<1>7. Sums(c)
  BY <1>2 DEF Sums
<1>8. Behind(c, 1) = 0
  BY <1>2 DEF Behind
<1>9. Window(c, 1, w_off)
  BY <1>1, <1>2, <1>7, <1>8, SizeFacts DEF Window, LogInit
<1>10. Back(0, 0) = 0
  BY DEF Back
<1>11. Stands(head, c, 1, w_off, 0)
  <2> HIDE DEF c
  <2> QED
    BY <1>2, <1>8, <1>10, SizeFacts DEF Stands, LogInit
<1>12. FreeAt(c, 1)
  BY <1>9, <1>11 DEF FreeAt, LogInit
<1>13. RingInv
  BY <1>12 DEF RingInv, LogInit, NotWriting
<1>14. SeenInv
  BY <1>2 DEF SeenInv, LogInit
<1> QED
  BY <1>3, <1>5, <1>6, <1>13, <1>14 DEF LogInv

-----------------------------------------------------------------------------
(* The steps of a write that leave the ring alone.                         *)

(* logger_aio_write up to mutex_lock.                                      *)
LEMMA BeginWriteInv ==
    ASSUME LogInv, ~stale, NEW w \in Writers, NEW v \in Iovs, BeginWrite(w, v)
    PROVE  LogInv'
<1>1. v \in Seq(Nat)
  BY LoggerAssumption
<1>2. SumOf(v) \in Nat
  BY <1>1, SumOfTail
<1> DEFINE l == least(SumOf(v), MaxPayload)
<1>3. l \in 0 .. MaxPayload /\ l >= 1 /\ SumOf(v) >= l
  BY <1>2, SizeFacts DEF BeginWrite, least
<1> HIDE DEF l
<1>4. writer' = [writer EXCEPT ![w].pc = "begun", ![w].orig = w_off, ![w].iov = v,
                               ![w].ret = 0, ![w].len = l]
  BY DEF BeginWrite, l
<1>5. /\ LogTyped /\ WriterTyped /\ WriterInv
      /\ writer[w] \in WriterRecord
  BY DEF LogInv, WriterTyped
<1>6. /\ writer'[w] = [writer[w] EXCEPT !.pc = "begun", !.orig = w_off, !.iov = v,
                                        !.ret = 0, !.len = l]
      /\ \A x \in Writers : x # w => writer'[x] = writer[x]
      /\ DOMAIN writer' = Writers
  BY <1>4, <1>5 DEF WriterTyped
<1> DEFINE from == writer[w].from
           at == writer[w].at
           todo == writer[w].todo
<1>7. writer'[w] \in WriterRecord
  <2>1. writer'[w] = [pc |-> "begun", orig |-> w_off, from |-> from, iov |-> v, len |-> l,
                      ret |-> 0, at |-> at, todo |-> todo]
    BY <1>5, <1>6 DEF WriterRecord
  <2>2. from \in Offsets /\ at \in Readers \cup {NoOne} /\ todo \in SUBSET Readers
    BY <1>5 DEF WriterRecord
  <2>3. w_off \in Offsets /\ "begun" \in WriterPC /\ 0 \in Nat
    BY <1>5 DEF LogTyped, WriterPC
  <2> HIDE DEF from, at, todo
  <2> QED
    BY <1>1, <1>3, <2>1, <2>2, <2>3 DEF WriterRecord
<1>8. WriterTyped'
  <2>1. writer' \in [Writers -> WriterRecord]
    BY <1>4, <1>5, <1>6, <1>7 DEF WriterTyped
  <2>2. writer'[w].ret = 0 /\ writer'[w].len = l
    BY <1>5, <1>6 DEF WriterRecord
  <2> QED
    <3>1. ASSUME NEW x \in Writers
          PROVE  writer'[x].ret <= writer'[x].len
      <4>1. CASE x = w
        BY <1>3, <2>2, <4>1
      <4>2. CASE x # w
        BY <1>5, <1>6, <4>2 DEF WriterTyped
      <4> QED
        BY <4>1, <4>2
    <3> QED
      BY <2>1, <3>1 DEF WriterTyped
<1>9. WriterInv'
  <2>1. /\ writer'[w].pc = "begun" /\ writer'[w].len = l /\ writer'[w].ret = 0
        /\ writer'[w].iov = v
    BY <1>5, <1>6 DEF WriterRecord
  <2>2. writer[w].pc = "idle" /\ mutex' = mutex
    BY DEF BeginWrite
  <2>3. mutex # w
    BY <1>5, <2>2 DEF WriterInv
  <2> QED
    <3>1. ASSUME NEW x \in Writers, x # w
          PROVE  writer'[x] = writer[x]
      BY <1>6, <3>1
    <3>2. SumOf(v) >= l - 0 /\ l >= 1
      BY <1>2, <1>3
    <3> QED
      BY <1>5, <2>1, <2>2, <2>3, <3>1, <3>2 DEF WriterInv
<1>10. LogTyped'
  BY <1>5, LoggerAssumption DEF LogTyped, BeginWrite, delivered
<1>11. Quiet
  <2>1. writer'[w].pc = "begun"
    BY <1>5, <1>6 DEF WriterRecord
  <2> QED
    BY <1>6, <2>1 DEF Quiet, BeginWrite, delivered
<1> QED
  BY <1>8, <1>9, <1>10, <1>11, QuietInv

(* The local variables of a task that is not in a write.                   *)
LEMMA IdleRecord ==
    /\ NotWriting \in WriterRecord /\ NotWriting.ret <= NotWriting.len
    /\ \A p \in WriterPC : /\ [NotWriting EXCEPT !.pc = p] \in WriterRecord
                           /\ [NotWriting EXCEPT !.pc = p].ret = 0
                           /\ [NotWriting EXCEPT !.pc = p].len = 0
                           /\ [NotWriting EXCEPT !.pc = p].pc = p
    /\ NotWriting.pc = "idle" /\ NotWriting.ret = 0 /\ NotWriting.len = 0
<1>1. 0 \in Offsets /\ 0 \in 0 .. MaxPayload
  BY SizeFacts
<1>2. <<>> \in Seq(Nat)
  BY EmptySeq
<1>3. ASSUME NEW p \in WriterPC
      PROVE  [NotWriting EXCEPT !.pc = p] =
                [pc |-> p, orig |-> 0, from |-> 0, iov |-> <<>>, len |-> 0, ret |-> 0,
                 at |-> NoOne, todo |-> {}]
  <2> DEFINE e == <<>>
             z == {}
  <2>1. NotWriting = [pc |-> "idle", orig |-> 0, from |-> 0, iov |-> e, len |-> 0,
                      ret |-> 0, at |-> NoOne, todo |-> z]
    BY DEF NotWriting
  <2> HIDE DEF e, z
  <2>2. [NotWriting EXCEPT !.pc = p] =
           [pc |-> p, orig |-> 0, from |-> 0, iov |-> e, len |-> 0, ret |-> 0,
            at |-> NoOne, todo |-> z]
    BY <2>1
  <2> QED
    BY <2>2 DEF e, z
<1>4. ASSUME NEW p \in WriterPC
      PROVE  [pc |-> p, orig |-> 0, from |-> 0, iov |-> <<>>, len |-> 0, ret |-> 0,
              at |-> NoOne, todo |-> {}] \in WriterRecord
  BY <1>1, <1>2 DEF WriterRecord
<1>5. /\ NotWriting \in WriterRecord /\ NotWriting.ret = 0 /\ NotWriting.len = 0
      /\ NotWriting.pc = "idle"
  BY <1>4 DEF NotWriting, WriterPC
<1>6. NotWriting.ret <= NotWriting.len
  BY <1>5
<1> QED
  BY <1>3, <1>4, <1>5, <1>6

(* The task dies in the walk.                                              *)
LEMMA OopsInv ==
    ASSUME LogInv, ~stale, NEW w \in Writers, Oops(w)
    PROVE  LogInv'
<1> DEFINE n == [NotWriting EXCEPT !.pc = "oops"]
<1>1. n \in WriterRecord /\ n.ret = 0 /\ n.len = 0 /\ n.pc = "oops"
  BY IdleRecord DEF WriterPC
<1> HIDE DEF n
<1>2. writer' = [writer EXCEPT ![w] = n] /\ writer[w].pc = "walk"
  BY DEF Oops, n
<1>3. LogTyped /\ WriterTyped /\ WriterInv
  BY DEF LogInv
<1>4. WriterTyped'
  BY <1>1, <1>2, <1>3 DEF WriterTyped
<1>5. WriterInv'
  BY <1>1, <1>2, <1>3 DEF WriterInv, WriterTyped, Oops
<1>6. LogTyped'
  BY <1>3 DEF LogTyped, Oops, delivered
<1>7. Quiet
  BY <1>1, <1>2, <1>3 DEF Quiet, Oops, delivered, WriterTyped
<1> QED
  BY <1>4, <1>5, <1>6, <1>7, QuietInv

(* wake_up_interruptible.                                                  *)
LEMMA WakeReadersInv ==
    ASSUME LogInv, ~stale, NEW w \in Writers, WakeReaders(w)
    PROVE  LogInv'
<1>1. NotWriting \in WriterRecord /\ NotWriting.ret <= NotWriting.len /\ NotWriting.pc = "idle"
  BY IdleRecord
<1>2. writer' = [writer EXCEPT ![w] = NotWriting] /\ writer[w].pc = "wake"
  BY DEF WakeReaders
<1>3. LogTyped /\ WriterTyped /\ WriterInv
  BY DEF LogInv
<1>4. WriterTyped'
  BY <1>1, <1>2, <1>3 DEF WriterTyped
<1>5. WriterInv'
  BY <1>1, <1>2, <1>3 DEF WriterInv, WriterTyped, WakeReaders
<1>6. LogTyped'
  BY <1>3 DEF LogTyped, WakeReaders, delivered
<1>7. Quiet
  BY <1>1, <1>2, <1>3 DEF Quiet, WakeReaders, delivered, WriterTyped
<1> QED
  BY <1>4, <1>5, <1>6, <1>7, QuietInv

-----------------------------------------------------------------------------
(* The steps of a reader that leave the ring alone.                        *)

(* What is kept per reader.                                                *)
ReaderRecord == [r_off : Offsets, sign : Longs, pc : ReaderPC]

(* The count that belongs to an offset is a long.                          *)
LEMMA SignAtType ==
    ASSUME sign \in Longs, NEW off \in Offsets
    PROVE  sign_at(off) \in Longs
<1> DEFINE x == sign - (sign % Size) + off
           s == long(x)
           y == s - Size
<1>1. sign \in Int /\ sign % Size \in Int /\ off \in Int
  BY SizeFacts DEF Longs
<1>2. x \in Int
  BY <1>1
<1> HIDE DEF x
<1>3. s \in Longs
  BY <1>2, longType
<1> HIDE DEF s
<1>4. y \in Int
  BY <1>3, SizeFacts DEF Longs
<1> HIDE DEF y
<1>5. long(y) \in Longs
  BY <1>4, longType
<1>6. sign_at(off) = IF s > sign THEN long(y) ELSE s
  BY DEF sign_at, s, x, y
<1> QED
  BY <1>3, <1>5, <1>6

(* Only the readers, the queue and what was delivered change.              *)
LEMMA ReaderQuiet ==
    ASSUME LogInv, ~stale, UNCHANGED_log, asleep' \subseteq Readers,
           UNCHANGED <<got, flushed>>, told' \in [Readers -> BOOLEAN],
           reader' \in [Readers -> ReaderRecord],
           \A r \in Readers : reader'[r].r_off = reader[r].r_off
    PROVE  LogInv'
<1>1. LogTyped /\ WriterTyped /\ WriterInv
  BY DEF LogInv
<1>2. LogTyped'
  BY <1>1 DEF LogTyped, UNCHANGED_log, ReaderRecord
<1>3. WriterTyped' /\ WriterInv'
  BY <1>1 DEF WriterTyped, WriterInv, UNCHANGED_log
<1>4. Quiet
  BY <1>1 DEF Quiet, UNCHANGED_log, LogTyped
<1> QED
  BY <1>2, <1>3, <1>4, QuietInv

(* A change of where the reader's task is.                                 *)
LEMMA MovedReader ==
    ASSUME LogTyped, NEW r \in Readers, NEW p \in ReaderPC
    PROVE  /\ [reader EXCEPT ![r].pc = p] \in [Readers -> ReaderRecord]
           /\ \A x \in Readers : [reader EXCEPT ![r].pc = p][x].r_off = reader[x].r_off
BY DEF LogTyped, ReaderRecord

(* The steps of logger_read that only wait, or fail.                       *)
LEMMA ReaderWaitInv ==
    ASSUME LogInv, ~stale, NEW r \in Readers,
           StartRead(r) \/ CheckLog(r) \/ Schedule(r) \/ RaceLost(r) \/ ReadFails(r)
    PROVE  LogInv'
<1>1. LogTyped
  BY DEF LogInv
<1>2. PICK p \in ReaderPC : reader' = [reader EXCEPT ![r].pc = p]
  BY DEF StartRead, CheckLog, Schedule, RaceLost, ReadFails, ReaderPC
<1>3. /\ reader' \in [Readers -> ReaderRecord]
      /\ \A x \in Readers : reader'[x].r_off = reader[x].r_off
  BY <1>1, <1>2, MovedReader
<1>4. UNCHANGED_log /\ UNCHANGED <<got, told, flushed>>
  BY DEF StartRead, CheckLog, Schedule, RaceLost, ReadFails, delivered
<1>5. asleep' \subseteq Readers
  BY <1>1 DEF StartRead, CheckLog, Schedule, RaceLost, ReadFails, LogTyped
<1>6. told' \in [Readers -> BOOLEAN]
  BY <1>1, <1>4 DEF LogTyped
<1> QED
  BY <1>3, <1>4, <1>5, <1>6, ReaderQuiet

(* A signal.                                                               *)
LEMMA SignalInv ==
    ASSUME LogInv, ~stale, NEW r \in Readers, Signal(r)
    PROVE  LogInv'
<1>1. LogTyped
  BY DEF LogInv
<1>2. UNCHANGED_log /\ UNCHANGED <<reader, got, told, flushed>> /\ asleep' \subseteq Readers
  BY <1>1 DEF Signal, delivered, LogTyped
<1>3. reader' \in [Readers -> ReaderRecord] /\ told' \in [Readers -> BOOLEAN]
  BY <1>1, <1>2 DEF LogTyped, ReaderRecord
<1> QED
  BY <1>2, <1>3, ReaderQuiet

(* The warning of lost entries.                                            *)
LEMMA WarnInv ==
    ASSUME LogInv, ~stale, NEW r \in Readers, warn_overflow(r)
    PROVE  LogInv'
<1>1. LogTyped
  BY DEF LogInv
<1> DEFINE s == sign_at(reader[r].r_off)
           off == reader[r].r_off
<1>2. s \in Longs
  <2>1. sign \in Longs /\ off \in Offsets
    BY <1>1 DEF LogTyped
  <2> HIDE DEF off
  <2>2. sign_at(off) \in Longs
    BY <2>1, SignAtType
  <2> QED
    BY <2>2 DEF off
<1>3. reader' = [reader EXCEPT ![r].sign = s, ![r].pc = "idle"]
  BY DEF warn_overflow
<1> HIDE DEF s
<1>4. /\ reader' \in [Readers -> ReaderRecord]
      /\ \A x \in Readers : reader'[x].r_off = reader[x].r_off
  BY <1>1, <1>2, <1>3 DEF LogTyped, ReaderRecord, ReaderPC
<1>5. /\ UNCHANGED_log /\ UNCHANGED <<got, flushed>> /\ asleep' \subseteq Readers
      /\ told' \in [Readers -> BOOLEAN]
  BY <1>1 DEF warn_overflow, LogTyped
<1> QED
  BY <1>4, <1>5, ReaderQuiet

(* logger_release up to its list_del, also in the middle of a write.       *)
LEMMA ReleaseInv ==
    ASSUME LogInv, ~stale, NEW r \in Readers, logger_release(r)
    PROVE  LogInv'
<1>1. LogTyped /\ WriterTyped /\ WriterInv
  BY DEF LogInv
<1>2. /\ reader' \in [Readers -> ReaderRecord]
      /\ \A x \in Readers : reader'[x].r_off = reader[x].r_off
  BY <1>1, MovedReader DEF logger_release, ReaderPC
<1>3. raced' \in BOOLEAN
  BY DEF logger_release
<1>4. LogTyped'
  BY <1>1, <1>2, <1>3 DEF LogTyped, logger_release, ReaderRecord, delivered
<1>5. WriterTyped' /\ WriterInv'
  BY <1>1 DEF WriterTyped, WriterInv, logger_release
<1>6. Quiet
  BY <1>1, <1>2 DEF Quiet, logger_release, LogTyped, delivered
<1> QED
  BY <1>4, <1>5, <1>6, QuietInv

(* The rest of it: the reader is off the list.                             *)
LEMMA UnlinkInv ==
    ASSUME LogInv, ~stale, NEW r \in Readers, UnlinkReader(r)
    PROVE  LogInv'
<1>1. LogTyped /\ WriterTyped /\ WriterInv
  BY DEF LogInv
<1>2. Closed \in ReaderRecord
  BY SizeFacts DEF Closed, ReaderRecord, ReaderPC, Longs
<1>3. readers' = readers \ {r}
  BY DEF UnlinkReader
<1>4. LogTyped'
  BY <1>1, <1>2, <1>3 DEF LogTyped, UnlinkReader, ReaderRecord
<1>5. WriterTyped' /\ WriterInv'
  BY <1>1 DEF WriterTyped, WriterInv, UnlinkReader
<1>6. Quiet
  BY <1>1, <1>3 DEF Quiet, UnlinkReader, LogTyped
<1> QED
  BY <1>4, <1>5, <1>6, QuietInv

-----------------------------------------------------------------------------
(* The steps that move readers while no write is on its way.               *)

(* The ring is as before: the new places of the head and of the readers    *)
(* stand in the window.                                                    *)
LEMMA FreeStep ==
    ASSUME LogInv, ~stale, UNCHANGED <<buffer, w_off, entries, writer, stale>>,
           mutex \notin Writers,
           mutex' \notin Writers, LogTyped', SeenInv', NEW c, NEW lo, FreeAt(c, lo),
           Stands(head', c, lo, w_off, 0),
           \A r \in readers' : Stands(reader'[r].r_off, c, lo, w_off, 0)
    PROVE  LogInv'
<1>1. WriterTyped /\ WriterInv
  BY DEF LogInv
<1>2. WriterTyped' /\ WriterInv'
  BY <1>1 DEF WriterTyped, WriterInv
<1>3. \A w \in Writers : w # mutex'
  OBVIOUS
<1>4. FreeAt(c, lo)'
  BY DEF FreeAt, Window, Stands, Sums, Behind, Whole, get_entry_len
<1>5. RingInv'
  BY <1>2, <1>3, <1>4 DEF RingInv, WriterInv
<1> QED
  BY <1>2, <1>5 DEF LogInv

(* logger_open up to list_add_tail: the list is as before.                 *)
LEMMA OpenInv ==
    ASSUME LogInv, ~stale, NEW r \in Readers, logger_open(r)
    PROVE  LogInv'
<1>1. LogTyped /\ RingInv /\ SeenInv /\ mutex \notin Writers /\ mutex' \notin Writers
  BY Tasks DEF LogInv, logger_open
<1>2. PICK c, lo : FreeAt(c, lo)
  BY <1>1 DEF RingInv
<1> DEFINE s == sign_at(head)
<1>3. s \in Longs
  BY <1>1, SignAtType DEF LogTyped
<1>4. reader' = [reader EXCEPT ![r] = [r_off |-> head, sign |-> s, pc |-> "linking"]]
  BY DEF logger_open
<1> HIDE DEF s
<1>5. LogTyped'
  <2>1. raced' \in BOOLEAN
    BY DEF logger_open
  <2> QED
    BY <1>1, <1>3, <1>4, <2>1 DEF LogTyped, logger_open, ReaderPC
<1>6. /\ readers \subseteq Readers /\ readers' = readers
      /\ reader'[r].r_off = head
      /\ \A x \in Readers : x # r => reader'[x] = reader[x] /\ got'[x] = got[x]
  BY <1>1, <1>4 DEF LogTyped, logger_open
<1>7. UNCHANGED <<buffer, w_off, head, entries, writer, flushed, faulted, stale>>
  BY DEF logger_open
<1>8. SeenInv'
  BY <1>1, <1>6, <1>7 DEF SeenInv
<1>9. Stands(head', c, lo, w_off, 0)
  BY <1>2, <1>7 DEF FreeAt
<1>10. \A x \in readers' : Stands(reader'[x].r_off, c, lo, w_off, 0)
  BY <1>2, <1>6, <1>7, <1>9 DEF FreeAt
<1> QED
  BY <1>1, <1>2, <1>5, <1>7, <1>8, <1>9, <1>10, FreeStep

(* The rest of it: the new reader stands where the head does.              *)
LEMMA LinkInv ==
    ASSUME LogInv, ListInv, ~stale, NEW r \in Readers, LinkReader(r)
    PROVE  LogInv'
<1>1. LogTyped /\ RingInv /\ SeenInv /\ mutex \notin Writers /\ mutex' \notin Writers
  BY Tasks DEF LogInv, ListInv, LinkReader
<1>2. PICK c, lo : FreeAt(c, lo)
  BY <1>1 DEF RingInv
<1>3. /\ reader' = [reader EXCEPT ![r].pc = "idle"]
      /\ readers' = readers \cup {r} /\ reader[r].r_off = head
  BY DEF LinkReader, ListInv
<1>4. /\ reader' \in [Readers -> ReaderRecord]
      /\ \A x \in Readers : reader'[x].r_off = reader[x].r_off
  BY <1>1, <1>3, MovedReader DEF ReaderPC
<1>5. LogTyped'
  BY <1>1, <1>3, <1>4 DEF LogTyped, LinkReader, ReaderRecord, delivered
<1>6. UNCHANGED <<buffer, w_off, head, entries, writer, got, flushed, faulted, stale>>
  BY DEF LinkReader, delivered
<1>7. readers \subseteq Readers
  BY <1>1 DEF LogTyped
<1>8. SeenInv'
  BY <1>1, <1>3, <1>4, <1>6, <1>7 DEF SeenInv
<1>9. Stands(head', c, lo, w_off, 0)
  BY <1>2, <1>6 DEF FreeAt
<1>10. \A x \in readers' : Stands(reader'[x].r_off, c, lo, w_off, 0)
  BY <1>2, <1>3, <1>4, <1>7 DEF FreeAt
<1> QED
  BY <1>1, <1>2, <1>5, <1>6, <1>8, <1>9, <1>10, FreeStep

(* LOGGER_FLUSH_LOG: to stand at the end is to stand in the window.        *)
LEMMA EndStands ==
    ASSUME LogTyped, NEW c, NEW lo, FreeAt(c, lo)
    PROVE  Stands(w_off, c, lo, w_off, 0)
<1> DEFINE i == Len(entries) + 1
<1>1. Window(c, lo, w_off) /\ lo \in 1 .. i /\ Len(entries) \in Nat
  BY LenProperties DEF FreeAt, Window, LogTyped
<1>2. i \in lo .. i
  BY <1>1
<1>3. Behind(c, i) = 0 /\ Back(w_off, Behind(c, i)) = w_off
  BY <1>1, <1>2, BehindFacts DEF LogTyped
<1> HIDE DEF i
<1>4. \E k \in lo .. i : w_off = Back(w_off, Behind(c, k)) /\ Behind(c, k) + 0 < Size
  BY <1>2, <1>3, SizeFacts
<1> QED
  BY <1>4 DEF Stands, i

(* The flush takes the mutex.                                              *)
LEMMA FlushBeginInv ==
    ASSUME LogInv, ~stale, FlushBegin
    PROVE  LogInv'
<1>1. LogTyped /\ RingInv /\ SeenInv /\ mutex \notin Writers /\ mutex' \notin Writers
  BY Tasks DEF LogInv, FlushBegin
<1>2. PICK c, lo : FreeAt(c, lo)
  BY <1>1 DEF RingInv
<1>3. Len(entries) \in Nat
  BY <1>1, LenProperties DEF LogTyped
<1>4. flusher' \in FlusherRecord
  BY <1>1 DEF FlusherRecord, FlushBegin, LogTyped
<1>5. LogTyped'
  BY <1>1, <1>3, <1>4 DEF LogTyped, FlushBegin
<1>6. /\ UNCHANGED <<buffer, w_off, head, entries, writer, reader, readers, faulted, stale>>
      /\ flushed' = Len(entries)
  BY DEF FlushBegin
<1>7. SeenInv'
  BY <1>3, <1>6 DEF SeenInv
<1>8. /\ Stands(head', c, lo, w_off, 0)
      /\ \A x \in readers' : Stands(reader'[x].r_off, c, lo, w_off, 0)
  BY <1>2, <1>6 DEF FreeAt
<1> QED
  BY <1>1, <1>2, <1>5, <1>6, <1>7, <1>8, FreeStep

(* Its walk puts one reader at the end.                                    *)
LEMMA FlushReaderInv ==
    ASSUME LogInv, ListInv, ~stale, NEW r \in Readers, FlushReader(r)
    PROVE  LogInv'
<1>1. LogTyped /\ RingInv /\ SeenInv /\ mutex \notin Writers /\ mutex' \notin Writers
  BY Tasks DEF LogInv, ListInv, FlushReader
<1>2. PICK c, lo : FreeAt(c, lo)
  BY <1>1 DEF RingInv
<1>3. Len(entries) \in Nat
  BY <1>1, LenProperties DEF LogTyped
<1>4. flusher' \in FlusherRecord
  BY <1>1 DEF FlusherRecord, FlushReader, LogTyped
<1>5. LogTyped'
  BY <1>1, <1>3, <1>4 DEF LogTyped, FlushReader
<1>6. /\ UNCHANGED <<buffer, w_off, head, entries, writer, readers, flushed, faulted, stale>>
      /\ reader'[r].r_off = w_off /\ got'[r] = Len(entries)
      /\ \A x \in Readers : x # r => reader'[x] = reader[x] /\ got'[x] = got[x]
      /\ readers \subseteq Readers
  BY <1>1 DEF FlushReader, LogTyped
<1>7. SeenInv'
  <2>1. ASSUME NEW x \in readers, reader'[x].r_off = w_off
        PROVE  Len(entries) <= got'[x] \/ Len(entries) <= flushed \/ faulted
    <3>1. CASE x = r
      BY <1>3, <1>6, <3>1
    <3>2. CASE x # r
      BY <1>1, <1>6, <2>1, <3>2 DEF SeenInv
    <3> QED
      BY <3>1, <3>2
  <2> QED
    BY <1>1, <1>6, <2>1 DEF SeenInv
<1>8. Stands(head', c, lo, w_off, 0)
  BY <1>2, <1>6 DEF FreeAt
<1>9. Stands(w_off, c, lo, w_off, 0)
  BY <1>1, <1>2, EndStands
<1>10. \A x \in readers' : Stands(reader'[x].r_off, c, lo, w_off, 0)
  BY <1>2, <1>6, <1>9 DEF FreeAt
<1> QED
  BY <1>1, <1>2, <1>5, <1>6, <1>7, <1>8, <1>10, FreeStep

(* The flush dies in its walk.                                             *)
LEMMA FlushOopsInv ==
    ASSUME LogInv, ~stale, FlushOops
    PROVE  LogInv'
<1>1. LogTyped /\ WriterTyped /\ WriterInv
  BY DEF LogInv
<1>2. flusher' \in FlusherRecord
  BY DEF FlusherRecord, FlushOops, NotFlushing
<1>3. LogTyped'
  BY <1>1, <1>2 DEF LogTyped, FlushOops, delivered
<1>4. WriterTyped' /\ WriterInv'
  BY <1>1 DEF WriterTyped, WriterInv, FlushOops
<1>5. Quiet
  BY DEF Quiet, FlushOops, delivered
<1> QED
  BY <1>3, <1>4, <1>5, QuietInv

(* At last it puts the head at the end.                                    *)
LEMMA FlushEndInv ==
    ASSUME LogInv, ListInv, ~stale, FlushEnd
    PROVE  LogInv'
<1>1. /\ LogTyped /\ RingInv /\ SeenInv /\ mutex \notin Writers /\ mutex' \notin Writers
      /\ flushed = Len(entries)
  BY Tasks DEF LogInv, ListInv, FlushEnd
<1>2. PICK c, lo : FreeAt(c, lo)
  BY <1>1 DEF RingInv
<1>3. Len(entries) \in Nat
  BY <1>1, LenProperties DEF LogTyped
<1>4. flusher' \in FlusherRecord
  BY DEF FlusherRecord, FlushEnd, NotFlushing
<1>5. LogTyped'
  BY <1>1, <1>4 DEF LogTyped, FlushEnd, delivered
<1>6. /\ UNCHANGED <<buffer, w_off, entries, writer, reader, readers, got, flushed, faulted, stale>>
      /\ head' = w_off
  BY DEF FlushEnd, delivered
<1>7. SeenInv'
  BY <1>1, <1>3, <1>6 DEF SeenInv
<1>8. Stands(head', c, lo, w_off, 0)
  BY <1>1, <1>2, <1>6, EndStands
<1>9. \A x \in readers' : Stands(reader'[x].r_off, c, lo, w_off, 0)
  BY <1>2, <1>6 DEF FreeAt
<1> QED
  BY <1>1, <1>2, <1>5, <1>6, <1>7, <1>8, <1>9, FreeStep

(* One entry is read: the reader stands at the next one.                   *)
LEMMA ReadMoves ==
    ASSUME LogTyped, NEW c, NEW lo, FreeAt(c, lo), NEW r \in readers, ~Empty(r)
    PROVE  LET off == reader[r].r_off
               next == logger_offset(off + get_entry_len(off))
           IN  /\ next \in Offsets /\ Stands(next, c, lo, w_off, 0)
               /\ buffer[off].id \in Nat
               /\ next = w_off => Len(entries) <= buffer[off].id
<1> DEFINE n == Len(entries)
           off == reader[r].r_off
           len == get_entry_len(off)
           next == logger_offset(off + len)
<1>1. /\ Window(c, lo, w_off) /\ off # w_off
      /\ entries \in Seq([off : Offsets, len : 1 .. Size]) /\ off \in Offsets
      /\ buffer[off] \in Cells
  BY DEF FreeAt, Empty, LogTyped
<1>2. PICK i \in lo .. n + 1 : off = Back(w_off, Behind(c, i)) /\ Behind(c, i) + 0 < Size
  BY DEF FreeAt, Stands
<1>3. /\ n \in Nat /\ lo \in Nat /\ i \in Nat /\ Back(w_off, Behind(c, n + 1)) = w_off
      /\ i <= n => /\ entries[i].len \in 1 .. Size /\ entries[i].off \in Offsets
                   /\ logger_offset(Back(w_off, Behind(c, i)) + entries[i].len)
                         = Back(w_off, Behind(c, i + 1))
  BY <1>1, <1>2, BehindFacts
<1>4. i <= n /\ i \in lo .. n /\ i + 1 \in lo .. n + 1
  <2>1. i # n + 1
    BY <1>1, <1>2, <1>3
  <2> QED
    BY <1>2, <1>3, <2>1
<1>5. entries[i].off = off /\ Whole(i)
  BY <1>1, <1>2, <1>4 DEF Window
<1>6. len = entries[i].len
  BY <1>5 DEF Whole
<1>7. next = Back(w_off, Behind(c, i + 1))
  BY <1>2, <1>3, <1>4, <1>6
<1> DEFINE k == i + 1
<1>8. k \in lo .. n + 1
  BY <1>4
<1> HIDE DEF k
<1>9. /\ Behind(c, k) \in Nat /\ Behind(c, k) < Size /\ Back(w_off, Behind(c, k)) \in Offsets
      /\ k <= n => Back(w_off, Behind(c, k)) # w_off
  BY <1>1, <1>8, BehindFacts
<1>10. next = Back(w_off, Behind(c, k))
  BY <1>7 DEF k
<1> HIDE DEF next
<1>11. next \in Offsets /\ Stands(next, c, lo, w_off, 0)
  <2>1. Behind(c, k) + 0 < Size
    BY <1>9, SizeFacts
  <2> QED
    BY <1>8, <1>9, <1>10, <2>1 DEF Stands
<1>12. buffer[off].id = i
  <2>1. 0 \in 0 .. entries[i].len - 1
    BY <1>3, <1>4, SizeFacts
  <2>2. buffer[logger_offset(entries[i].off + 0)].id = i
    BY <1>5, <2>1 DEF Whole
  <2>3. logger_offset(off + 0) = off
    <3>1. off \in Nat /\ off < Size /\ off + 0 = off
      BY <1>1, SizeFacts
    <3>2. logger_offset(off) = off
      <4> HIDE DEF off
      <4> QED
        BY <3>1, OffsetOf, SizeFacts
    <3> QED
      BY <3>1, <3>2
  <2> QED
    BY <1>5, <2>2, <2>3
<1>13. next = w_off => n <= i
  BY <1>3, <1>4, <1>9, <1>10 DEF k
<1> QED
  BY <1>1, <1>3, <1>11, <1>12, <1>13 DEF next

(* do_read_log_to_user.                                                    *)
LEMMA ReadInv ==
    ASSUME LogInv, ~stale, NEW r \in Readers, do_read_log_to_user(r)
    PROVE  LogInv'
<1>1. LogTyped /\ RingInv /\ SeenInv /\ mutex \notin Writers /\ ~Empty(r)
  BY Tasks DEF LogInv, do_read_log_to_user
<1>2. PICK c, lo : FreeAt(c, lo)
  BY <1>1 DEF RingInv
<1> DEFINE off == reader[r].r_off
           len == get_entry_len(off)
           next == logger_offset(off + len)
           id == buffer[off].id
           s == long(reader[r].sign + len)
<1>3. /\ next \in Offsets /\ id \in Nat
      /\ r \in readers => Stands(next, c, lo, w_off, 0)
      /\ r \in readers /\ next = w_off => Len(entries) <= id
  <2>1. CASE r \in readers
    BY <1>1, <1>2, <2>1, ReadMoves
  <2>2. CASE r \notin readers
    <3>1. off \in Offsets /\ buffer \in [Offsets -> Cells] /\ id \in Nat
      BY <1>1 DEF LogTyped, Cells
    <3>2. next \in Offsets
      <4> HIDE DEF off
      <4> QED
        BY <3>1, EntryLenType
    <3> QED
      BY <2>2, <3>1, <3>2
  <2> QED
    BY <2>1, <2>2
<1>4. s \in Longs
  <2> DEFINE x == reader[r].sign + len
  <2>1. off \in Offsets /\ buffer \in [Offsets -> Cells] /\ reader[r].sign \in Int
    BY <1>1 DEF LogTyped, Longs
  <2>2. len \in Nat
    <3> HIDE DEF off
    <3> QED
      BY <2>1, EntryLenType
  <2>3. x \in Int
    BY <2>1, <2>2
  <2> HIDE DEF x
  <2>4. long(x) \in Longs
    BY <2>3, longType
  <2> QED
    BY <2>4 DEF x
<1>5. /\ reader' = [reader EXCEPT ![r].r_off = next, ![r].sign = s, ![r].pc = "idle"]
      /\ got' = [got EXCEPT ![r] = id]
      /\ told' = [told EXCEPT ![r] = FALSE]
  BY DEF do_read_log_to_user
<1>6. /\ UNCHANGED <<buffer, w_off, head, mutex, entries, writer, faulted, stale>>
      /\ UNCHANGED <<readers, sign, asleep, flusher, flushed, attempts, raced>>
  BY DEF do_read_log_to_user, UNCHANGED_log
<1> HIDE DEF next, id, s
<1>7. LogTyped'
  BY <1>1, <1>3, <1>4, <1>5, <1>6 DEF LogTyped, ReaderPC
<1>8. /\ reader'[r].r_off = next /\ got'[r] = id
      /\ \A x \in Readers : x # r => reader'[x] = reader[x] /\ got'[x] = got[x]
      /\ readers \subseteq Readers
  BY <1>1, <1>5 DEF LogTyped
<1>9. SeenInv'
  BY <1>1, <1>3, <1>6, <1>8 DEF SeenInv
<1>10. Stands(head', c, lo, w_off, 0)
  BY <1>2, <1>6 DEF FreeAt
<1>11. \A x \in readers' : Stands(reader'[x].r_off, c, lo, w_off, 0)
  BY <1>2, <1>3, <1>6, <1>8 DEF FreeAt
<1> QED
  BY <1>1, <1>2, <1>6, <1>7, <1>9, <1>10, <1>11, FreeStep

-----------------------------------------------------------------------------
(* fix_up_readers.                                                         *)

(* Who stands in the window is at an offset of the ring.                   *)
LEMMA StandsType ==
    ASSUME entries \in Seq([off : Offsets, len : 1 .. Size]), NEW c, NEW lo, NEW b,
           Window(c, lo, b), NEW off, NEW room, Stands(off, c, lo, b, room)
    PROVE  off \in Offsets
<1>1. PICK i \in lo .. Len(entries) + 1 : off = Back(b, Behind(c, i))
  BY DEF Stands
<1> QED
  BY <1>1, BehindFacts

(* An entry fills at most half of the ring.                                *)
LEMMA NeedFacts ==
    ASSUME WriterTyped, NEW w \in Writers
    PROVE  /\ Need(w) \in Nat /\ Need(w) > 0 /\ 2 * Need(w) <= Size /\ Need(w) < Size
           /\ Need(w) = 2 + writer[w].len /\ writer[w].len \in Nat /\ writer[w].ret \in Nat
           /\ writer[w].ret <= writer[w].len /\ writer[w].len <= MaxPayload
           /\ writer[w].iov \in Seq(Nat)
<1>1. /\ writer[w].len \in 0 .. MaxPayload /\ writer[w].ret \in Nat
      /\ writer[w].ret <= writer[w].len /\ writer[w].iov \in Seq(Nat)
  BY DEF WriterTyped, WriterRecord
<1> DEFINE l == writer[w].len
<1>2. l \in Nat /\ l <= MaxPayload /\ Need(w) = 2 + l
  BY <1>1, SizeFacts DEF Need
<1> HIDE DEF l
<1>3. /\ Need(w) \in Nat /\ Need(w) > 0 /\ 2 * Need(w) <= Size /\ Need(w) < Size
  BY <1>2, SizeFacts
<1> QED
  BY <1>1, <1>2, <1>3 DEF l

(* mutex_lock, and fix_up_readers for the head.                            *)
LEMMA LockWriteInv ==
    ASSUME LogInv, ~stale, NEW w \in Writers, LockWrite(w)
    PROVE  LogInv'
<1>1. /\ LogTyped /\ WriterTyped /\ WriterInv /\ RingInv /\ mutex = NoOne /\ writer[w].pc = "begun"
      /\ mutex \notin Writers
  BY Tasks DEF LogInv, LockWrite
<1>2. PICK c, lo : FreeAt(c, lo)
  BY <1>1 DEF RingInv
<1> DEFINE m == Need(w)
<1>3. m \in Nat /\ m > 0 /\ 2 * m <= Size
  BY <1>1, NeedFacts
<1>4. /\ entries \in Seq([off : Offsets, len : 1 .. Size]) /\ buffer \in [Offsets -> Cells]
      /\ Window(c, lo, w_off) /\ Stands(head, c, lo, w_off, 0)
      /\ \A r \in readers : Stands(reader[r].r_off, c, lo, w_off, 0)
  BY <1>1, <1>2 DEF LogTyped, FreeAt
<1>5. head' = fix_up(w_off, m, head)
  BY DEF LockWrite, Need
<1> HIDE DEF m
<1>6. Stands(head', c, lo, w_off, m)
  BY <1>3, <1>4, <1>5, FixUpResult
<1>7. head' \in Offsets
  BY <1>4, <1>6, StandsType
<1>8. /\ UNCHANGED <<buffer, w_off, sign, readers, reader, asleep, entries>>
      /\ UNCHANGED <<got, told, flusher, flushed, attempts, faulted, raced, stale>> /\ mutex' = w
      /\ writer' = [writer EXCEPT ![w].pc = "walk", ![w].from = w_off,
                                  ![w].at = NoOne, ![w].todo = readers]
  BY DEF LockWrite, delivered
<1>9. LogTyped'
  BY <1>1, <1>7, <1>8 DEF LogTyped
<1>10. /\ \A x \in Writers : x # w => writer'[x] = writer[x]
       /\ DOMAIN writer' = Writers
       /\ writer'[w].pc = "walk" /\ writer'[w].from = w_off /\ writer'[w].todo = readers
       /\ writer'[w].len = writer[w].len /\ writer'[w].ret = writer[w].ret
       /\ writer'[w].iov = writer[w].iov
  BY <1>1, <1>8 DEF WriterTyped, WriterRecord
<1>11. WriterTyped'
  <2>1. [writer[w] EXCEPT !.pc = "walk", !.from = w_off, !.at = NoOne, !.todo = readers]
           \in WriterRecord
    <3> DEFINE x == writer[w]
    <3>1. x \in WriterRecord /\ w_off \in Offsets /\ readers \in SUBSET Readers
      BY <1>1 DEF WriterTyped, LogTyped
    <3> HIDE DEF x
    <3>2. [x EXCEPT !.pc = "walk", !.from = w_off, !.at = NoOne, !.todo = readers] \in WriterRecord
      BY <3>1 DEF WriterRecord, WriterPC
    <3> QED
      BY <3>2 DEF x
  <2>2. writer' \in [Writers -> WriterRecord]
    BY <1>1, <1>8, <2>1 DEF WriterTyped
  <2>3. \A x \in Writers : writer'[x].ret <= writer'[x].len
    BY <1>1, <1>10 DEF WriterTyped
  <2> QED
    BY <2>2, <2>3 DEF WriterTyped
<1>12. w # NoOne /\ \A x \in Writers : x # NoOne
  BY LoggerAssumption
<1>13. WriterInv'
  BY <1>1, <1>8, <1>10, <1>12 DEF WriterInv
<1>14. WalkAt(w, c, lo)'
  <2>1. Need(w)' = m
    BY <1>10 DEF Need, m
  <2>2. Window(c, lo, w_off)'
    BY <1>4, <1>8 DEF Window, Sums, Behind, Whole, get_entry_len
  <2>3. PICK k : k = m
    OBVIOUS
  <2>4. Need(w)' = k
    BY <2>1, <2>3
  <2>5. Stands(head, c, lo, w_off, k)'
    BY <1>6, <1>8, <2>3 DEF Stands, Behind
  <2>6. ASSUME NEW r \in readers'
        PROVE  Stands(reader[r].r_off, c, lo, w_off, 0)'
    BY <1>4, <1>8 DEF Stands, Behind
  <2>7. (w_off = writer[w].from)'
    BY <1>8, <1>10
  <2>8. readers' = writer'[w].todo
    BY <1>8, <1>10
  <2> QED
    BY <2>2, <2>4, <2>5, <2>6, <2>7, <2>8 DEF WalkAt
<1>15. RingInv'
  BY <1>1, <1>8, <1>10, <1>12, <1>14 DEF RingInv, WriterInv
<1>16. SeenInv'
  BY <1>8, <1>12 DEF SeenInv
<1> QED
  BY <1>9, <1>11, <1>13, <1>15, <1>16 DEF LogInv

(* fix_up_readers for a reader.                                            *)
LEMMA WalkReaderInv ==
    ASSUME LogInv, ~stale, NEW w \in Writers, NEW r \in Readers, WalkReader(w, r)
    PROVE  LogInv'
<1>1. /\ LogTyped /\ WriterTyped /\ WriterInv /\ RingInv /\ writer[w].pc = "walk"
      /\ r \in writer[w].todo /\ r \in readers
  BY DEF LogInv, WalkReader
<1>2. mutex = w /\ w # NoOne /\ \A x \in Writers : x # NoOne
  BY <1>1, LoggerAssumption DEF WriterInv
<1>3. PICK c, lo : WalkAt(w, c, lo)
  BY <1>1 DEF RingInv
<1> DEFINE m == Need(w)
           o == fix_up(w_off, m, reader[r].r_off)
           q == reader[r].r_off
<1>4. m \in Nat /\ m > 0 /\ 2 * m <= Size
  BY <1>1, NeedFacts
<1>5. /\ entries \in Seq([off : Offsets, len : 1 .. Size]) /\ buffer \in [Offsets -> Cells]
      /\ Window(c, lo, w_off) /\ Stands(q, c, lo, w_off, 0)
  BY <1>1, <1>3 DEF LogTyped, WalkAt
<1>6. Stands(o, c, lo, w_off, m)
  <2> HIDE DEF m, q
  <2>1. Stands(fix_up(w_off, m, q), c, lo, w_off, m)
    BY <1>4, <1>5, FixUpResult
  <2> QED
    BY <2>1 DEF q
<1> HIDE DEF m, q
<1>7. o \in Offsets
  <2> HIDE DEF o
  <2> QED
    BY <1>5, <1>6, StandsType
<1>8. /\ UNCHANGED <<buffer, w_off, head, sign, mutex, readers, asleep, entries>>
      /\ UNCHANGED <<got, told, flusher, flushed, attempts, faulted, raced, stale>>
      /\ writer' = [writer EXCEPT ![w].at = r, ![w].todo = @ \ {r}]
      /\ reader' = [reader EXCEPT ![r].r_off = o]
  BY DEF WalkReader, delivered, o, m, Need
<1> HIDE DEF o
<1>9. LogTyped'
  BY <1>1, <1>7, <1>8 DEF LogTyped
<1>10. /\ \A x \in Writers : x # w => writer'[x] = writer[x]
       /\ DOMAIN writer' = Writers
       /\ writer'[w].pc = "walk" /\ writer'[w].from = writer[w].from
       /\ writer'[w].todo = writer[w].todo \ {r}
       /\ writer'[w].len = writer[w].len /\ writer'[w].ret = writer[w].ret
       /\ writer'[w].iov = writer[w].iov
       /\ reader'[r].r_off = o /\ \A x \in readers : x # r => reader'[x] = reader[x]
  BY <1>1, <1>8 DEF WriterTyped, WriterRecord, LogTyped
<1>11. WriterTyped'
  <2>1. [writer[w] EXCEPT !.at = r, !.todo = @ \ {r}] \in WriterRecord
    <3> DEFINE x == writer[w]
               t == x.todo \ {r}
    <3>1. x \in WriterRecord /\ t \in SUBSET Readers
      BY <1>1 DEF WriterTyped, WriterRecord
    <3>2. [x EXCEPT !.at = r, !.todo = @ \ {r}] = [x EXCEPT !.at = r, !.todo = t]
      BY <3>1 DEF WriterRecord
    <3> HIDE DEF x, t
    <3>3. [x EXCEPT !.at = r, !.todo = t] \in WriterRecord
      BY <3>1 DEF WriterRecord
    <3> QED
      BY <3>2, <3>3 DEF x
  <2>2. writer' \in [Writers -> WriterRecord]
    BY <1>1, <1>8, <2>1 DEF WriterTyped
  <2>3. \A x \in Writers : writer'[x].ret <= writer'[x].len
    BY <1>1, <1>10 DEF WriterTyped
  <2> QED
    BY <2>2, <2>3 DEF WriterTyped
<1>12. WriterInv'
  BY <1>1, <1>8, <1>10 DEF WriterInv
<1>13. WalkAt(w, c, lo)'
  <2>1. Need(w)' = m /\ Need(w) = m
    BY <1>10 DEF Need, m
  <2>2. Window(c, lo, w_off)'
    BY <1>5, <1>8 DEF Window, Sums, Behind, Whole, get_entry_len
  <2>3. /\ Stands(head, c, lo, w_off, m)
        /\ \A x \in readers : Stands(reader[x].r_off, c, lo, w_off,
                                     IF x \in writer[w].todo THEN 0 ELSE m)
        /\ w_off = writer[w].from
    BY <1>3, <2>1 DEF WalkAt
  <2>4. \A x \in readers : Stands(reader'[x].r_off, c, lo, w_off,
                                     IF x \in writer'[w].todo THEN 0 ELSE m)
    BY <1>6, <1>10, <2>3
  <2> HIDE DEF m
  <2>5. (w_off = writer[w].from)'
    BY <1>8, <1>10, <2>3
  <2>6. PICK k : k = m
    OBVIOUS
  <2>7. Stands(head, c, lo, w_off, k)'
    BY <1>8, <2>3, <2>6 DEF Stands, Behind
  <2>8. ASSUME NEW x \in readers'
        PROVE  Stands(reader[x].r_off, c, lo, w_off, IF x \in writer[w].todo THEN 0 ELSE k)'
    BY <1>8, <2>4, <2>6 DEF Stands, Behind
  <2>9. Need(w)' = k
    BY <2>1, <2>6
  <2> QED
    BY <2>2, <2>5, <2>7, <2>8, <2>9 DEF WalkAt
<1>14. RingInv'
  BY <1>1, <1>2, <1>8, <1>10, <1>13 DEF RingInv, WriterInv
<1>15. SeenInv'
  BY <1>2, <1>8 DEF SeenInv
<1> QED
  BY <1>9, <1>11, <1>12, <1>14, <1>15 DEF LogInv

-----------------------------------------------------------------------------
(* Writing in front of the window.                                         *)

(* Going on from an offset, ...                                            *)
LEMMA OffsetOn ==
    ASSUME NEW b \in Offsets, NEW p \in Nat, NEW j \in Nat, p + j <= Size
    PROVE  logger_offset(logger_offset(b + p) + j) = logger_offset(b + (p + j))
<1> DEFINE a == logger_offset(b + p)
           q == p + j
<1>1. q \in Nat /\ q <= Size /\ p <= Size /\ j <= Size
  BY SizeFacts
<1> HIDE DEF a, q
<1>2. a \in Offsets /\ a = IF b + p < Size THEN b + p ELSE b + p - Size
  BY <1>1, OffsetSum DEF a
<1>3. logger_offset(a + j) = IF a + j < Size THEN a + j ELSE a + j - Size
  BY <1>1, <1>2, OffsetSum
<1>4. logger_offset(b + q) = IF b + q < Size THEN b + q ELSE b + q - Size
  BY <1>1, OffsetSum
<1>5. q = p + j /\ b \in Int /\ 0 <= b /\ b < Size /\ Size \in Int
  BY SizeFacts DEF q
<1>6. (IF a + j < Size THEN a + j ELSE a + j - Size)
         = (IF b + q < Size THEN b + q ELSE b + q - Size)
  BY <1>1, <1>2, <1>5
<1>7. logger_offset(a + j) = logger_offset(b + q)
  BY <1>3, <1>4, <1>6
<1> QED
  BY <1>7 DEF a, q

(* ... which does not come round within a lap, ...                         *)
LEMMA OffsetsDiffer ==
    ASSUME NEW b \in Offsets, NEW j \in Nat, NEW k \in Nat, j < k, k < Size
    PROVE  logger_offset(b + j) # logger_offset(b + k)
<1>1. j <= Size /\ k <= Size
  BY SizeFacts
<1>2. /\ logger_offset(b + j) = IF b + j < Size THEN b + j ELSE b + j - Size
      /\ logger_offset(b + k) = IF b + k < Size THEN b + k ELSE b + k - Size
  BY <1>1, OffsetSum
<1> QED
  BY <1>1, <1>2, SizeFacts

(* ... and going nowhere.                                                  *)
LEMMA OffsetZero ==
    ASSUME NEW b \in Offsets
    PROVE  logger_offset(b + 0) = b /\ logger_offset(b) = b
<1>1. b \in Nat /\ b < Size /\ b + 0 = b /\ b < 2 * Size
  BY SizeFacts
<1>2. logger_offset(b) = b
  BY <1>1, OffsetOf
<1> QED
  BY <1>1, <1>2

(* Bytes p to p + q - 1 of the entry at b are written.                     *)
Segmented(b, p, q, id, bytes) ==
    /\ \A j \in Nat : p <= j /\ j < p + q =>
          buffer'[logger_offset(b + j)] = [id |-> id, pos |-> j, byte |-> bytes[j]]
    /\ \A j \in Nat : j < p => buffer'[logger_offset(b + j)] = buffer[logger_offset(b + j)]
    /\ \A x \in Offsets : (\A j \in Nat : j < p + q => x # logger_offset(b + j))
          => buffer'[x] = buffer[x]

(* That is what do_write_log and do_write_log_from_user do.                *)
LEMMA Segment ==
    ASSUME NEW b \in Offsets, NEW p \in Nat, NEW q \in Nat, p + q < Size, NEW id, NEW bytes,
           buffer' = Stored(logger_offset(b + p), p, q, id, bytes)
    PROVE  Segmented(b, p, q, id, bytes)
<1> DEFINE a == logger_offset(b + p)
<1>1. a \in Offsets /\ q < Size /\ p <= Size
  <2>1. q < Size /\ p <= Size
    BY SizeFacts
  <2> QED
    BY <2>1, OffsetSum
<1>2. \A k \in Nat : k < q => logger_offset(a + k) = logger_offset(b + (p + k))
  <2> SUFFICES ASSUME NEW k \in Nat, k < q
               PROVE  logger_offset(a + k) = logger_offset(b + (p + k))
    OBVIOUS
  <2>1. p + k <= Size
    BY SizeFacts
  <2> QED
    BY <2>1, OffsetOn
<1> HIDE DEF a
<1>3. buffer' = Stored(a, p, q, id, bytes)
  BY DEF a
<1>4. /\ \A k \in Nat : k < q => buffer'[logger_offset(a + k)] =
            [id |-> id, pos |-> p + k, byte |-> bytes[p + k]]
      /\ \A x \in Offsets : (\A k \in Nat : k < q => x # logger_offset(a + k))
            => buffer'[x] = buffer[x]
  BY <1>1, <1>3, StoredCells
<1>5. ASSUME NEW j \in Nat, p <= j, j < p + q
      PROVE  buffer'[logger_offset(b + j)] = [id |-> id, pos |-> j, byte |-> bytes[j]]
  <2> DEFINE k == j - p
  <2>1. k \in Nat /\ k < q /\ p + k = j
    BY <1>5
  <2> HIDE DEF k
  <2>2. buffer'[logger_offset(b + (p + k))] = [id |-> id, pos |-> p + k, byte |-> bytes[p + k]]
    BY <1>2, <1>4, <2>1
  <2> QED
    BY <2>1, <2>2
<1>6. ASSUME NEW x \in Offsets, \A j \in Nat : p <= j /\ j < p + q => x # logger_offset(b + j)
      PROVE  buffer'[x] = buffer[x]
  <2>1. ASSUME NEW k \in Nat, k < q
        PROVE  x # logger_offset(a + k)
    <3> DEFINE j == p + k
    <3>1. j \in Nat /\ p <= j /\ j < p + q
      BY <2>1
    <3> HIDE DEF j
    <3>2. x # logger_offset(b + j)
      BY <1>6, <3>1
    <3> QED
      BY <1>2, <2>1, <3>2 DEF j
  <2> QED
    BY <1>4, <2>1
<1>7. ASSUME NEW j \in Nat, j < p
      PROVE  buffer'[logger_offset(b + j)] = buffer[logger_offset(b + j)]
  <2> DEFINE x == logger_offset(b + j)
  <2>1. x \in Offsets
    <3>1. j <= Size
      BY <1>7, SizeFacts
    <3> QED
      BY <3>1, OffsetSum
  <2>2. ASSUME NEW k \in Nat, p <= k, k < p + q
        PROVE  x # logger_offset(b + k)
    <3>1. j < k /\ k < Size
      BY <1>7, <2>2, SizeFacts
    <3> QED
      BY <3>1, OffsetsDiffer
  <2> HIDE DEF x
  <2>3. buffer'[x] = buffer[x]
    BY <1>6, <2>1, <2>2
  <2> QED
    BY <2>3 DEF x
<1>8. ASSUME NEW x \in Offsets, \A j \in Nat : j < p + q => x # logger_offset(b + j)
      PROVE  buffer'[x] = buffer[x]
  BY <1>6, <1>8
<1> QED
  BY <1>5, <1>7, <1>8 DEF Segmented

(* The buffer stays one of cells.                                          *)
LEMMA StoredType ==
    ASSUME buffer \in [Offsets -> Cells], NEW off \in Offsets, NEW first \in Nat, NEW m \in Nat,
           NEW id \in Nat, NEW bytes, \A j \in Nat : j < m => bytes[first + j] \in Nat
    PROVE  Stored(off, first, m, id, bytes) \in [Offsets -> Cells]
<1> SUFFICES ASSUME NEW i \in Offsets
             PROVE  LET j == (i - off + Size) % Size
                    IN  (IF j < m THEN [id |-> id, pos |-> first + j, byte |-> bytes[first + j]]
                                  ELSE buffer[i]) \in Cells
  BY DEF Stored
<1> DEFINE j == (i - off + Size) % Size
<1>1. j \in Nat
  BY SizeFacts
<1> HIDE DEF j
<1>2. j < m => [id |-> id, pos |-> first + j, byte |-> bytes[first + j]] \in Cells
  <2> SUFFICES ASSUME j < m
               PROVE  [id |-> id, pos |-> first + j, byte |-> bytes[first + j]] \in Cells
    OBVIOUS
  <2> DEFINE y == bytes[first + j]
             z == first + j
  <2>1. y \in Nat /\ z \in Nat
    BY <1>1
  <2> HIDE DEF y, z
  <2>2. [id |-> id, pos |-> z, byte |-> y] \in Cells
    BY <2>1 DEF Cells
  <2> QED
    BY <2>2 DEF y, z
<1>3. buffer[i] \in Cells
  OBVIOUS
<1> QED
  BY <1>2, <1>3 DEF j

(* What is written in front of the window leaves it whole.                 *)
LEMMA WindowKept ==
    ASSUME entries \in Seq([off : Offsets, len : 1 .. Size]), buffer \in [Offsets -> Cells],
           UNCHANGED entries, NEW c, NEW lo, NEW b, Window(c, lo, b), NEW m \in Nat,
           Behind(c, lo) + m < Size,
           \A x \in Offsets : (\A k \in Nat : k < m => x # logger_offset(b + k))
              => buffer'[x] = buffer[x]
    PROVE  Window(c, lo, b)'
<1> DEFINE n == Len(entries)
<1>1. /\ b \in Offsets /\ n \in Nat /\ lo \in 1 .. n + 1
      /\ \A i \in lo .. n : entries[i].off = Back(b, Behind(c, i)) /\ Whole(i)
  BY LenProperties DEF Window
<1>2. ASSUME NEW i \in lo .. n
      PROVE  Whole(i)'
  <2>1. i \in lo .. n + 1 /\ i <= n /\ lo \in lo .. n + 1
    BY <1>1
  <2> DEFINE d == Behind(c, i)
             e == entries[i].len
             o == entries[i].off
             h == Behind(c, lo)
  <2>2. d \in Nat /\ d < Size /\ e \in 1 .. Size /\ e <= d /\ d <= h /\ h \in Nat
    BY <2>1, BehindFacts
  <2>3. o = Back(b, d) /\ Whole(i) /\ o \in Offsets
    BY <1>1, <2>1, BehindFacts
  <2>4. h + m < Size
    OBVIOUS
  <2> HIDE DEF d, h
  <2>5. ASSUME NEW j \in Nat, j < e
        PROVE  buffer'[logger_offset(o + j)] = buffer[logger_offset(o + j)]
    <3> DEFINE f == d - j
    <3>1. f \in Nat /\ f > 0 /\ f + m < Size /\ j <= d /\ f < Size
      BY <2>2, <2>4, <2>5, SizeFacts
    <3>2. logger_offset(o + j) = Back(b, f)
      BY <1>1, <2>2, <2>3, <3>1, BackForward
    <3> HIDE DEF f
    <3>3. Back(b, f) \in Offsets /\ \A k \in Nat : k < m => Back(b, f) # logger_offset(b + k)
      BY <1>1, <3>1, BackType, BackAhead
    <3>4. buffer'[Back(b, f)] = buffer[Back(b, f)]
      BY <3>3
    <3> QED
      BY <3>2, <3>4
  <2>6. e >= 2 /\ e \in Nat
    <3> DEFINE nx == logger_offset(o + 1)
    <3>1. nx \in Offsets
      BY <2>3, OffsetSum, SizeFacts
    <3>2. e = 2 + buffer[o].byte + LenBase * buffer[nx].byte
      BY <2>3, SizeFacts DEF Whole, get_entry_len
    <3> HIDE DEF nx, e, o
    <3>3. buffer[o].byte \in Nat /\ buffer[nx].byte \in Nat
      BY <2>3, <3>1 DEF Cells
    <3>4. LenBase * buffer[nx].byte \in Nat
      BY <3>3, SizeFacts
    <3> DEFINE x == buffer[o].byte
               y == LenBase * buffer[nx].byte
    <3>5. x \in Nat /\ y \in Nat /\ e = 2 + x + y
      BY <3>2, <3>3, <3>4
    <3> HIDE DEF x, y
    <3> QED
      BY <3>5
  <2>7. /\ buffer'[o] = buffer[o]
        /\ buffer'[logger_offset(o + 1)] = buffer[logger_offset(o + 1)]
    <3> HIDE DEF e, o
    <3>1. logger_offset(o + 0) = o
      BY <2>3, OffsetZero
    <3>2. buffer'[logger_offset(o + 0)] = buffer[logger_offset(o + 0)]
      BY <2>5, <2>6
    <3>3. buffer'[logger_offset(o + 1)] = buffer[logger_offset(o + 1)]
      BY <2>5, <2>6
    <3> QED
      BY <3>1, <3>2, <3>3
  <2>8. (get_entry_len(entries[i].off) = entries[i].len)'
    BY <2>3, <2>7 DEF get_entry_len, Whole
  <2>9. ASSUME NEW j \in 0 .. e - 1
        PROVE  LET x == buffer'[logger_offset(o + j)] IN x.id = i /\ x.pos = j
    <3>1. j \in Nat /\ j < e
      BY <2>6
    <3>2. buffer'[logger_offset(o + j)] = buffer[logger_offset(o + j)]
      BY <2>5, <3>1
    <3>3. LET x == buffer[logger_offset(o + j)] IN x.id = i /\ x.pos = j
      BY <2>3 DEF Whole
    <3> QED
      BY <3>2, <3>3
  <2> QED
    BY <2>8, <2>9 DEF Whole
<1> QED
  BY <1>2 DEF Window, Sums, Behind

(* The part of the window that m more bytes leave alone.                   *)
LEMMA Narrow ==
    ASSUME entries \in Seq([off : Offsets, len : 1 .. Size]), NEW c, NEW lo, NEW b,
           Window(c, lo, b), NEW m \in Nat, m < Size
    PROVE  \E l : /\ Window(c, l, b) /\ Behind(c, l) + m < Size
                  /\ \A off : Stands(off, c, lo, b, m) => Stands(off, c, l, b, 0)
<1> DEFINE n == Len(entries)
           T == {i \in lo .. n + 1 : Behind(c, i) + m < Size}
<1>1. n \in Nat /\ lo \in 1 .. n + 1 /\ lo \in Nat
  BY LenProperties DEF Window
<1>2. n + 1 \in lo .. n + 1
  BY <1>1
<1>3. Behind(c, n + 1) = 0
  BY <1>2, BehindFacts
<1>4. n + 1 \in T
  BY <1>2, <1>3
<1>5. T \in SUBSET Nat /\ T # {}
  BY <1>1, <1>4
<1>6. PICK l \in T : \A k \in T : l <= k
  <2> HIDE DEF T
  <2> QED
    BY <1>5, LeastNumber
<1>7. l \in lo .. n + 1 /\ Behind(c, l) + m < Size
  BY <1>6
<1>8. Behind(c, l) \in Nat /\ Behind(c, l) < Size
  BY <1>7, BehindFacts
<1>9. Window(c, l, b)
  <2>1. \A i \in l .. n : i \in lo .. n
    BY <1>1, <1>7
  <2>2. l \in 1 .. n + 1
    BY <1>1, <1>7
  <2> QED
    BY <1>8, <2>1, <2>2 DEF Window
<1>10. ASSUME NEW off, Stands(off, c, lo, b, m)
       PROVE  Stands(off, c, l, b, 0)
  <2>1. PICK i \in lo .. n + 1 : off = Back(b, Behind(c, i)) /\ Behind(c, i) + m < Size
    BY <1>10 DEF Stands
  <2>2. i \in T
    BY <2>1
  <2>3. i \in l .. n + 1
    BY <1>1, <1>6, <1>7, <2>1, <2>2
  <2>4. Behind(c, i) + 0 < Size
    BY <2>1, BehindFacts, SizeFacts
  <2> QED
    BY <2>1, <2>3, <2>4 DEF Stands
<1> QED
  BY <1>7, <1>9, <1>10

(* The length field: its two bytes give the length back.                   *)
LEMMA LengthField ==
    ASSUME NEW l \in Nat
    PROVE  /\ l % LenBase \in Nat /\ l \div LenBase \in Nat
           /\ (l % LenBase) + LenBase * (l \div LenBase) = l
BY SizeFacts, Z3

(* The header is written: the window shrinks to what the entry leaves      *)
(* alone, and everybody stands in that.                                    *)
LEMMA WriteHeaderInv ==
    ASSUME LogInv, ~stale, NEW w \in Writers, WriteHeader(w)
    PROVE  LogInv'
<1>1. /\ LogTyped /\ WriterTyped /\ WriterInv /\ RingInv /\ writer[w].pc = "walk"
      /\ writer[w].todo \cap readers = {}
  BY DEF LogInv, WriteHeader
<1>2. mutex = w /\ w # NoOne /\ writer[w].ret = 0 /\ writer[w].len >= 1
  BY <1>1, LoggerAssumption DEF WriterInv
<1>3. PICK c, lo : WalkAt(w, c, lo)
  BY <1>1 DEF RingInv
<1>4. PICK b : b = w_off
  OBVIOUS
<1>5. PICK m : m = Need(w)
  OBVIOUS
<1>6. PICK id : id = Len(entries) + 1
  OBVIOUS
<1>7. PICK l : l = writer[w].len
  OBVIOUS
<1> DEFINE bytes == [j \in Offsets |-> IF j = 0 THEN l % LenBase ELSE l \div LenBase]
<1>8. /\ m \in Nat /\ m < Size /\ m = 2 + l /\ l \in Nat /\ b \in Offsets
  BY <1>1, <1>4, <1>5, <1>7, NeedFacts DEF LogTyped
<1>9. /\ entries \in Seq([off : Offsets, len : 1 .. Size]) /\ buffer \in [Offsets -> Cells]
      /\ Window(c, lo, b) /\ Stands(head, c, lo, b, m) /\ b = writer[w].from
      /\ \A r \in readers : Stands(reader[r].r_off, c, lo, b, m)
  BY <1>1, <1>3, <1>4, <1>5 DEF LogTyped, WalkAt
<1>10. PICK g : /\ Window(c, g, b) /\ Behind(c, g) + m < Size
                /\ \A off : Stands(off, c, lo, b, m) => Stands(off, c, g, b, 0)
  BY <1>8, <1>9, Narrow
<1>11. /\ buffer' = Stored(b, 0, 2, id, bytes)
       /\ w_off' = logger_offset(b + 2) /\ sign' = long(sign + 2)
       /\ writer' = [writer EXCEPT ![w].pc = "payload", ![w].at = NoOne, ![w].todo = {}]
       /\ UNCHANGED <<head, mutex, readers, reader, asleep, entries>>
       /\ UNCHANGED <<got, told, flusher, flushed, attempts, faulted, raced, stale>>
  BY <1>4, <1>6, <1>7, SizeFacts DEF WriteHeader, delivered
<1>12. /\ l % LenBase \in Nat /\ l \div LenBase \in Nat
       /\ (l % LenBase) + LenBase * (l \div LenBase) = l
  BY <1>8, LengthField
<1>13. /\ bytes[0] = l % LenBase /\ bytes[1] = l \div LenBase
       /\ \A j \in Nat : j < 2 => bytes[0 + j] \in Nat
  BY <1>12, SizeFacts
<1> HIDE DEF bytes
<1>14. id \in Nat
  BY <1>6, <1>9, LenProperties
<1>15. buffer' \in [Offsets -> Cells]
  BY <1>8, <1>9, <1>11, <1>13, <1>14, StoredType
<1>16. LogTyped'
  <2>1. w_off' \in Offsets
    <3>1. 2 \in Nat /\ 2 <= Size
      BY SizeFacts
    <3>2. logger_offset(b + 2) \in Offsets
      BY <1>8, <3>1, OffsetSum
    <3> QED
      BY <1>11, <3>2
  <2>2. sign' \in Longs
    <3> DEFINE x == sign + 2
    <3>1. x \in Int
      BY <1>1 DEF LogTyped, Longs
    <3> HIDE DEF x
    <3>2. long(x) \in Longs
      BY <3>1, longType
    <3> QED
      BY <1>11, <3>2 DEF x
  <2> QED
    BY <1>1, <1>11, <1>15, <2>1, <2>2 DEF LogTyped
<1>17. /\ \A x \in Writers : x # w => writer'[x] = writer[x]
       /\ DOMAIN writer' = Writers
       /\ writer'[w].pc = "payload" /\ writer'[w].from = writer[w].from
       /\ writer'[w].len = writer[w].len /\ writer'[w].ret = writer[w].ret
       /\ writer'[w].iov = writer[w].iov
  BY <1>1, <1>11 DEF WriterTyped, WriterRecord
<1>18. WriterTyped'
  <2>1. [writer[w] EXCEPT !.pc = "payload", !.at = NoOne, !.todo = {}] \in WriterRecord
    <3> DEFINE x == writer[w]
               z == {}
    <3>1. x \in WriterRecord /\ z \in SUBSET Readers
      BY <1>1 DEF WriterTyped
    <3> HIDE DEF x, z
    <3>2. [x EXCEPT !.pc = "payload", !.at = NoOne, !.todo = z] \in WriterRecord
      BY <3>1 DEF WriterRecord, WriterPC
    <3> QED
      BY <3>2 DEF x, z
  <2>2. writer' \in [Writers -> WriterRecord]
    BY <1>1, <1>11, <2>1 DEF WriterTyped
  <2>3. \A x \in Writers : writer'[x].ret <= writer'[x].len
    BY <1>1, <1>17 DEF WriterTyped
  <2> QED
    BY <2>2, <2>3 DEF WriterTyped
<1>19. WriterInv'
  BY <1>1, <1>11, <1>17 DEF WriterInv
<1>20. /\ \A j \in Nat : 0 <= j /\ j < 2 =>
             buffer'[logger_offset(b + j)] = [id |-> id, pos |-> j, byte |-> bytes[j]]
       /\ \A x \in Offsets : (\A j \in Nat : j < 2 => x # logger_offset(b + j))
             => buffer'[x] = buffer[x]
  <2>1. logger_offset(b + 0) = b /\ 0 + 2 < Size
    BY <1>8, OffsetZero, SizeFacts
  <2>2. buffer' = Stored(logger_offset(b + 0), 0, 2, id, bytes)
    BY <1>11, <2>1
  <2> QED
    <3>1. Segmented(b, 0, 2, id, bytes)
      BY <1>8, <2>1, <2>2, Segment
    <3> QED
      BY <3>1 DEF Segmented
<1>21. Window(c, g, b)'
  <2>1. \A x \in Offsets : (\A j \in Nat : j < m => x # logger_offset(b + j))
           => buffer'[x] = buffer[x]
    BY <1>8, <1>20
  <2> QED
    BY <1>8, <1>9, <1>10, <1>11, <2>1, WindowKept
<1>22. PayloadAt(w, c, g)'
  <2>1. Need(w)' = m /\ writer'[w].from = b /\ writer'[w].ret = 0
    BY <1>2, <1>5, <1>9, <1>17 DEF Need
  <2>2. (Behind(c, g) + m < Size)'
    BY <1>10, <1>11 DEF Behind
  <2>3. Stands(head, c, g, b, 0)'
    BY <1>9, <1>10, <1>11 DEF Stands, Behind
  <2>4. ASSUME NEW r \in readers'
        PROVE  Stands(reader[r].r_off, c, g, b, 0)'
    <3>1. Stands(reader[r].r_off, c, g, b, 0)
      BY <1>9, <1>10, <1>11
    <3> QED
      BY <1>11, <3>1 DEF Stands, Behind
  <2>5. w_off' = logger_offset(b + (HeaderSize + 0))
    BY <1>11, SizeFacts
  <2>6. /\ buffer'[b] = [id |-> id, pos |-> 0, byte |-> bytes[0]]
        /\ buffer'[logger_offset(b + 1)] = [id |-> id, pos |-> 1, byte |-> bytes[1]]
    <3>1. logger_offset(b + 0) = b
      BY <1>8, OffsetZero
    <3>2. buffer'[logger_offset(b + 0)] = [id |-> id, pos |-> 0, byte |-> bytes[0]]
      BY <1>20
    <3>3. buffer'[logger_offset(b + 1)] = [id |-> id, pos |-> 1, byte |-> bytes[1]]
      BY <1>20
    <3> QED
      BY <3>1, <3>2, <3>3
  <2>7. get_entry_len(b)' = m
    <3> DEFINE x == l % LenBase
               y == LenBase * (l \div LenBase)
    <3>1. get_entry_len(b)' = 2 + x + y
      BY <1>13, <2>6, SizeFacts DEF get_entry_len
    <3>2. x \in Nat /\ y \in Nat /\ x + y = l
      BY <1>12, SizeFacts
    <3> HIDE DEF x, y
    <3> QED
      BY <1>8, <3>1, <3>2
  <2>8. ASSUME NEW j \in Nat, j < HeaderSize + 0
        PROVE  (LET x == buffer[logger_offset(b + j)] IN x.id = Len(entries) + 1 /\ x.pos = j)'
    <3>1. buffer'[logger_offset(b + j)] = [id |-> id, pos |-> j, byte |-> bytes[j]]
      BY <1>20, <2>8, SizeFacts
    <3> QED
      BY <1>6, <1>11, <3>1
  <2>9. Written(b, HeaderSize + 0)'
    BY <2>8 DEF Written
  <2> QED
    BY <1>21, <2>1, <2>2, <2>3, <2>4, <2>5, <2>7, <2>9 DEF PayloadAt
<1>23. RingInv'
  BY <1>1, <1>2, <1>11, <1>17, <1>22, LoggerAssumption DEF RingInv, WriterInv
<1>24. SeenInv'
  BY <1>2, <1>11 DEF SeenInv
<1> QED
  BY <1>16, <1>18, <1>19, <1>23, <1>24 DEF LogInv

(* A segment of h bytes, when t of l bytes are copied and s bytes are left *)
(* in the segments, u behind this one: q of them are copied, which fit.    *)
Fits(h, s, u, l, t, q) ==
    /\ q \in Nat /\ t + q \in Nat /\ t + q <= l /\ u >= l - (t + q)
    /\ 2 + t \in Nat /\ 2 + t <= Size /\ 2 + t >= 2
    /\ (2 + t) + q \in Nat /\ (2 + t) + q <= 2 + l /\ (2 + t) + q < Size
    /\ 2 + (t + q) = (2 + t) + q /\ q <= Size

(* That is what the least of the two does.                                 *)
LEMMA SegmentFits ==
    ASSUME NEW h \in Nat, NEW s \in Nat, NEW u \in Nat, u = s - h, NEW l \in Nat,
           2 + l < Size, NEW t \in Nat, t <= l, s >= l - t,
           NEW q, q = IF h < l - t THEN h ELSE l - t
    PROVE  Fits(h, s, u, l, t, q)
<1>1. Size \in Nat
  BY SizeFacts
<1>2. q \in Nat /\ q <= h /\ q <= l - t /\ (q = h \/ q = l - t)
  OBVIOUS
<1>3. t + q \in Nat /\ t + q <= l /\ u >= l - (t + q)
  BY <1>2
<1>4. 2 + t \in Nat /\ 2 + t <= Size /\ 2 + t >= 2
  BY <1>1
<1>5. (2 + t) + q \in Nat /\ (2 + t) + q <= 2 + l /\ 2 + (t + q) = (2 + t) + q
  BY <1>2, <1>3
<1>6. (2 + t) + q < Size /\ q <= Size
  BY <1>1, <1>2, <1>5
<1> QED
  BY <1>2, <1>3, <1>4, <1>5, <1>6, Zenon DEF Fits

(* What an iteration of the loop over the segments stores.                 *)
SegmentWritten(w) ==
    buffer' = Stored(w_off, HeaderSize + writer[w].ret, SegmentLen(w),
                     Len(entries) + 1, [j \in Offsets |-> 0])

(* One segment, whether copy_from_user fails in it or not.                 *)
LEMMA SegmentStored ==
    ASSUME LogTyped, WriterTyped, WriterInv, NEW w \in Writers, writer[w].pc = "payload",
           writer[w].iov # <<>>, UNCHANGED entries, NEW c, NEW lo, PayloadAt(w, c, lo),
           NEW b, b = writer[w].from, NEW t, t = writer[w].ret, NEW q, q = SegmentLen(w),
           NEW m, m = Need(w),
           SegmentWritten(w)
    PROVE  /\ q \in Nat /\ t + q <= writer[w].len
           /\ Tail(writer[w].iov) \in Seq(Nat)
           /\ SumOf(Tail(writer[w].iov)) >= writer[w].len - (t + q)
           /\ buffer' \in [Offsets -> Cells]
           /\ Window(c, lo, b)' /\ get_entry_len(b)' = m
           /\ Written(b, HeaderSize + (t + q))'
           /\ logger_offset(w_off + q) = logger_offset(b + (HeaderSize + (t + q)))
           /\ logger_offset(w_off + q) \in Offsets
<1> DEFINE v == writer[w].iov
           l == writer[w].len
           id == Len(entries) + 1
           z == [j \in Offsets |-> 0]
           p == 2 + t
<1>1. /\ m \in Nat /\ m < Size /\ m = 2 + l /\ l \in Nat /\ t \in Nat /\ t <= l /\ v \in Seq(Nat)
  BY NeedFacts
<1>2. /\ SumOf(v) \in Nat /\ Head(v) \in Nat /\ Tail(v) \in Seq(Nat)
      /\ SumOf(Tail(v)) = SumOf(v) - Head(v)
  <2>1. v # <<>>
    OBVIOUS
  <2> HIDE DEF v
  <2> QED
    BY <1>1, <2>1, SumOfTail
<1>3. SumOf(Tail(v)) \in Nat
  <2> DEFINE u == Tail(v)
  <2>1. u \in Seq(Nat)
    BY <1>2
  <2> HIDE DEF u
  <2>2. SumOf(u) \in Nat
    BY <2>1, SumOfTail
  <2> QED
    BY <2>2 DEF u
<1>4. q = IF Head(v) < l - t THEN Head(v) ELSE l - t
  BY DEF SegmentLen, least
<1>5. SumOf(v) >= l - t
  BY DEF WriterInv
<1> HIDE DEF v, l, p
<1>6. /\ q \in Nat /\ t + q \in Nat /\ t + q <= l /\ SumOf(Tail(v)) >= l - (t + q)
      /\ p \in Nat /\ p <= Size /\ p >= 2
      /\ p + q \in Nat /\ p + q <= m /\ p + q < Size /\ 2 + (t + q) = p + q /\ q <= Size
  <2> DEFINE h == Head(v)
             s == SumOf(v)
             u == SumOf(Tail(v))
  <2>1. h \in Nat /\ s \in Nat /\ u \in Nat /\ u = s - h /\ s >= l - t
    BY <1>2, <1>3, <1>5
  <2>2. q = IF h < l - t THEN h ELSE l - t
    BY <1>4
  <2> HIDE DEF h, s, u
  <2>3. 2 + l < Size /\ l \in Nat /\ t \in Nat /\ t <= l
    BY <1>1
  <2>4. Fits(h, s, u, l, t, q)
    BY <2>1, <2>2, <2>3, SegmentFits
  <2>5. /\ q \in Nat /\ t + q \in Nat /\ t + q <= l /\ u >= l - (t + q)
        /\ 2 + t \in Nat /\ 2 + t <= Size /\ 2 + t >= 2
        /\ (2 + t) + q \in Nat /\ (2 + t) + q <= 2 + l /\ (2 + t) + q < Size
        /\ 2 + (t + q) = (2 + t) + q /\ q <= Size
    BY <2>4, Zenon DEF Fits
  <2> QED
    BY <1>1, <2>5, Zenon DEF p, u
<1>7. p \in Nat /\ p + q <= m /\ p + q < Size /\ p >= 2 /\ p + q \in Nat /\ p <= Size
  BY <1>6
<1>8. /\ Window(c, lo, b) /\ Behind(c, lo) + m < Size
      /\ w_off = logger_offset(b + p) /\ get_entry_len(b) = m /\ Written(b, p)
      /\ entries \in Seq([off : Offsets, len : 1 .. Size]) /\ buffer \in [Offsets -> Cells]
      /\ w_off \in Offsets
  BY SizeFacts DEF PayloadAt, LogTyped, p
<1>9. b \in Offsets /\ Len(entries) \in Nat
  BY <1>8, LenProperties DEF Window
<1>10. buffer' = Stored(w_off, p, q, id, z)
  BY SizeFacts DEF SegmentWritten, p
<1>11. \A j \in Nat : j < q => z[p + j] \in Nat
  <2> SUFFICES ASSUME NEW j \in Nat, j < q
               PROVE  z[p + j] \in Nat
    OBVIOUS
  <2>1. p + j \in Offsets
    BY <1>6, SizeFacts
  <2> QED
    BY <2>1
<1>12. id \in Nat
  BY <1>9
<1> HIDE DEF z, id
<1>13. buffer' \in [Offsets -> Cells]
  BY <1>6, <1>7, <1>8, <1>10, <1>11, <1>12, StoredType
<1>14. /\ \A j \in Nat : p <= j /\ j < p + q =>
             buffer'[logger_offset(b + j)] = [id |-> id, pos |-> j, byte |-> z[j]]
       /\ \A j \in Nat : j < p => buffer'[logger_offset(b + j)] = buffer[logger_offset(b + j)]
       /\ \A x \in Offsets : (\A j \in Nat : j < p + q => x # logger_offset(b + j))
             => buffer'[x] = buffer[x]
  <2>1. buffer' = Stored(logger_offset(b + p), p, q, id, z)
    BY <1>8, <1>10
  <2> QED
    <3>1. b \in Offsets /\ p \in Nat /\ q \in Nat /\ p + q < Size
      BY <1>6, <1>9
    <3>2. Segmented(b, p, q, id, z)
      BY <2>1, <3>1, Segment
    <3> QED
      BY <3>2, Zenon DEF Segmented
<1>15. Window(c, lo, b)'
  <2>1. \A x \in Offsets : (\A j \in Nat : j < m => x # logger_offset(b + j))
           => buffer'[x] = buffer[x]
    <3> SUFFICES ASSUME NEW x \in Offsets, \A j \in Nat : j < m => x # logger_offset(b + j)
                 PROVE  buffer'[x] = buffer[x]
      OBVIOUS
    <3>1. \A j \in Nat : j < p + q => j < m
      BY <1>1, <1>7
    <3> QED
      BY <1>14, <3>1
  <2> QED
    BY <1>1, <1>8, <2>1, WindowKept
<1>16. get_entry_len(b)' = m
  <2>1. logger_offset(b + 0) = b
    BY <1>9, OffsetZero
  <2>2. 0 \in Nat /\ 1 \in Nat /\ 0 < p /\ 1 < p
    BY <1>7
  <2>3. /\ buffer'[logger_offset(b + 0)] = buffer[logger_offset(b + 0)]
        /\ buffer'[logger_offset(b + 1)] = buffer[logger_offset(b + 1)]
    BY <1>14, <2>2
  <2>4. buffer'[b] = buffer[b]
    BY <2>1, <2>3
  <2> QED
    BY <1>8, <2>3, <2>4 DEF get_entry_len
<1>17. HeaderSize + (t + q) = p + q
  BY <1>6, SizeFacts
<1>18. Written(b, p + q)'
  <2> SUFFICES ASSUME NEW j \in Nat, j < p + q
               PROVE  (LET x == buffer[logger_offset(b + j)]
                       IN  x.id = Len(entries) + 1 /\ x.pos = j)'
    BY DEF Written
  <2>1. CASE j < p
    <3>1. buffer'[logger_offset(b + j)] = buffer[logger_offset(b + j)]
      BY <1>14, <2>1
    <3>2. LET x == buffer[logger_offset(b + j)] IN x.id = Len(entries) + 1 /\ x.pos = j
      BY <1>8, <2>1 DEF Written
    <3> QED
      BY <3>1, <3>2
  <2>2. CASE p <= j
    <3>1. buffer'[logger_offset(b + j)] = [id |-> id, pos |-> j, byte |-> z[j]]
      BY <1>14, <2>2
    <3> QED
      BY <3>1 DEF id
  <2> QED
    BY <1>7, <2>1, <2>2
<1>19. logger_offset(w_off + q) = logger_offset(b + (p + q))
  <2>1. p + q <= Size
    BY <1>7, SizeFacts
  <2> QED
    BY <1>6, <1>7, <1>8, <1>9, <2>1, OffsetOn
<1>20. logger_offset(w_off + q) \in Offsets
  <2>1. q <= Size
    BY <1>6
  <2> QED
    BY <1>6, <1>8, <2>1, OffsetSum
<1>21. Written(b, HeaderSize + (t + q))'
  <2>1. PICK s : s = p + q
    OBVIOUS
  <2>2. Written(b, s)'
    BY <1>18, <2>1
  <2>3. s = HeaderSize + (t + q)
    BY <1>17, <2>1
  <2> QED
    BY <2>2, <2>3
<1> QED
  BY <1>2, <1>6, <1>13, <1>15, <1>16, <1>17, <1>19, <1>20, <1>21 DEF v, l

(* A segment is written.                                                   *)
LEMMA WriteSegmentInv ==
    ASSUME LogInv, ~stale, NEW w \in Writers, WriteSegment(w)
    PROVE  LogInv'
<1>1. /\ LogTyped /\ WriterTyped /\ WriterInv /\ RingInv /\ writer[w].pc = "payload"
      /\ writer[w].iov # <<>>
  BY DEF LogInv, WriteSegment
<1>2. mutex = w /\ w # NoOne /\ writer[w].len >= 1
  BY <1>1, LoggerAssumption DEF WriterInv
<1>3. PICK c, lo : PayloadAt(w, c, lo)
  BY <1>1 DEF RingInv
<1>4. PICK b, t, q, m : /\ b = writer[w].from /\ t = writer[w].ret /\ q = SegmentLen(w)
                        /\ m = Need(w)
  OBVIOUS
<1>5. /\ UNCHANGED <<head, mutex, readers, reader, asleep, entries>>
      /\ UNCHANGED <<got, told, flusher, flushed, attempts, faulted, raced, stale>>
      /\ w_off' = logger_offset(w_off + q) /\ sign' = long(sign + q)
      /\ SegmentWritten(w)
  BY <1>4 DEF WriteSegment, delivered, SegmentWritten
<1> DEFINE v == Tail(writer[w].iov)
           e == t + q
<1>6. writer' = [writer EXCEPT ![w].iov = v, ![w].ret = e]
  BY <1>4 DEF WriteSegment, SegmentLen
<1>7. /\ q \in Nat /\ e <= writer[w].len /\ v \in Seq(Nat)
      /\ SumOf(v) >= writer[w].len - e
      /\ buffer' \in [Offsets -> Cells]
      /\ Window(c, lo, b)' /\ get_entry_len(b)' = m
      /\ Written(b, HeaderSize + e)'
      /\ logger_offset(w_off + q) = logger_offset(b + (HeaderSize + e))
      /\ logger_offset(w_off + q) \in Offsets
  BY <1>1, <1>3, <1>4, <1>5, SegmentStored
<1>8. t \in Nat /\ e \in Nat
  <2>1. t \in Nat
    BY <1>1, <1>4, NeedFacts
  <2> QED
    BY <1>7, <2>1
<1> HIDE DEF v
<1>9. LogTyped'
  <2>1. sign' \in Longs
    <3> DEFINE x == sign + q
    <3>1. x \in Int
      BY <1>1, <1>7 DEF LogTyped, Longs
    <3> HIDE DEF x
    <3>2. long(x) \in Longs
      BY <3>1, longType
    <3> QED
      BY <1>5, <3>2 DEF x
  <2> QED
    BY <1>1, <1>5, <1>7, <2>1 DEF LogTyped
<1>10. PICK f : f = e
  OBVIOUS
<1>11. /\ \A x \in Writers : x # w => writer'[x] = writer[x]
       /\ DOMAIN writer' = Writers
       /\ writer'[w].pc = "payload" /\ writer'[w].from = b
       /\ writer'[w].len = writer[w].len /\ writer'[w].ret = f
       /\ writer'[w].iov = v
  <2> HIDE DEF e
  <2> QED
    BY <1>1, <1>4, <1>6, <1>10 DEF WriterTyped, WriterRecord
<1>12. WriterTyped'
  <2>1. [writer[w] EXCEPT !.iov = v, !.ret = e] \in WriterRecord
    <3> DEFINE x == writer[w]
    <3>1. x \in WriterRecord
      BY <1>1 DEF WriterTyped
    <3> HIDE DEF x, e
    <3>2. [x EXCEPT !.iov = v, !.ret = e] \in WriterRecord
      BY <1>7, <1>8, <3>1 DEF WriterRecord
    <3> QED
      BY <3>2 DEF x
  <2> HIDE DEF e
  <2>2. writer' \in [Writers -> WriterRecord]
    BY <1>1, <1>6, <2>1 DEF WriterTyped
  <2>3. \A x \in Writers : writer'[x].ret <= writer'[x].len
    BY <1>1, <1>7, <1>10, <1>11 DEF WriterTyped
  <2> QED
    BY <2>2, <2>3 DEF WriterTyped
<1> HIDE DEF e
<1>13. WriterInv'
  BY <1>1, <1>2, <1>5, <1>7, <1>10, <1>11 DEF WriterInv
<1>14. PayloadAt(w, c, lo)'
  <2>1. /\ Behind(c, lo) + m < Size /\ Stands(head, c, lo, b, 0)
        /\ \A r \in readers : Stands(reader[r].r_off, c, lo, b, 0)
    BY <1>3, <1>4 DEF PayloadAt
  <2>2. Need(w)' = m
    BY <1>4, <1>11 DEF Need
  <2>3. (Behind(c, lo) + m < Size)'
    BY <1>5, <2>1 DEF Behind
  <2>4. Stands(head, c, lo, b, 0)'
    BY <1>5, <2>1 DEF Stands, Behind
  <2>5. ASSUME NEW r \in readers'
        PROVE  Stands(reader[r].r_off, c, lo, b, 0)'
    BY <1>5, <2>1 DEF Stands, Behind
  <2>6. w_off' = logger_offset(b + (HeaderSize + f))
    BY <1>5, <1>7, <1>10
  <2>7. Written(b, HeaderSize + f)'
    BY <1>7, <1>10
  <2> QED
    BY <1>7, <1>11, <2>2, <2>3, <2>4, <2>5, <2>6, <2>7 DEF PayloadAt
<1>15. RingInv'
  BY <1>1, <1>2, <1>5, <1>11, <1>14, LoggerAssumption DEF RingInv, WriterInv
<1>16. SeenInv'
  BY <1>2, <1>5 DEF SeenInv
<1> QED
  BY <1>9, <1>12, <1>13, <1>15, <1>16 DEF LogInv

(* copy_from_user fails: unless orig is stale, w_off is back at the end of *)
(* the window, which the part of the entry has not touched.                *)
LEMMA FaultSegmentInv ==
    ASSUME LogInv, ~stale, NEW w \in Writers, FaultSegment(w)
    PROVE  LogInv'
<1>1. /\ LogTyped /\ WriterTyped /\ WriterInv /\ RingInv /\ writer[w].pc = "payload"
      /\ writer[w].iov # <<>>
  BY DEF LogInv, FaultSegment
<1>2. mutex = w /\ w # NoOne
  BY <1>1, LoggerAssumption DEF WriterInv
<1>3. PICK c, lo : PayloadAt(w, c, lo)
  BY <1>1 DEF RingInv
<1>4. PICK b, t, q, m : /\ b = writer[w].from /\ t = writer[w].ret /\ q = SegmentLen(w)
                        /\ m = Need(w)
  OBVIOUS
<1>5. /\ UNCHANGED <<head, sign, readers, reader, asleep, entries>>
      /\ UNCHANGED <<got, told, flusher, flushed, attempts, raced>>
      /\ w_off' = writer[w].orig /\ mutex' = NoOne
      /\ writer' = [writer EXCEPT ![w] = NotWriting]
      /\ faulted' = TRUE /\ stale' = (stale \/ writer[w].orig # writer[w].from)
      /\ SegmentWritten(w)
  BY DEF FaultSegment, delivered, SegmentWritten
<1>6. buffer' \in [Offsets -> Cells] /\ Window(c, lo, b)'
  BY <1>1, <1>3, <1>4, <1>5, SegmentStored
<1>7. LogTyped'
  <2>1. w_off' \in Offsets
    BY <1>1, <1>5 DEF WriterTyped, WriterRecord
  <2>2. stale' \in BOOLEAN
    BY <1>5
  <2> QED
    BY <1>1, <1>5, <1>6, <2>1, <2>2 DEF LogTyped
<1>8. NotWriting \in WriterRecord /\ NotWriting.ret <= NotWriting.len /\ NotWriting.pc = "idle"
  BY IdleRecord
<1>9. WriterTyped'
  BY <1>1, <1>5, <1>8 DEF WriterTyped
<1>10. \A x \in Writers : /\ x # w => writer'[x] = writer[x] /\ mutex # x
                          /\ x # NoOne /\ (x = w => writer'[x].pc = "idle")
  BY <1>1, <1>2, <1>5, <1>8, LoggerAssumption DEF WriterTyped
<1>11. WriterInv'
  <2> SUFFICES ASSUME NEW x \in Writers
               PROVE  WriterInv!(x)'
    BY DEF WriterInv
  <2>1. CASE x = w
    BY <1>5, <1>10, <2>1
  <2>2. CASE x # w
    BY <1>1, <1>5, <1>10, <2>2 DEF WriterInv
  <2> QED
    BY <2>1, <2>2
<1>12. ASSUME ~stale'
       PROVE  RingInv' /\ SeenInv'
  <2>1. w_off' = b
    BY <1>4, <1>5, <1>12
  <2>2. /\ Stands(head, c, lo, b, 0)
        /\ \A r \in readers : Stands(reader[r].r_off, c, lo, b, 0)
    BY <1>3, <1>4 DEF PayloadAt
  <2>3. Stands(head, c, lo, b, 0)'
    BY <1>5, <2>2 DEF Stands, Behind
  <2>4. ASSUME NEW r \in readers'
        PROVE  Stands(reader[r].r_off, c, lo, b, 0)'
    BY <1>5, <2>2 DEF Stands, Behind
  <2>5. FreeAt(c, lo)'
    BY <1>6, <2>1, <2>3, <2>4 DEF FreeAt
  <2>6. RingInv'
    BY <1>5, <1>10, <1>11, <2>5 DEF RingInv, WriterInv
  <2>7. SeenInv'
    BY <1>5 DEF SeenInv
  <2> QED
    BY <2>6, <2>7
<1> QED
  BY <1>7, <1>9, <1>11, <1>12 DEF LogInv

-----------------------------------------------------------------------------
(* A write completes.                                                      *)

(* One more completed write: the window grows by it.                       *)
LEMMA Grown ==
    ASSUME entries \in Seq([off : Offsets, len : 1 .. Size]), NEW c, NEW lo, NEW b,
           Window(c, lo, b), NEW m \in 1 .. Size, Behind(c, lo) + m < Size,
           UNCHANGED buffer, entries' = Append(entries, [off |-> b, len |-> m]),
           get_entry_len(b) = m, Written(b, m), NEW e, e = logger_offset(b + m)
    PROVE  \E d : /\ Window(d, lo, e)' /\ e \in Offsets
                  /\ \A off : Stands(off, c, lo, b, 0) => Stands(off, d, lo, e, 0)' /\ off # e
<1>1. PICK n : n = Len(entries)
  OBVIOUS
<1> DEFINE d == [i \in 0 .. n + 1 |-> IF i = n + 1 THEN c[n] + m ELSE c[i]]
<1>2. /\ n \in Nat /\ Sums(c) /\ lo \in 1 .. n + 1 /\ b \in Offsets
      /\ \A i \in lo .. n : entries[i].off = Back(b, Behind(c, i)) /\ Whole(i)
      /\ m \in Nat /\ m >= 1 /\ m < Size
  <2>1. /\ n \in Nat /\ Sums(c) /\ lo \in 1 .. n + 1 /\ b \in Offsets
        /\ \A i \in lo .. n : entries[i].off = Back(b, Behind(c, i)) /\ Whole(i)
    BY <1>1, LenProperties DEF Window
  <2>2. lo \in lo .. n + 1
    BY <2>1
  <2>3. Behind(c, lo) \in Nat
    BY <1>1, <2>2, BehindFacts
  <2> QED
    BY <2>1, <2>3, SizeFacts
<1>3. /\ Len(entries') = n + 1 /\ entries'[n + 1] = [off |-> b, len |-> m]
      /\ \A i \in 1 .. n : entries'[i] = entries[i]
  <2>1. [off |-> b, len |-> m] \in [off : Offsets, len : 1 .. Size]
    BY <1>2
  <2> DEFINE x == [off |-> b, len |-> m]
             S == [off : Offsets, len : 1 .. Size]
  <2>2. x \in S /\ entries \in Seq(S) /\ entries' = Append(entries, x)
    BY <2>1
  <2> HIDE DEF x, S
  <2>3. /\ Len(entries') = Len(entries) + 1 /\ entries'[Len(entries) + 1] = x
        /\ \A i \in 1 .. Len(entries) : entries'[i] = entries[i]
    BY <2>2, AppendProperties
  <2> QED
    BY <1>1, <2>3 DEF x
<1>4. /\ \A i \in 0 .. n : c[i] \in Nat
      /\ \A i, j \in 0 .. n : i < j => c[i] < c[j]
      /\ \A i \in 1 .. n : c[i] = c[i - 1] + entries[i].len
  BY <1>1, <1>2 DEF Sums
<1>5. /\ d \in [0 .. n + 1 -> Nat] /\ d[n + 1] = c[n] + m /\ \A i \in 0 .. n : d[i] = c[i]
  <2>1. c[n] \in Nat /\ c[n] + m \in Nat
    BY <1>2, <1>4
  <2>2. \A i \in 0 .. n + 1 : i # n + 1 => i \in 0 .. n
    BY <1>2
  <2>3. \A i \in 0 .. n : i \in 0 .. n + 1 /\ i # n + 1
    BY <1>2
  <2>4. n + 1 \in 0 .. n + 1
    BY <1>2
  <2> QED
    BY <1>4, <2>1, <2>2, <2>3, <2>4
<1> HIDE DEF d
<1>6. Sums(d)'
  <2>1. ASSUME NEW i \in 0 .. n + 1, NEW j \in 0 .. n + 1, i < j
        PROVE  d[i] < d[j]
    <3>1. i \in 0 .. n /\ n \in 0 .. n
      BY <1>2, <2>1
    <3>2. d[i] = c[i] /\ c[i] \in Nat /\ c[n] \in Nat
      BY <1>4, <1>5, <3>1
    <3>3. CASE j = n + 1
      <4>1. c[i] <= c[n]
        <5>1. CASE i = n
          BY <3>2, <5>1
        <5>2. CASE i # n
          <6>1. i < n
            BY <1>2, <3>1, <5>2
          <6>2. c[i] < c[n]
            BY <1>4, <3>1, <6>1
          <6> QED
            BY <3>2, <6>2
        <5> QED
          BY <5>1, <5>2
      <4> QED
        BY <1>2, <1>5, <3>2, <3>3, <4>1
    <3>4. CASE j # n + 1
      <4>1. j \in 0 .. n
        BY <1>2, <3>4
      <4> QED
        BY <1>4, <1>5, <2>1, <3>1, <4>1
    <3> QED
      BY <3>3, <3>4
  <2>2. ASSUME NEW i \in 1 .. n + 1
        PROVE  d[i] = d[i - 1] + entries'[i].len
    <3>1. CASE i = n + 1
      <4>1. i - 1 = n /\ n \in 0 .. n
        BY <1>2, <3>1
      <4>2. entries'[i].len = m /\ d[i] = c[n] + m /\ d[i - 1] = c[n]
        BY <1>3, <1>5, <3>1, <4>1
      <4> QED
        BY <4>2
    <3>2. CASE i # n + 1
      <4>1. i \in 1 .. n /\ i \in 0 .. n /\ i - 1 \in 0 .. n
        BY <1>2, <3>2
      <4>2. c[i] = c[i - 1] + entries[i].len /\ d[i] = c[i] /\ d[i - 1] = c[i - 1]
            /\ entries'[i] = entries[i]
        BY <1>3, <1>4, <1>5, <4>1
      <4> QED
        BY <4>2
    <3> QED
      BY <3>1, <3>2
  <2> QED
    BY <1>3, <1>5, <2>1, <2>2 DEF Sums
<1>7. ASSUME NEW i \in lo .. n + 1
      PROVE  /\ Behind(c, i) \in Nat /\ Behind(c, i) + m < Size
             /\ Behind(d, i)' = Behind(c, i) + m
             /\ Back(e, Behind(c, i) + m) = Back(b, Behind(c, i))
             /\ Back(e, Behind(c, i) + m) # e
  <2>1. /\ Behind(c, i) \in Nat /\ Behind(c, i) <= Behind(c, lo)
    BY <1>1, BehindFacts
  <2>2. Behind(c, lo) \in Nat
    <3>1. lo \in lo .. n + 1
      BY <1>2
    <3> QED
      BY <1>1, <3>1, BehindFacts
  <2>3. Behind(c, i) + m < Size
    BY <1>2, <2>1, <2>2, SizeFacts
  <2>4. i - 1 \in 0 .. n /\ n \in 0 .. n
    BY <1>2
  <2>5. /\ Behind(d, i)' = d[n + 1] - d[i - 1] /\ Behind(c, i) = c[n] - c[i - 1]
        /\ d[i - 1] = c[i - 1] /\ d[n + 1] = c[n] + m /\ c[n] \in Nat /\ c[i - 1] \in Nat
    BY <1>1, <1>3, <1>4, <1>5, <2>4 DEF Behind
  <2>6. Behind(d, i)' = Behind(c, i) + m
    <3> DEFINE x == c[n]
               y == c[i - 1]
    <3>1. Behind(d, i)' = (x + m) - y /\ Behind(c, i) = x - y /\ x \in Nat /\ y \in Nat
      BY <2>5
    <3> HIDE DEF x, y
    <3> QED
      BY <1>2, <3>1
  <2> DEFINE f == Behind(c, i)
             g == f + m
  <2>7. f \in Nat /\ f + m < Size /\ g \in Nat /\ g < Size /\ g > 0
    BY <1>2, <2>1, <2>3, SizeFacts
  <2> HIDE DEF f
  <2>8. Back(e, g) = Back(b, f)
    BY <1>2, <2>7, BackMoved
  <2>9. e \in Offsets
    BY <1>2, OffsetSum, SizeFacts
  <2> HIDE DEF g
  <2>10. Back(e, g) # e
    BY <2>7, <2>9, BackDifferent
  <2> QED
    BY <2>1, <2>3, <2>6, <2>8, <2>10 DEF f, g
<1>8. e \in Offsets
  BY <1>2, OffsetSum, SizeFacts
<1>9. ASSUME NEW i \in lo .. n + 1
      PROVE  (entries[i].off = Back(e, Behind(d, i)) /\ Whole(i))'
  <2>1. CASE i = n + 1
    <3>1. entries'[i].off = b /\ entries'[i].len = m
      BY <1>3, <2>1
    <3>2. Behind(c, n + 1) = 0
      BY <1>1, BehindFacts
    <3>3. Back(e, Behind(d, i)') = Back(b, Behind(c, i))
      BY <1>7
    <3>4. Back(b, 0) = b
      BY <1>2, SizeFacts DEF Back
    <3>5. entries'[i].off = Back(e, Behind(d, i)')
      BY <2>1, <3>1, <3>2, <3>3, <3>4
    <3>6. get_entry_len(b)' = m
      BY DEF get_entry_len
    <3>7. ASSUME NEW j \in 0 .. m - 1
          PROVE  LET x == buffer'[logger_offset(b + j)] IN x.id = i /\ x.pos = j
      <4>1. j \in Nat /\ j < m
        BY <1>2
      <4>2. LET x == buffer[logger_offset(b + j)] IN x.id = n + 1 /\ x.pos = j
        BY <1>1, <4>1 DEF Written
      <4> QED
        BY <2>1, <4>2
    <3>8. Whole(i)'
      BY <3>1, <3>6, <3>7 DEF Whole
    <3> QED
      BY <3>5, <3>8
  <2>2. CASE i # n + 1
    <3>1. i \in lo .. n /\ i \in 1 .. n
      BY <1>2, <2>2
    <3>2. entries'[i] = entries[i]
      BY <1>3, <3>1
    <3>3. entries[i].off = Back(b, Behind(c, i)) /\ Whole(i)
      BY <1>2, <3>1
    <3>4. Back(e, Behind(d, i)') = Back(b, Behind(c, i))
      BY <1>7
    <3>5. Whole(i)'
      BY <3>2, <3>3 DEF Whole, get_entry_len
    <3> QED
      BY <3>2, <3>3, <3>4, <3>5
  <2> QED
    BY <2>1, <2>2
<1>10. Window(d, lo, e)'
  <2>1. lo \in lo .. n + 1 /\ lo \in 1 .. (n + 1) + 1
    BY <1>2
  <2>2. Behind(d, lo)' < Size
    BY <1>7, <2>1
  <2>3. (n + 1) \in Nat
    BY <1>2
  <2>4. ASSUME NEW i \in lo .. Len(entries')
        PROVE  (entries[i].off = Back(e, Behind(d, i)) /\ Whole(i))'
    BY <1>3, <1>9
  <2> QED
    BY <1>3, <1>6, <1>8, <2>1, <2>2, <2>4 DEF Window
<1>11. ASSUME NEW off, Stands(off, c, lo, b, 0)
       PROVE  Stands(off, d, lo, e, 0)' /\ off # e
  <2>1. PICK i \in lo .. n + 1 : off = Back(b, Behind(c, i))
    BY <1>1, <1>11 DEF Stands
  <2>2. off = Back(e, Behind(d, i)') /\ off # e
    BY <1>7, <2>1
  <2>3. Behind(d, i)' + 0 < Size
    BY <1>2, <1>7, SizeFacts
  <2>4. i \in lo .. Len(entries') + 1
    BY <1>2, <1>3
  <2>5. Stands(off, d, lo, e, 0)'
    BY <2>2, <2>3, <2>4 DEF Stands
  <2> QED
    BY <2>2, <2>5
<1> QED
  BY <1>8, <1>10, <1>11

(* mutex_unlock: the entry is complete, as no segment is left.             *)
LEMMA UnlockWriteInv ==
    ASSUME LogInv, ~stale, NEW w \in Writers, UnlockWrite(w)
    PROVE  LogInv'
<1>1. /\ LogTyped /\ WriterTyped /\ WriterInv /\ RingInv /\ writer[w].pc = "payload"
      /\ writer[w].iov = <<>>
  BY DEF LogInv, UnlockWrite
<1>2. mutex = w /\ w # NoOne /\ writer[w].len >= 1
  BY <1>1, LoggerAssumption DEF WriterInv
<1>3. PICK c, lo : PayloadAt(w, c, lo)
  BY <1>1 DEF RingInv
<1>4. PICK b, m : b = writer[w].from /\ m = Need(w)
  OBVIOUS
<1> DEFINE x == [NotWriting EXCEPT !.pc = "wake"]
<1>5. x \in WriterRecord /\ x.ret = 0 /\ x.len = 0 /\ x.pc = "wake"
  BY IdleRecord DEF WriterPC
<1> HIDE DEF x
<1>6. /\ UNCHANGED <<buffer, w_off, head, sign, readers, reader, asleep>>
      /\ UNCHANGED <<got, told, flusher, flushed, attempts, faulted, raced, stale>>
      /\ mutex' = NoOne
      /\ entries' = Append(entries, [off |-> b, len |-> m])
      /\ writer' = [writer EXCEPT ![w] = x]
  BY <1>4 DEF UnlockWrite, delivered, Need, x
<1>7. writer[w].ret = writer[w].len
  <2> DEFINE v == writer[w].iov
  <2>1. v \in Seq(Nat) /\ v = <<>>
    BY <1>1, NeedFacts
  <2> HIDE DEF v
  <2>2. SumOf(v) = 0
    BY <2>1, SumOfTail
  <2>3. SumOf(writer[w].iov) >= writer[w].len - writer[w].ret
    BY <1>1 DEF WriterInv
  <2>4. writer[w].len \in Nat /\ writer[w].ret \in Nat /\ writer[w].ret <= writer[w].len
    BY <1>1, NeedFacts
  <2> QED
    BY <2>2, <2>3, <2>4 DEF v
<1>8. /\ m \in 1 .. Size /\ m = HeaderSize + writer[w].ret
      /\ Window(c, lo, b) /\ Behind(c, lo) + m < Size
      /\ Stands(head, c, lo, b, 0)
      /\ \A r \in readers : Stands(reader[r].r_off, c, lo, b, 0)
      /\ w_off = logger_offset(b + m) /\ get_entry_len(b) = m /\ Written(b, m)
  <2>1. m = HeaderSize + writer[w].ret
    BY <1>4, <1>7 DEF Need
  <2>2. m \in 1 .. Size
    BY <1>1, <1>4, NeedFacts, SizeFacts
  <2> QED
    BY <1>3, <1>4, <2>1, <2>2 DEF PayloadAt
<1>9. PICK e : e = w_off
  OBVIOUS
<1>10. entries \in Seq([off : Offsets, len : 1 .. Size])
  BY <1>1 DEF LogTyped
<1>11. PICK d : /\ Window(d, lo, e)' /\ e \in Offsets
                /\ \A off : Stands(off, c, lo, b, 0) => Stands(off, d, lo, e, 0)' /\ off # e
  BY <1>6, <1>8, <1>9, <1>10, Grown
<1>12. LogTyped'
  <2>1. [off |-> b, len |-> m] \in [off : Offsets, len : 1 .. Size]
    BY <1>8 DEF Window
  <2> DEFINE y == [off |-> b, len |-> m]
             S == [off : Offsets, len : 1 .. Size]
  <2>2. y \in S /\ entries \in Seq(S) /\ entries' = Append(entries, y)
    BY <1>6, <1>10, <2>1
  <2> HIDE DEF y, S
  <2>3. entries' \in Seq(S)
    BY <2>2, AppendProperties
  <2> QED
    BY <1>1, <1>6, <2>3 DEF LogTyped, S
<1>13. WriterTyped'
  BY <1>1, <1>5, <1>6 DEF WriterTyped
<1>14. \A y \in Writers : /\ y # w => writer'[y] = writer[y] /\ mutex # y
                          /\ y # NoOne /\ (y = w => writer'[y].pc = "wake")
  BY <1>1, <1>2, <1>5, <1>6, LoggerAssumption DEF WriterTyped
<1>15. WriterInv'
  <2> SUFFICES ASSUME NEW y \in Writers
               PROVE  WriterInv!(y)'
    BY DEF WriterInv
  <2>1. CASE y = w
    BY <1>6, <1>14, <2>1
  <2>2. CASE y # w
    BY <1>1, <1>6, <1>14, <2>2 DEF WriterInv
  <2> QED
    BY <2>1, <2>2
<1>16. FreeAt(d, lo)'
  <2>1. PICK h : h = head
    OBVIOUS
  <2>2. Stands(h, d, lo, e, 0)'
    BY <1>8, <1>11, <2>1
  <2>3. ASSUME NEW r \in readers'
        PROVE  Stands(reader[r].r_off, d, lo, e, 0)'
    <3>1. PICK o : o = reader[r].r_off
      OBVIOUS
    <3>2. Stands(o, d, lo, e, 0)'
      BY <1>6, <1>8, <1>11, <3>1
    <3>3. o = reader'[r].r_off
      BY <1>6, <3>1
    <3> QED
      BY <3>2, <3>3
  <2>4. head' = h /\ w_off' = e
    BY <1>6, <1>9, <2>1
  <2> QED
    BY <1>11, <2>2, <2>3, <2>4 DEF FreeAt
<1>17. RingInv'
  BY <1>6, <1>14, <1>15, <1>16 DEF RingInv, WriterInv
<1>18. SeenInv'
  BY <1>6, <1>8, <1>9, <1>11 DEF SeenInv
<1> QED
  BY <1>12, <1>13, <1>15, <1>17, <1>18 DEF LogInv

-----------------------------------------------------------------------------
(* The list of readers.                                                    *)

(* The steps of a write: the write holds the mutex, so that no reader is   *)
(* being added and no flush is on its way, or it leaves both alone.        *)
LEMMA ListWriterInv ==
    ASSUME LogInv, ListInv, NEW w \in Writers,
           WriterStep(w) \/ \E v \in Iovs : BeginWrite(w, v)
    PROVE  ListInv'
<1>1. LogTyped /\ WriterInv
  BY DEF LogInv
<1>2. CASE Oops(w) \/ WakeReaders(w) \/ \E v \in Iovs : BeginWrite(w, v)
  <2>1. UNCHANGED <<mutex, reader, head, readers, flusher, flushed, entries>>
    BY <1>2 DEF Oops, WakeReaders, BeginWrite, delivered
  <2> QED
    BY <2>1 DEF ListInv, IsOpen
<1>3. CASE ~(Oops(w) \/ WakeReaders(w) \/ \E v \in Iovs : BeginWrite(w, v))
  <2>1. mutex = w \/ mutex = NoOne
    BY <1>1, <1>3 DEF WriterStep, LockWrite, WalkReader, WriteHeader, WriteSegment,
           FaultSegment, UnlockWrite, WriterInv
  <2>2. mutex # Flusher /\ \A r \in Readers : mutex # r
    BY <2>1, Tasks
  <2>3. readers' = readers /\ flusher' = flusher
    BY <1>3 DEF WriterStep, LockWrite, WalkReader, WriteHeader, WriteSegment,
           FaultSegment, UnlockWrite
  <2>4. \A r \in Readers : reader'[r].pc = reader[r].pc
    <3>1. CASE reader' = reader
      BY <3>1
    <3>2. CASE \E x \in Readers : WalkReader(w, x)
      BY <1>1, <3>2 DEF WalkReader, LogTyped
    <3> QED
      BY <1>3, <3>1, <3>2 DEF WriterStep, LockWrite, WriteHeader, WriteSegment,
             FaultSegment, UnlockWrite
  <2> QED
    BY <2>2, <2>3, <2>4 DEF ListInv, IsOpen
<1> QED
  BY <1>2, <1>3

(* The steps of a reader.                                                  *)
LEMMA ListReaderInv ==
    ASSUME LogInv, ListInv, NEW r \in Readers,
           \/ logger_open(r) \/ logger_release(r) \/ ListStep(r)
           \/ StartRead(r) \/ Signal(r) \/ ReaderStep(r)
    PROVE  ListInv'
<1>1. LogTyped /\ readers \subseteq Readers
  BY DEF LogInv, LogTyped
<1>2. flusher' = flusher /\ entries' = entries /\ flushed' = flushed /\ head' = head
  BY DEF logger_open, logger_release, ListStep, LinkReader, UnlinkReader, StartRead, Signal,
         ReaderStep, CheckLog, Schedule, RaceLost, warn_overflow, do_read_log_to_user,
         ReadFails, UNCHANGED_log, delivered
<1>3. \A x \in Readers : x # r => reader'[x] = reader[x]
  <2>1. CASE \/ logger_open(r) \/ logger_release(r) \/ ListStep(r)
    BY <1>1, <2>1 DEF logger_open, logger_release, ListStep, LinkReader, UnlinkReader, LogTyped
  <2>2. CASE \/ StartRead(r) \/ Signal(r) \/ ReaderStep(r)
    BY <1>1, <2>2 DEF StartRead, Signal, ReaderStep, CheckLog, Schedule, RaceLost,
           warn_overflow, do_read_log_to_user, ReadFails, LogTyped
  <2> QED
    BY <2>1, <2>2
<1>4. CASE logger_open(r)
  <2>1. reader'[r].pc = "linking" /\ reader'[r].r_off = head
    BY <1>1, <1>4 DEF logger_open, LogTyped
  <2>2. mutex = NoOne /\ mutex' = r /\ readers' = readers
    BY <1>4 DEF logger_open
  <2>3. \A x \in Readers : reader[x].pc # "linking"
    BY <2>2, Tasks DEF ListInv
  <2>4. flusher.pc # "walk"
    BY <2>2, Tasks DEF ListInv
  <2> QED
    BY <1>2, <1>3, <2>1, <2>2, <2>3, <2>4 DEF ListInv, IsOpen
<1>5. CASE logger_release(r)
  <2>1. reader'[r].pc = "unlinking" /\ mutex' = mutex /\ readers' = readers
    BY <1>1, <1>5 DEF logger_release, LogTyped
  <2> QED
    BY <1>2, <1>3, <2>1 DEF ListInv, IsOpen
<1>6. CASE LinkReader(r)
  <2>1. /\ mutex = r /\ mutex' = NoOne /\ reader'[r].pc = "idle"
        /\ readers' = readers \cup {r}
    BY <1>1, <1>6 DEF LinkReader, LogTyped, ListInv
  <2>2. \A x \in Readers : x # r => reader[x].pc # "linking"
    BY <2>1 DEF ListInv
  <2>3. flusher.pc # "walk"
    BY <2>1, Tasks DEF ListInv
  <2> QED
    BY <1>2, <1>3, <2>1, <2>2, <2>3 DEF ListInv, IsOpen
<1>7. CASE UnlinkReader(r)
  <2>1. reader'[r].pc = "closed" /\ mutex' = mutex /\ readers' = readers \ {r}
    BY <1>1, <1>7 DEF UnlinkReader, LogTyped, Closed
  <2> QED
    BY <1>2, <1>3, <2>1 DEF ListInv, IsOpen
<1>8. CASE \/ StartRead(r) \/ Signal(r) \/ ReaderStep(r)
  <2>1. mutex' = mutex /\ readers' = readers
    BY <1>8 DEF StartRead, Signal, ReaderStep, CheckLog, Schedule, RaceLost, warn_overflow,
           do_read_log_to_user, ReadFails, UNCHANGED_log
  <2>2. reader[r].pc \in {"idle", "check", "sched", "take"}
    BY <1>8 DEF StartRead, Signal, ReaderStep, CheckLog, Schedule, RaceLost, warn_overflow,
           do_read_log_to_user, ReadFails
  <2>3. reader'[r].pc \in {"idle", "check", "sched", "take"}
    BY <1>1, <1>8 DEF StartRead, Signal, ReaderStep, CheckLog, Schedule, RaceLost,
           warn_overflow, do_read_log_to_user, ReadFails, LogTyped
  <2> QED
    BY <1>2, <1>3, <2>1, <2>2, <2>3 DEF ListInv, IsOpen
<1> QED
  BY <1>4, <1>5, <1>6, <1>7, <1>8 DEF ListStep

(* The steps of a flush.                                                   *)
LEMMA ListFlushInv ==
    ASSUME LogInv, ListInv, FlushBegin \/ FlushStep
    PROVE  ListInv'
<1>1. LogTyped
  BY DEF LogInv
<1>2. CASE FlushBegin
  <2>1. \A r \in Readers : reader[r].pc # "linking"
    BY <1>2, Tasks DEF ListInv, FlushBegin
  <2>2. /\ flusher'.pc = "walk" /\ mutex' = Flusher /\ flushed' = Len(entries)
        /\ UNCHANGED <<reader, readers, entries>>
    BY <1>2 DEF FlushBegin
  <2> QED
    BY <2>1, <2>2 DEF ListInv, IsOpen
<1>3. CASE FlushStep
  <2>1. flusher.pc = "walk" /\ mutex = Flusher /\ flushed = Len(entries)
    BY <1>3 DEF FlushStep, FlushReader, FlushOops, FlushEnd, ListInv
  <2>2. \A r \in Readers : reader[r].pc # "linking"
    BY <2>1, Tasks DEF ListInv
  <2>3. UNCHANGED <<readers, entries, flushed>>
    BY <1>3 DEF FlushStep, FlushReader, FlushOops, FlushEnd, delivered
  <2>4. \A r \in Readers : reader'[r].pc = reader[r].pc
    <3>1. CASE reader' = reader
      BY <3>1
    <3>2. CASE \E x \in Readers : FlushReader(x)
      BY <1>1, <3>2 DEF FlushReader, LogTyped
    <3> QED
      BY <1>3, <3>1, <3>2 DEF FlushStep, FlushOops, FlushEnd
  <2>5. flusher'.pc = "walk" => mutex' = Flusher
    <3>1. CASE FlushEnd
      BY <3>1 DEF FlushEnd, NotFlushing
    <3>2. CASE ~FlushEnd
      BY <1>3, <2>1, <3>2 DEF FlushStep, FlushReader, FlushOops
    <3> QED
      BY <3>1, <3>2
  <2> QED
    BY <2>1, <2>2, <2>3, <2>4, <2>5 DEF ListInv, IsOpen
<1> QED
  BY <1>2, <1>3

-----------------------------------------------------------------------------
(* Every step keeps the invariant.                                         *)
LEMMA StepInv ==
    ASSUME LogInv, ListInv, LogNext
    PROVE  LogInv' /\ ListInv'
<1>1. ~stale /\ LogStep
  BY DEF LogNext, Broken
<1>2. ASSUME NEW w \in Writers, NEW v \in Iovs, BeginWrite(w, v)
      PROVE  LogInv' /\ ListInv'
  BY <1>1, <1>2, BeginWriteInv, ListWriterInv
<1>3. ASSUME NEW w \in Writers, WriterStep(w)
      PROVE  LogInv' /\ ListInv'
  <2>1. ASSUME LockWrite(w)
        PROVE  LogInv'
    BY <1>1, <2>1, LockWriteInv
  <2>2. ASSUME WriteHeader(w)
        PROVE  LogInv'
    BY <1>1, <2>2, WriteHeaderInv
  <2>3. ASSUME WriteSegment(w)
        PROVE  LogInv'
    BY <1>1, <2>3, WriteSegmentInv
  <2>4. ASSUME FaultSegment(w)
        PROVE  LogInv'
    BY <1>1, <2>4, FaultSegmentInv
  <2>5. ASSUME UnlockWrite(w)
        PROVE  LogInv'
    BY <1>1, <2>5, UnlockWriteInv
  <2>6. ASSUME WakeReaders(w)
        PROVE  LogInv'
    BY <1>1, <2>6, WakeReadersInv
  <2>7. ASSUME Oops(w)
        PROVE  LogInv'
    BY <1>1, <2>7, OopsInv
  <2>8. ASSUME \E r \in Readers : WalkReader(w, r)
        PROVE  LogInv'
    BY <1>1, <2>8, WalkReaderInv
  <2>9. LogInv'
    BY <1>3, <2>1, <2>2, <2>3, <2>4, <2>5, <2>6, <2>7, <2>8 DEF WriterStep
  <2> QED
    BY <1>3, <2>9, ListWriterInv
<1>4. ASSUME NEW r \in Readers,
             \/ logger_open(r) \/ logger_release(r) \/ ListStep(r)
             \/ StartRead(r) \/ Signal(r) \/ ReaderStep(r)
      PROVE  LogInv' /\ ListInv'
  <2>1. ASSUME logger_open(r)
        PROVE  LogInv'
    BY <1>1, <2>1, OpenInv
  <2>2. ASSUME logger_release(r)
        PROVE  LogInv'
    BY <1>1, <2>2, ReleaseInv
  <2>3. ASSUME \/ StartRead(r) \/ CheckLog(r) \/ Schedule(r) \/ RaceLost(r) \/ ReadFails(r)
        PROVE  LogInv'
    BY <1>1, <2>3, ReaderWaitInv
  <2>4. ASSUME Signal(r)
        PROVE  LogInv'
    BY <1>1, <2>4, SignalInv
  <2>5. ASSUME warn_overflow(r)
        PROVE  LogInv'
    BY <1>1, <2>5, WarnInv
  <2>6. ASSUME do_read_log_to_user(r)
        PROVE  LogInv'
    BY <1>1, <2>6, ReadInv
  <2>7. ASSUME LinkReader(r)
        PROVE  LogInv'
    BY <1>1, <2>7, LinkInv
  <2>8. ASSUME UnlinkReader(r)
        PROVE  LogInv'
    BY <1>1, <2>8, UnlinkInv
  <2>9. LogInv'
    BY <1>4, <2>1, <2>2, <2>3, <2>4, <2>5, <2>6, <2>7, <2>8 DEF ReaderStep, ListStep
  <2> QED
    BY <1>4, <2>9, ListReaderInv
<1>5. ASSUME FlushBegin \/ FlushStep
      PROVE  LogInv' /\ ListInv'
  <2>1. LogInv'
    BY <1>1, <1>5, FlushBeginInv, FlushReaderInv, FlushOopsInv, FlushEndInv DEF FlushStep
  <2> QED
    BY <1>5, <2>1, ListFlushInv
<1> QED
  BY <1>1, <1>2, <1>3, <1>4, <1>5 DEF LogStep

(* So does a step that changes nothing.                                    *)
LEMMA StutterInv ==
    ASSUME LogInv, ListInv, UNCHANGED logVars
    PROVE  LogInv' /\ ListInv'
<1>1. LogTyped'
  BY DEF LogInv, LogTyped, logVars
<1>2. WriterTyped'
  BY DEF LogInv, WriterTyped, logVars
<1>3. WriterInv'
  BY DEF LogInv, WriterInv, logVars
<1>4. LogInv'
  <2>1. CASE stale
    BY <1>1, <1>2, <1>3, <2>1 DEF LogInv, logVars
  <2>2. CASE ~stale
    <3>1. Quiet
      BY DEF Quiet, logVars
    <3> QED
      BY <1>1, <1>2, <1>3, <2>2, <3>1, QuietInv
  <2> QED
    BY <2>1, <2>2
<1>5. ListInv'
  BY DEF ListInv, IsOpen, logVars
<1> QED
  BY <1>4, <1>5

(* The inductive invariant holds in every reachable state, for every size  *)
(* of the ring, any writers, readers and segments, and wherever a write    *)
(* faults or a file is closed, until two operations on the list of readers *)
(* overlap.                                                                *)
THEOREM LogInvariant == LogSpec => [](LogInv /\ ListInv)
<1> DEFINE I == LogInv /\ ListInv
<1>1. LogInit => I
  <2>1. LogInit => ListInv
    BY DEF LogInit, ListInv, IsOpen, Closed, NotFlushing
  <2> QED
    BY <2>1, InitInv
<1>2. I /\ [LogNext]_logVars => I'
  BY StepInv, StutterInv
<1> QED
  BY <1>1, <1>2, PTL DEF LogSpec

-----------------------------------------------------------------------------
(* The theorems.                                                           *)

(* LOGGER_GET_LOG_LEN: the bytes behind are the sum of the entries.        *)
LEMMA BehindSum ==
    ASSUME entries \in Seq([off : Offsets, len : 1 .. Size]), NEW c, NEW lo, NEW b,
           Window(c, lo, b), NEW i \in lo .. Len(entries) + 1, NEW k, k = Len(entries) + 1 - i
    PROVE  SumOf([x \in 1 .. k |-> entries[Len(entries) - k + x].len]) = Behind(c, i)
<1> DEFINE n == Len(entries)
           v == [x \in 1 .. k |-> entries[n - k + x].len]
           t == [x \in 0 .. k |-> c[(i - 1) + x] - c[i - 1]]
<1>1. n \in Nat /\ lo \in Nat /\ i \in Nat /\ i >= 1 /\ Sums(c)
  BY BehindFacts DEF Window
<1>2. /\ k \in Nat /\ n - k = i - 1 /\ (i - 1) + k = n /\ i - 1 \in 0 .. n /\ (i - 1) + 0 = i - 1
  BY <1>1
<1>3. PICK a : a = i - 1
  OBVIOUS
<1>4. /\ a \in 0 .. n /\ a \in Nat /\ a + k = n /\ n - k = a
  BY <1>1, <1>2, <1>3
<1>5. ASSUME NEW x \in 1 .. k
      PROVE  /\ a + x \in 1 .. n /\ a + x \in 0 .. n /\ a + (x - 1) \in 0 .. n
             /\ (a + x) - 1 = a + (x - 1) /\ x \in 0 .. k /\ x - 1 \in 0 .. k
             /\ c[a + x] = c[a + (x - 1)] + entries[a + x].len
             /\ entries[a + x].len \in Nat
  <2>1. /\ a + x \in 1 .. n /\ a + x \in 0 .. n /\ a + (x - 1) \in 0 .. n
        /\ (a + x) - 1 = a + (x - 1) /\ x \in 0 .. k /\ x - 1 \in 0 .. k
    BY <1>1, <1>2, <1>4
  <2>2. c[a + x] = c[(a + x) - 1] + entries[a + x].len
    BY <1>1, <2>1 DEF Sums
  <2> DEFINE y == a + x
  <2>3. y \in 1 .. n
    BY <2>1
  <2> HIDE DEF y
  <2>4. entries[y] \in [off : Offsets, len : 1 .. Size]
    BY <2>3, ElementOfSeq
  <2>5. entries[y].len \in Nat
    BY <2>4, SizeFacts
  <2> QED
    BY <2>1, <2>2, <2>5 DEF y
<1>6. v = [x \in 1 .. k |-> entries[a + x].len]
  BY <1>4
<1>7. v \in Seq(Nat) /\ Len(v) = k
  <2> DEFINE u == [x \in 1 .. k |-> entries[a + x].len]
  <2>1. u \in [1 .. k -> Nat]
    BY <1>5
  <2> HIDE DEF u
  <2>2. u \in Seq(Nat) /\ Len(u) = k
    <3>1. u \in Seq(Nat)
      BY <1>2, <2>1, SeqDef
    <3>2. Len(u) \in Nat /\ DOMAIN u = 1 .. Len(u) /\ DOMAIN u = 1 .. k
      BY <2>1, <3>1, LenProperties
    <3> DEFINE x == Len(u)
    <3>3. x \in Nat /\ 1 .. x = 1 .. k
      BY <3>2
    <3> HIDE DEF x
    <3>4. \A y \in Nat : (y \in 1 .. x) <=> (y \in 1 .. k)
      BY <3>3
    <3>5. x = k
      BY <1>2, <3>3, <3>4
    <3> QED
      BY <3>1, <3>5 DEF x
  <2> QED
    BY <1>6, <2>2 DEF u
<1>8. t = [x \in 0 .. k |-> c[a + x] - c[a]]
  BY <1>3
<1>9. ASSUME NEW x \in 0 .. k
      PROVE  c[a + x] \in Nat /\ c[a] \in Nat /\ c[a] <= c[a + x] /\ c[a + x] - c[a] \in Nat
  <2>1. a + x \in 0 .. n /\ a \in 0 .. n
    BY <1>1, <1>2, <1>4
  <2>2. c[a + x] \in Nat /\ c[a] \in Nat
    BY <1>1, <2>1 DEF Sums
  <2>3. c[a] <= c[a + x]
    <3>1. CASE x = 0
      <4>1. a + x = a
        BY <1>4, <3>1
      <4> QED
        BY <2>2, <4>1
    <3>2. CASE x # 0
      <4>1. a < a + x
        BY <1>4, <3>2
      <4>2. c[a] < c[a + x]
        BY <1>1, <2>1, <4>1 DEF Sums
      <4> QED
        BY <2>2, <4>2
    <3> QED
      BY <3>1, <3>2
  <2> QED
    BY <2>2, <2>3
<1> HIDE DEF v, t
<1>10. Adds(t, v, k)
  <2>1. t \in [0 .. k -> Nat]
    BY <1>8, <1>9
  <2>2. t[0] = 0
    <3>1. 0 \in 0 .. k /\ a + 0 = a
      BY <1>2, <1>4
    <3>2. t[0] = c[a] - c[a] /\ c[a] \in Nat
      BY <1>8, <1>9, <3>1
    <3> QED
      BY <3>2
  <2>3. ASSUME NEW x \in 1 .. k
        PROVE  t[x] = v[x] + t[x - 1]
    <3> DEFINE p == c[a + x]
               q == c[a + (x - 1)]
               e == entries[a + x].len
               o == c[a]
    <3>1. x \in 0 .. k /\ x - 1 \in 0 .. k
      BY <1>5
    <3>2. t[x] = p - o /\ t[x - 1] = q - o
      BY <1>8, <3>1
    <3>3. v[x] = e
      BY <1>6
    <3>4. p = q + e /\ e \in Nat /\ q \in Nat /\ o \in Nat
      BY <1>5, <1>9, <3>1
    <3> HIDE DEF p, q, e, o
    <3>5. p - o = e + (q - o)
      BY <3>4
    <3> QED
      BY <3>2, <3>3, <3>5
  <2> QED
    BY <2>1, <2>2, <2>3 DEF Adds
<1>11. SumOf(v) = t[k]
  BY <1>2, <1>7, <1>10, SumOfResult
<1>12. t[k] = c[n] - c[i - 1]
  <2>1. k \in 0 .. k
    BY <1>2
  <2> QED
    BY <1>3, <1>4, <1>8, <2>1
<1> QED
  BY <1>11, <1>12 DEF v, Behind

(* An offset that stands in the window sees whole entries up to the end.   *)
LEMMA StandsHolds ==
    ASSUME LogTyped, NEW c, NEW lo, Window(c, lo, w_off), NEW off, Stands(off, c, lo, w_off, 0)
    PROVE  \E k \in 0 .. Len(entries) : Holds(off, k) /\ (k = 0 => off = w_off)
<1> DEFINE n == Len(entries)
<1>1. /\ entries \in Seq([off : Offsets, len : 1 .. Size]) /\ w_off \in Offsets
  BY DEF LogTyped
<1>2. PICK i \in lo .. n + 1 : off = Back(w_off, Behind(c, i)) /\ Behind(c, i) + 0 < Size
  BY DEF Stands
<1>3. /\ n \in Nat /\ lo \in Nat /\ i \in Nat /\ i >= 1 /\ lo >= 1
      /\ Behind(c, i) \in Nat /\ Behind(c, i) < Size
      /\ Back(w_off, Behind(c, n + 1)) = w_off
  <2>1. lo \in 1 .. n + 1
    BY DEF Window
  <2> QED
    BY <1>1, <1>2, <2>1, BehindFacts
<1>4. PICK k : k = n + 1 - i
  OBVIOUS
<1>5. k \in 0 .. n /\ n - k + 1 = i /\ (k = 0 => i = n + 1) /\ (k # 0 => i \in lo .. n)
  BY <1>2, <1>3, <1>4
<1>6. off = IF k = 0 THEN w_off ELSE entries[n - k + 1].off
  <2>1. CASE k = 0
    BY <1>2, <1>3, <1>5, <2>1
  <2>2. CASE k # 0
    BY <1>2, <1>5, <2>2 DEF Window
  <2> QED
    BY <2>1, <2>2
<1>7. get_log_len(off) = SumOf([x \in 1 .. k |-> entries[n - k + x].len])
  <2> DEFINE d == Behind(c, i)
  <2>1. SumOf([x \in 1 .. k |-> entries[n - k + x].len]) = d
    BY <1>1, <1>2, <1>4, BehindSum
  <2>2. d \in Nat /\ d < Size /\ off = Back(w_off, d)
    BY <1>2, <1>3
  <2> HIDE DEF d
  <2>3. get_log_len(Back(w_off, d)) = d
    BY <1>1, <2>2, LogLen
  <2> QED
    BY <2>1, <2>2, <2>3
<1>8. ASSUME NEW x \in i .. n
      PROVE  /\ entries[x].off # w_off /\ Whole(x)
             /\ logger_offset(entries[x].off + entries[x].len)
                   = IF x = n THEN w_off ELSE entries[x + 1].off
  <2>1. x \in lo .. n /\ x \in lo .. n + 1 /\ x <= n
    BY <1>2, <1>3
  <2>2. entries[x].off = Back(w_off, Behind(c, x)) /\ Whole(x)
    BY <2>1 DEF Window
  <2>3. /\ Back(w_off, Behind(c, x)) # w_off
        /\ logger_offset(Back(w_off, Behind(c, x)) + entries[x].len)
              = Back(w_off, Behind(c, x + 1))
    BY <1>1, <2>1, BehindFacts
  <2>4. Back(w_off, Behind(c, x + 1)) = IF x = n THEN w_off ELSE entries[x + 1].off
    <3>1. CASE x = n
      BY <1>3, <3>1
    <3>2. CASE x # n
      <4>1. x + 1 \in lo .. n
        BY <1>3, <2>1, <3>2
      <4> QED
        BY <3>2, <4>1 DEF Window
    <3> QED
      BY <3>1, <3>2
  <2> QED
    BY <2>2, <2>3, <2>4
<1>9. Holds(off, k)
  <2>1. \A x \in (n - k + 1) .. n : x \in i .. n
    BY <1>5
  <2> QED
    BY <1>6, <1>7, <1>8, <2>1, Zenon DEF Holds, Whole
<1> QED
  BY <1>3, <1>5, <1>6, <1>9

(* The invariant implies type correctness and the claim about the log.     *)
LEMMA InvImpliesIntact ==
    ASSUME LogInv, ListInv
    PROVE  IntactUnlessBroken
<1>1. LogTyped /\ WriterTyped
  BY DEF LogInv
<1>2. LogTypeOK
  <2>1. ASSUME NEW w \in Writers
        PROVE  /\ writer[w].pc \in WriterPC
               /\ writer[w].orig \in Offsets /\ writer[w].from \in Offsets
               /\ writer[w].iov \in Seq(Nat)
               /\ writer[w].len \in 0 .. MaxPayload /\ writer[w].ret \in 0 .. writer[w].len
               /\ writer[w].at \in Readers \cup {NoOne}
               /\ writer[w].todo \subseteq Readers
    <3>1. /\ writer[w].pc \in WriterPC
          /\ writer[w].orig \in Offsets /\ writer[w].from \in Offsets
          /\ writer[w].iov \in Seq(Nat)
          /\ writer[w].len \in 0 .. MaxPayload /\ writer[w].ret \in Nat
          /\ writer[w].at \in Readers \cup {NoOne}
          /\ writer[w].todo \subseteq Readers
      BY <1>1 DEF WriterTyped, WriterRecord
    <3>2. writer[w].ret \in 0 .. writer[w].len
      BY <1>1, NeedFacts
    <3> QED
      BY <3>1, <3>2
  <2>2. DOMAIN writer = Writers
    BY <1>1 DEF WriterTyped
  <2> QED
    BY <1>1, <2>1, <2>2 DEF LogTyped, LogTypeOK, FlusherRecord
<1>3. ASSUME ~stale, mutex = NoOne
      PROVE  /\ Readable(head, flushed)
             /\ \A r \in readers :
                   Readable(reader[r].r_off, IF got[r] > flushed THEN got[r] ELSE flushed)
  <2>0. mutex \notin Writers
    BY <1>3, Tasks
  <2>1. PICK c, lo : FreeAt(c, lo)
    BY <1>3, <2>0 DEF LogInv, RingInv
  <2>2. SeenInv /\ Len(entries) \in Nat
    BY <1>1, <1>3, LenProperties DEF LogInv, LogTyped
  <2>3. ASSUME NEW off, NEW seen, Stands(off, c, lo, w_off, 0),
               off = w_off => Len(entries) <= seen \/ faulted
        PROVE  Readable(off, seen)
    <3>1. PICK k \in 0 .. Len(entries) : Holds(off, k) /\ (k = 0 => off = w_off)
      BY <1>1, <2>1, <2>3, StandsHolds DEF FreeAt
    <3> QED
      BY <2>3, <3>1 DEF Readable
  <2>4. Readable(head, flushed)
    BY <2>0, <2>1, <2>2, <2>3 DEF FreeAt, SeenInv
  <2>5. ASSUME NEW r \in readers
        PROVE  Readable(reader[r].r_off, IF got[r] > flushed THEN got[r] ELSE flushed)
    <3> DEFINE s == IF got[r] > flushed THEN got[r] ELSE flushed
               o == reader[r].r_off
    <3>1. got[r] \in Nat /\ flushed \in Nat
      BY <1>1 DEF LogTyped
    <3>2. s \in Nat /\ s >= got[r] /\ s >= flushed
      BY <3>1
    <3>3. Stands(o, c, lo, w_off, 0)
      BY <2>1 DEF FreeAt
    <3>4. o = w_off => Len(entries) <= got[r] \/ Len(entries) <= flushed \/ faulted
      BY <2>0, <2>2 DEF SeenInv
    <3> HIDE DEF s, o
    <3>5. o = w_off => Len(entries) <= s \/ faulted
      BY <2>2, <3>1, <3>2, <3>4
    <3>6. Readable(o, s)
      BY <2>3, <3>3, <3>5
    <3> QED
      BY <3>6 DEF o, s
  <2> QED
    BY <2>4, <2>5
<1>4. ~stale => UnreadIntact
  BY <1>3 DEF UnreadIntact, ListInv
<1> QED
  BY <1>2, <1>4 DEF IntactUnlessBroken, Broken

(* Whenever the mutex is free, the head and every open reader stand at the *)
(* start of a whole entry, from which the buffer parses into the most      *)
(* recent writes, in order, up to w_off, and LOGGER_GET_LOG_LEN is the sum *)
(* of their lengths; or they stand at w_off because all has been read or   *)
(* flushed, or pushed past by a write that faulted.  This holds until a    *)
(* fault restores a stale w_off, or the unlocked list_del of a file that   *)
(* is closed overlaps with another operation on the list of readers.       *)
THEOREM LogIntact == LogSpec => []IntactUnlessBroken
<1>1. LogInv /\ ListInv => IntactUnlessBroken
  BY InvImpliesIntact
<1> QED
  BY <1>1, LogInvariant, PTL

=============================================================================
