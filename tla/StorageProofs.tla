---------------------------- MODULE StorageProofs ----------------------------
(***************************************************************************)
(* The storage under the runtimes keeps its books for any sizes.           *)
(*                                                                         *)
(* The cell pool: a slot that is neither live nor retired waits in exactly *)
(* one place, under the generation it has now, and an allocation fails     *)
(* only when everything it could have found was taken.                     *)
(*                                                                         *)
(* The edge arena: no record of the shared free list is lost or handed out *)
(* twice, and the two lists of every row hold the same edges.              *)
(*                                                                         *)
(* The root bag: every probe ends, and the table holds every root with its *)
(* exact count, however it fills with tombstones and grows.                *)
(*                                                                         *)
(* The components: every list holds exactly the slots labelled with its    *)
(* component, and no edge leaves a component.                              *)
(*                                                                         *)
(* The VM's heap: live objects never share a cell, whatever the order of   *)
(* allocations and frees.                                                  *)
(***************************************************************************)
EXTENDS CellPool, EdgeArena, RootBag, Components, HeapStore, TLAPS, SequenceTheorems, FiniteSetTheorems

-----------------------------------------------------------------------------
(* Lists without repetition *)

Once(s) == \A i, j \in 1..Len(s) : s[i] = s[j] => i = j

\* Every set of numbers has a least one.
LEMMA LeastNumber ==
  ASSUME NEW S \in SUBSET Nat, S # {}
  PROVE  \E n \in S : \A k \in S : n <= k
  <1> DEFINE R == {ss \in Nat \X Nat : ss[1] < ss[2]}
  <1>1. IsWellFoundedOn(R, Nat)
    BY NatLessThanWellFounded DEF OpToRel
  <1>2. PICK n \in S : \A k \in S : ~(<<k, n>> \in R)
    <2> HIDE DEF R
    <2> QED
      BY <1>1, WFMin
  <1>3. \A k \in S : ~(k < n)
    BY <1>2
  <1> QED
    BY <1>3

\* The members of a sequence.
LEMMA RangeIs ==
  ASSUME NEW T, NEW s \in Seq(T)
  PROVE  \A x : x \in Range(s) <=> \E i \in 1..Len(s) : s[i] = x
  BY RangeEquality

\* The two parts of a sequence.
LEMMA CutShape ==
  ASSUME NEW T, NEW s \in Seq(T), NEW m \in 0..Len(s)
  PROVE  /\ SubSeq(s, 1, m) \in Seq(T) /\ SubSeq(s, m + 1, Len(s)) \in Seq(T)
         /\ Len(SubSeq(s, 1, m)) = m /\ Len(SubSeq(s, m + 1, Len(s))) = Len(s) - m
         /\ \A i \in 1..m : SubSeq(s, 1, m)[i] = s[i]
         /\ \A i \in 1..(Len(s) - m) : SubSeq(s, m + 1, Len(s))[i] = s[m + i]
  <1> DEFINE n == Len(s)
             a == SubSeq(s, 1, m)
             b == SubSeq(s, m + 1, n)
  <1>1. n \in Nat /\ \A i \in 1..n : s[i] \in T
    BY LenProperties, ElementOfSeq
  <1>2. a \in Seq(T) /\ Len(a) = m /\ \A i \in 1..m : a[i] = s[i]
    <2> HIDE DEF n
    <2>1. m \in Nat /\ m <= n /\ \A i \in 1..m : i \in 1..n
      BY <1>1 DEF n
    <2>2. \A i \in 1..m : s[i] \in T
      BY <1>1, <2>1
    <2>3. /\ SubSeq(s, 1, m) \in Seq(T) /\ Len(SubSeq(s, 1, m)) = IF 1 <= m THEN m - 1 + 1 ELSE 0
          /\ \A i \in 1..(m - 1 + 1) : SubSeq(s, 1, m)[i] = s[1 + i - 1]
      BY <2>1, <2>2, SubSeqProperties
    <2> HIDE DEF a
    <2>4. Len(a) = IF 1 <= m THEN m - 1 + 1 ELSE 0
      BY <2>3 DEF a
    <2>5. m - 1 + 1 = m /\ (~(1 <= m) => m = 0) /\ \A i \in 1..m : 1 + i - 1 = i
      BY <2>1
    <2> QED
      BY <2>3, <2>4, <2>5 DEF a
  <1>3. b \in Seq(T) /\ Len(b) = n - m /\ \A i \in 1..(n - m) : b[i] = s[m + i]
    <2> HIDE DEF n
    <2>1. /\ m \in Nat /\ m <= n /\ m + 1 \in Int /\ n \in Int
          /\ \A i \in (m + 1)..n : i \in 1..n
      BY <1>1 DEF n
    <2>2. \A i \in (m + 1)..n : s[i] \in T
      BY <1>1, <2>1
    <2>3. /\ SubSeq(s, m + 1, n) \in Seq(T)
          /\ Len(SubSeq(s, m + 1, n)) = IF m + 1 <= n THEN n - (m + 1) + 1 ELSE 0
          /\ \A i \in 1..(n - (m + 1) + 1) : SubSeq(s, m + 1, n)[i] = s[(m + 1) + i - 1]
      BY <2>1, <2>2, SubSeqProperties
    <2>5. /\ n - (m + 1) + 1 = n - m /\ (~(m + 1 <= n) => n - m = 0)
          /\ \A i \in 1..(n - m) : (m + 1) + i - 1 = m + i
      BY <2>1
    <2> HIDE DEF b
    <2>4. Len(b) = IF m + 1 <= n THEN n - (m + 1) + 1 ELSE 0
      BY <2>3 DEF b
    <2> QED
      BY <2>3, <2>4, <2>5 DEF b
  <1> QED
    BY <1>2, <1>3

\* Cutting a list in two: nothing is lost or doubled.
LEMMA CutList ==
  ASSUME NEW T, NEW s \in Seq(T), Once(s), NEW m \in 0..Len(s)
  PROVE  /\ Once(SubSeq(s, 1, m)) /\ Once(SubSeq(s, m + 1, Len(s)))
         /\ Range(SubSeq(s, m + 1, Len(s))) = Range(s) \ Range(SubSeq(s, 1, m))
         /\ Range(SubSeq(s, 1, m)) = Range(s) \ Range(SubSeq(s, m + 1, Len(s)))
  <1> DEFINE n == Len(s)
             a == SubSeq(s, 1, m)
             b == SubSeq(s, m + 1, n)
  <1>1. n \in Nat
    BY LenProperties
  <1>2. a \in Seq(T) /\ Len(a) = m /\ \A i \in 1..m : a[i] = s[i]
    BY CutShape
  <1>3. b \in Seq(T) /\ Len(b) = n - m /\ \A i \in 1..(n - m) : b[i] = s[m + i]
    BY CutShape
  <1> HIDE DEF a, b, n
  <1>4. /\ \A i \in 1..m : i \in 1..n
        /\ \A i \in 1..(n - m) : m + i \in 1..n /\ m + i \notin 1..m
        /\ \A i \in 1..n : i \in 1..m \/ (i - m \in 1..(n - m) /\ m + (i - m) = i)
        /\ \A i, j \in 1..(n - m) : m + i = m + j => i = j
    BY <1>1 DEF n
  <1>5. \A i, j \in 1..n : s[i] = s[j] => i = j
    BY DEF Once, n
  <1>6. Once(a) /\ Once(b)
    <2>1. Once(a)
      BY <1>2, <1>4, <1>5 DEF Once
    <2>2. ASSUME NEW i \in 1..(n - m), NEW j \in 1..(n - m), b[i] = b[j] PROVE i = j
      <3>1. m + i \in 1..n /\ m + j \in 1..n /\ s[m + i] = s[m + j]
        BY <1>3, <1>4, <2>2
      <3>2. m + i = m + j
        BY <1>5, <3>1
      <3> QED
        BY <1>4, <3>2
    <2>3. Once(b)
      BY <1>3, <2>2 DEF Once
    <2> QED
      BY <2>1, <2>3
  <1>7. /\ \A x : x \in Range(s) <=> \E i \in 1..n : s[i] = x
        /\ \A x : x \in Range(a) <=> \E i \in 1..m : a[i] = x
        /\ \A x : x \in Range(b) <=> \E i \in 1..(n - m) : b[i] = x
    <2>1. \A x : x \in Range(s) <=> \E i \in 1..n : s[i] = x
      BY RangeIs DEF n
    <2>2. \A x : x \in Range(a) <=> \E i \in 1..Len(a) : a[i] = x
      BY <1>2, RangeIs
    <2>3. \A x : x \in Range(b) <=> \E i \in 1..Len(b) : b[i] = x
      BY <1>3, RangeIs
    <2> QED
      BY <1>2, <1>3, <2>1, <2>2, <2>3
  <1>8. \A x : x \in Range(a) => x \in Range(s) /\ x \notin Range(b)
    <2> SUFFICES ASSUME NEW x \in Range(a) PROVE x \in Range(s) /\ x \notin Range(b)
      OBVIOUS
    <2>1. PICK i \in 1..m : a[i] = x
      BY <1>7
    <2>2. i \in 1..n /\ s[i] = x
      BY <1>2, <1>4, <2>1
    <2>3. ASSUME NEW j \in 1..(n - m), b[j] = x PROVE FALSE
      <3>1. s[m + j] = x /\ m + j \in 1..n /\ m + j \notin 1..m
        BY <1>3, <1>4, <2>3
      <3> QED
        BY <1>5, <2>2, <3>1
    <2> QED
      BY <1>7, <2>2, <2>3
  <1>9. \A x : x \in Range(b) => x \in Range(s)
    BY <1>3, <1>4, <1>7
  <1>10. \A x : x \in Range(s) => x \in Range(a) \/ x \in Range(b)
    BY <1>2, <1>3, <1>4, <1>7
  <1>11. Range(b) = Range(s) \ Range(a) /\ Range(a) = Range(s) \ Range(b)
    BY <1>8, <1>9, <1>10
  <1> QED
    BY <1>6, <1>11 DEF a, b, n

\* Joining two lists that have nothing in common.
LEMMA JoinList ==
  ASSUME NEW T, NEW s \in Seq(T), NEW t \in Seq(T), Once(s), Once(t), Range(s) \cap Range(t) = {}
  PROVE  s \o t \in Seq(T) /\ Once(s \o t) /\ Range(s \o t) = Range(s) \cup Range(t)
  <1> DEFINE n == Len(s)
             m == Len(t)
             u == s \o t
  <1>1. n \in Nat /\ m \in Nat
    BY LenProperties
  <1>2. /\ u \in Seq(T) /\ Len(u) = n + m
        /\ \A i \in 1..(n + m) : u[i] = IF i <= n THEN s[i] ELSE t[i - n]
    BY ConcatProperties
  <1>3. Range(u) = Range(s) \cup Range(t)
    BY RangeConcatenation
  <1>4. /\ \A x : x \in Range(s) <=> \E i \in 1..n : s[i] = x
        /\ \A x : x \in Range(t) <=> \E i \in 1..m : t[i] = x
    BY RangeIs
  <1>5. \A i, j \in 1..n : s[i] = s[j] => i = j
    BY DEF Once
  <1>6. \A i, j \in 1..m : t[i] = t[j] => i = j
    BY DEF Once
  <1> HIDE DEF n, m, u
  <1>7. ASSUME NEW i \in 1..(n + m), NEW j \in 1..(n + m), u[i] = u[j], i <= n PROVE i = j
    <2>1. i \in 1..n /\ u[i] = s[i]
      BY <1>1, <1>2, <1>7
    <2>2. CASE j <= n
      <3>1. j \in 1..n /\ u[j] = s[j]
        BY <1>1, <1>2, <2>2
      <3> QED
        BY <1>5, <1>7, <2>1, <3>1
    <2>3. CASE ~(j <= n)
      <3>1. j - n \in 1..m /\ u[j] = t[j - n]
        BY <1>1, <1>2, <2>3
      <3>2. s[i] \in Range(s) /\ s[i] \in Range(t)
        BY <1>4, <1>7, <2>1, <3>1
      <3> QED
        BY <3>2
    <2> QED
      BY <2>2, <2>3
  <1>8. ASSUME NEW i \in 1..(n + m), NEW j \in 1..(n + m), u[i] = u[j], ~(i <= n), ~(j <= n)
        PROVE  i = j
    <2>1. i - n \in 1..m /\ u[i] = t[i - n] /\ j - n \in 1..m /\ u[j] = t[j - n]
      BY <1>1, <1>2, <1>8
    <2>2. i - n = j - n
      BY <1>6, <1>8, <2>1
    <2> QED
      BY <1>1, <2>2
  <1>9. Once(u)
    <2> SUFFICES ASSUME NEW i \in 1..(n + m), NEW j \in 1..(n + m), u[i] = u[j] PROVE i = j
      BY <1>2 DEF Once
    <2>1. CASE i <= n
      BY <1>7, <2>1
    <2>2. CASE j <= n
      BY <1>7, <2>2
    <2>3. CASE ~(i <= n) /\ ~(j <= n)
      BY <1>8, <2>3
    <2> QED
      BY <2>1, <2>2, <2>3
  <1> QED
    BY <1>2, <1>3, <1>9 DEF u

\* A list of one.
LEMMA OneList ==
  ASSUME NEW T, NEW x \in T
  PROVE  <<x>> \in Seq(T) /\ Once(<<x>>) /\ Range(<<x>>) = {x}
  <1>1. <<x>> \in Seq(T) /\ Len(<<x>>) = 1 /\ <<x>>[1] = x
    OBVIOUS
  <1>2. 1..1 = {1}
    OBVIOUS
  <1>3. Once(<<x>>)
    BY <1>1, <1>2 DEF Once
  <1>4. \A y : y \in Range(<<x>>) <=> y = x
    <2>1. \A y : y \in Range(<<x>>) <=> \E i \in 1..Len(<<x>>) : <<x>>[i] = y
      BY <1>1, RangeIs
    <2> QED
      BY <1>1, <1>2, <2>1
  <1> QED
    BY <1>1, <1>3, <1>4

-----------------------------------------------------------------------------
(* The slots of a list of handles *)

PoolHandles == [index : Slots, gen : 0..LastGen]

\* The slots are the handles' indexes, in the same order.
LEMMA IndicesShape ==
  ASSUME NEW s \in Seq(PoolHandles)
  PROVE  /\ Indices(s) \in Seq(Slots) /\ Len(Indices(s)) = Len(s) /\ Len(s) \in Nat
         /\ \A k \in 1..Len(s) : Indices(s)[k] = s[k].index /\ s[k] \in PoolHandles
  <1>1. Len(s) \in Nat /\ \A k \in 1..Len(s) : s[k] \in PoolHandles
    BY LenProperties, ElementOfSeq
  <1>2. \A k \in 1..Len(s) : s[k].index \in Slots
    BY <1>1 DEF PoolHandles
  <1> DEFINE n == Len(s)
             t == [k \in 1..n |-> s[k].index]
  <1>3. t \in [1..n -> Slots]
    BY <1>2
  <1>4. Indices(s) = t
    BY DEF Indices
  <1>5. n \in Nat
    BY <1>1
  <1> HIDE DEF n
  <1>6. t \in Seq(Slots) /\ Len(t) = n /\ \A k \in 1..n : t[k] = s[k].index
    <2>1. \A k \in 1..n : t[k] = s[k].index
      OBVIOUS
    <2> HIDE DEF t
    <2> QED
      BY <1>3, <1>5, <2>1
  <1> QED
    BY <1>1, <1>4, <1>6 DEF n

\* Cutting the handles cuts the slots.
LEMMA IndicesCut ==
  ASSUME NEW s \in Seq(PoolHandles), NEW m \in 0..Len(s)
  PROVE  /\ Indices(SubSeq(s, 1, m)) = SubSeq(Indices(s), 1, m)
         /\ Indices(SubSeq(s, m + 1, Len(s))) = SubSeq(Indices(s), m + 1, Len(Indices(s)))
  <1> DEFINE n == Len(s)
             x == Indices(s)
             a == SubSeq(s, 1, m)
             b == SubSeq(s, m + 1, n)
             c == SubSeq(x, 1, m)
             d == SubSeq(x, m + 1, Len(x))
  <1>1. x \in Seq(Slots) /\ Len(x) = n /\ n \in Nat /\ \A k \in 1..n : x[k] = s[k].index
    BY IndicesShape
  <1>2. /\ a \in Seq(PoolHandles) /\ Len(a) = m /\ \A i \in 1..m : a[i] = s[i]
        /\ b \in Seq(PoolHandles) /\ Len(b) = n - m /\ \A i \in 1..(n - m) : b[i] = s[m + i]
    BY CutShape
  <1>3. m \in 0..Len(x)
    BY <1>1
  <1> HIDE DEF x
  <1>4. /\ c \in Seq(Slots) /\ Len(c) = m /\ \A i \in 1..m : c[i] = x[i]
        /\ d \in Seq(Slots) /\ Len(d) = n - m /\ \A i \in 1..(n - m) : d[i] = x[m + i]
    <2> HIDE DEF n
    <2>1. /\ c \in Seq(Slots) /\ Len(c) = m /\ \A i \in 1..m : c[i] = x[i]
          /\ d \in Seq(Slots) /\ Len(d) = Len(x) - m /\ \A i \in 1..(Len(x) - m) : d[i] = x[m + i]
      BY <1>1, <1>3, CutShape
    <2> QED
      BY <1>1, <2>1
  <1>5. /\ \A i \in 1..m : i \in 1..n
        /\ \A i \in 1..(n - m) : m + i \in 1..n
    <2> HIDE DEF n
    <2>1. m \in 0..n
      BY DEF n
    <2> QED
      BY <1>1, <2>1
  <1> HIDE DEF a, b, c, d, n
  <1>6. /\ Indices(a) \in Seq(Slots) /\ Len(Indices(a)) = m /\ \A k \in 1..m : Indices(a)[k] = a[k].index
    BY <1>2, IndicesShape
  <1>7. /\ Indices(b) \in Seq(Slots) /\ Len(Indices(b)) = n - m
        /\ \A k \in 1..(n - m) : Indices(b)[k] = b[k].index
    BY <1>2, IndicesShape
  <1>8. ASSUME NEW k \in 1..m PROVE Indices(a)[k] = c[k]
    <2>1. Indices(a)[k] = a[k].index /\ a[k] = s[k] /\ c[k] = x[k]
      BY <1>2, <1>4, <1>6
    <2>2. x[k] = s[k].index
      BY <1>1, <1>5
    <2> QED
      BY <2>1, <2>2
  <1>9. ASSUME NEW k \in 1..(n - m) PROVE Indices(b)[k] = d[k]
    <2>1. Indices(b)[k] = b[k].index /\ b[k] = s[m + k] /\ d[k] = x[m + k]
      BY <1>2, <1>4, <1>7
    <2>2. m + k \in 1..n
      BY <1>5
    <2>3. x[m + k] = s[m + k].index
      BY <1>1, <2>2
    <2> QED
      BY <2>1, <2>3
  <1>10. Indices(a) = c
    BY <1>4, <1>6, <1>8, SeqEqual
  <1>11. Indices(b) = d
    BY <1>4, <1>7, <1>9, SeqEqual
  <1> QED
    BY <1>10, <1>11 DEF a, b, c, d, n, x

\* Joining the handles joins the slots.
LEMMA IndicesJoin ==
  ASSUME NEW s \in Seq(PoolHandles), NEW t \in Seq(PoolHandles)
  PROVE  Indices(s \o t) = Indices(s) \o Indices(t)
  <1> DEFINE n == Len(s)
             m == Len(t)
             u == s \o t
             x == Indices(s)
             y == Indices(t)
             v == x \o y
             w == Indices(u)
  <1>1. /\ x \in Seq(Slots) /\ Len(x) = n /\ n \in Nat /\ \A k \in 1..n : x[k] = s[k].index
        /\ y \in Seq(Slots) /\ Len(y) = m /\ m \in Nat /\ \A k \in 1..m : y[k] = t[k].index
    BY IndicesShape
  <1>2. /\ u \in Seq(PoolHandles) /\ Len(u) = n + m
        /\ \A i \in 1..(n + m) : u[i] = IF i <= n THEN s[i] ELSE t[i - n]
    BY ConcatProperties
  <1>3. /\ v \in Seq(Slots) /\ Len(v) = n + m
        /\ \A i \in 1..(n + m) : v[i] = IF i <= n THEN x[i] ELSE y[i - n]
    <2> HIDE DEF x, y, n, m
    <2>1. /\ v \in Seq(Slots) /\ Len(v) = Len(x) + Len(y)
          /\ \A i \in 1..(Len(x) + Len(y)) : v[i] = IF i <= Len(x) THEN x[i] ELSE y[i - Len(x)]
      BY <1>1, ConcatProperties
    <2> QED
      BY <1>1, <2>1
  <1>4. w \in Seq(Slots) /\ Len(w) = n + m /\ \A i \in 1..(n + m) : w[i] = u[i].index
    <2> HIDE DEF u
    <2> QED
      BY <1>2, IndicesShape
  <1> HIDE DEF n, m, u, x, y, v, w
  <1>5. ASSUME NEW i \in 1..(n + m) PROVE w[i] = v[i]
    <2>1. CASE i <= n
      <3>1. i \in 1..n
        BY <1>1, <2>1
      <3>2. w[i] = u[i].index
        BY <1>4
      <3>3. u[i] = s[i]
        BY <1>2, <2>1
      <3>4. v[i] = x[i]
        BY <1>3, <2>1
      <3>5. x[i] = s[i].index
        BY <1>1, <3>1
      <3> QED
        BY <3>2, <3>3, <3>4, <3>5
    <2>2. CASE ~(i <= n)
      <3>1. i - n \in 1..m
        BY <1>1, <2>2
      <3>2. w[i] = u[i].index
        BY <1>4
      <3>3. u[i] = t[i - n]
        BY <1>2, <2>2
      <3>4. v[i] = y[i - n]
        BY <1>3, <2>2
      <3>5. y[i - n] = t[i - n].index
        BY <1>1, <3>1
      <3> QED
        BY <3>2, <3>3, <3>4, <3>5
    <2> QED
      BY <2>1, <2>2
  <1>6. w = v
    BY <1>3, <1>4, <1>5, SeqEqual
  <1> QED
    BY <1>6 DEF u, v, w, x, y

-----------------------------------------------------------------------------
(* The shards *)

\* Quotient and remainder.
LEMMA Division ==
  ASSUME NEW x \in Nat, NEW n \in Nat \ {0}
  PROVE  /\ x \div n \in Nat /\ x % n \in 0..(n - 1)
         /\ x = n * (x \div n) + (x % n)
  OBVIOUS

\* The shards together are as large as the pool.
LEMMA ShardSize ==
  PerShard \in Nat \ {0} /\ NShards * PerShard >= Capacity
  <1> DEFINE x == Capacity + NShards - 1
             q == x \div NShards
             r == x % NShards
  <1>1. Capacity \in Nat \ {0} /\ NShards \in Nat \ {0}
    BY PoolAssumption
  <1>2. x \in Nat
    BY <1>1
  <1>3. q \in Nat /\ r \in 0..(NShards - 1) /\ x = NShards * q + r
    <2> HIDE DEF x
    <2> QED
      BY <1>1, <1>2, Division
  <1> HIDE DEF q, r
  <1>4. NShards * q >= Capacity
    <2> DEFINE y == NShards * q
    <2>1. y \in Nat /\ x = y + r
      BY <1>1, <1>3
    <2> HIDE DEF y
    <2>2. y >= Capacity
      BY <1>1, <1>3, <2>1
    <2> QED
      BY <2>2 DEF y
  <1>5. q # 0
    BY <1>1, <1>4
  <1> QED
    BY <1>3, <1>4, <1>5 DEF PerShard, q, x

\* Every slot has a shard.
LEMMA ShardExists ==
  ASSUME NEW i \in Slots
  PROVE  /\ ShardOf(i) \in Shards /\ First(ShardOf(i)) \in Nat
         /\ i - First(ShardOf(i)) \in 0..(PerShard - 1)
  <1> DEFINE q == i \div PerShard
             r == i % PerShard
             p == PerShard
  <1>1. Capacity \in Nat \ {0} /\ NShards \in Nat \ {0} /\ i \in Nat /\ i < Capacity
    BY PoolAssumption DEF Slots
  <1>2. p \in Nat \ {0} /\ NShards * p >= Capacity
    BY ShardSize
  <1>3. q \in Nat /\ r \in 0..(p - 1) /\ i = p * q + r
    BY <1>1, <1>2, Division
  <1> HIDE DEF q, r, p
  <1>4. q < NShards
    <2> SUFFICES ASSUME q >= NShards PROVE FALSE
      BY <1>1, <1>3
    <2>1. p * q >= p * NShards
      BY <1>1, <1>2, <1>3
    <2>2. p * q \in Nat /\ p * NShards \in Nat /\ p * NShards = NShards * p
      BY <1>1, <1>2, <1>3
    <2> DEFINE y == p * q
               z == p * NShards
    <2>3. y >= z /\ y \in Nat /\ z \in Nat /\ z >= Capacity /\ i = y + r
      BY <1>2, <1>3, <2>1, <2>2
    <2> HIDE DEF y, z
    <2> QED
      BY <1>1, <1>2, <1>3, <2>3
  <1>5. First(q) = p * q /\ p * q \in Nat
    BY <1>2, <1>3 DEF First, p
  <1> DEFINE y == p * q
  <1>6. First(q) = y /\ y \in Nat /\ i = y + r
    BY <1>3, <1>5
  <1> HIDE DEF y
  <1>7. i - First(q) \in 0..(p - 1)
    BY <1>1, <1>2, <1>3, <1>6
  <1>8. q \in Shards
    BY <1>1, <1>3, <1>4 DEF Shards
  <1> QED
    BY <1>5, <1>7, <1>8 DEF ShardOf, q, p

\* A shard begins where the ones before it have ended, and ends within the pool.
LEMMA ShardBounds ==
  ASSUME NEW s \in Shards
  PROVE  /\ First(s) \in Nat /\ Share(s) \in 0..PerShard
         /\ Share(s) > 0 => First(s) + Share(s) <= Capacity
         /\ \A t \in Shards : s < t => First(s) + PerShard <= First(t)
         /\ \A i \in Slots : i - First(s) \in 0..(PerShard - 1) => i - First(s) < Share(s)
  <1>1. PerShard \in Nat \ {0} /\ Capacity \in Nat \ {0} /\ NShards \in Nat \ {0} /\ s \in Nat
    BY ShardSize, PoolAssumption DEF Shards
  <1>2. First(s) \in Nat
    BY <1>1 DEF First
  <1> DEFINE f == First(s)
             p == PerShard
  <1>3. f \in Nat /\ p \in Nat \ {0}
    BY <1>1, <1>2
  <1>4. Share(s) = IF f >= Capacity THEN 0 ELSE IF f + p <= Capacity THEN p ELSE Capacity - f
    BY DEF Share
  <1>5. ASSUME NEW t \in Shards, s < t PROVE f + p <= First(t)
    <2>1. t \in Nat /\ t - s - 1 \in Nat /\ t = s + 1 + (t - s - 1)
      BY <1>1, <1>5 DEF Shards
    <2> DEFINE d == t - s - 1
    <2>2. d \in Nat /\ t = s + 1 + d
      BY <2>1
    <2> HIDE DEF d, p, f
    <2>3. t * p = s * p + p + d * p /\ d * p \in Nat /\ s * p \in Nat
      BY <1>1, <1>3, <2>2
    <2>4. f = s * p /\ First(t) = t * p
      BY DEF First, f, p
    <2> QED
      BY <1>3, <2>3, <2>4
  <1> HIDE DEF f, p
  <1>6. /\ Share(s) \in 0..p /\ (Share(s) > 0 => f + Share(s) <= Capacity)
        /\ \A i \in Slots : i - f \in 0..(p - 1) => i - f < Share(s)
    BY <1>1, <1>3, <1>4 DEF Slots
  <1> QED
    BY <1>2, <1>5, <1>6 DEF f, p

\* A remainder is the only one that fits.
LEMMA Remainder ==
  ASSUME NEW n \in Nat \ {0}, NEW q \in Nat, NEW r \in 0..(n - 1)
  PROVE  (n * q + r) % n = r
  <1> DEFINE x == n * q + r
             p == x \div n
             u == x % n
  <1>1. x \in Nat
    OBVIOUS
  <1>2. p \in Nat /\ u \in 0..(n - 1) /\ x = n * p + u
    <2> HIDE DEF x
    <2> QED
      BY <1>1, Division
  <1> HIDE DEF p, u
  <1>3. n * q + r = n * p + u
    BY <1>2
  <1>4. ~(p < q)
    <2> SUFFICES ASSUME p < q PROVE FALSE
      OBVIOUS
    <2> DEFINE d == q - p - 1
    <2>1. d \in Nat /\ q = p + 1 + d
      BY <1>2
    <2> HIDE DEF d
    <2>2. n * q = n * p + n + n * d /\ n * d \in Nat /\ n * p \in Nat
      BY <1>2, <2>1
    <2> QED
      BY <1>2, <1>3, <2>2
  <1>5. ~(q < p)
    <2> SUFFICES ASSUME q < p PROVE FALSE
      OBVIOUS
    <2> DEFINE d == p - q - 1
    <2>1. d \in Nat /\ p = q + 1 + d
      BY <1>2
    <2> HIDE DEF d
    <2>2. n * p = n * q + n + n * d /\ n * d \in Nat /\ n * q \in Nat
      BY <1>2, <2>1
    <2> QED
      BY <1>2, <1>3, <2>2
  <1>6. p = q
    BY <1>2, <1>4, <1>5
  <1> DEFINE y == n * q
  <1>7. y \in Nat /\ y + r = y + u
    BY <1>3, <1>6
  <1> HIDE DEF y
  <1>8. r = u
    BY <1>2, <1>7
  <1> QED
    BY <1>8 DEF u

\* Going round all shards from any of them meets every one.
LEMMA RoundAll ==
  ASSUME NEW o \in Nat
  PROVE  /\ \A j \in Nat : (o + j) % NShards \in Shards
         /\ \A s \in Shards : \E j \in Shards : (o + j) % NShards = s
  <1>1. NShards \in Nat \ {0}
    BY PoolAssumption
  <1>2. \A j \in Nat : (o + j) % NShards \in Shards
    <2> SUFFICES ASSUME NEW j \in Nat PROVE (o + j) % NShards \in Shards
      OBVIOUS
    <2>1. o + j \in Nat
      OBVIOUS
    <2> QED
      BY <1>1, <2>1, Division DEF Shards
  <1>3. ASSUME NEW s \in Shards PROVE \E j \in Shards : (o + j) % NShards = s
    <2> DEFINE n == NShards
               q == o \div n
               r == o % n
    <2>1. s \in 0..(n - 1)
      BY DEF Shards
    <2>2. n \in Nat \ {0} /\ q \in Nat /\ r \in 0..(n - 1) /\ o = n * q + r
      BY <1>1, Division
    <2> HIDE DEF n, q, r
    <2>3. CASE s >= r
      <3>1. s - r \in 0..(n - 1)
        BY <2>1, <2>2, <2>3
      <3>2. o + (s - r) = n * q + s
        <4> DEFINE y == n * q
        <4>1. y \in Nat /\ o = y + r
          BY <2>2
        <4> HIDE DEF y
        <4>2. o + (s - r) = y + s
          BY <2>1, <2>2, <4>1
        <4> QED
          BY <4>2 DEF y
      <3>3. (n * q + s) % n = s
        BY <2>1, <2>2, Remainder
      <3> QED
        BY <3>1, <3>2, <3>3 DEF Shards, n
    <2>4. CASE ~(s >= r)
      <3>1. s - r + n \in 0..(n - 1)
        BY <2>1, <2>2, <2>4
      <3>2. o + (s - r + n) = n * (q + 1) + s
        <4> DEFINE y == n * q
                   z == n * (q + 1)
        <4>1. y \in Nat /\ o = y + r /\ z = y + n
          BY <2>2
        <4> HIDE DEF y, z
        <4>2. o + (s - r + n) = z + s
          BY <2>1, <2>2, <4>1
        <4> QED
          BY <4>2 DEF z
      <3>3. (n * (q + 1) + s) % n = s
        <4>1. q + 1 \in Nat
          BY <2>2
        <4> QED
          BY <2>1, <2>2, <4>1, Remainder
      <3> QED
        BY <3>1, <3>2, <3>3 DEF Shards, n
    <2> QED
      BY <2>3, <2>4
  <1> QED
    BY <1>2, <1>3

-----------------------------------------------------------------------------
(* The lists of the pool *)

Tidy(L) ==
    /\ \A l \in PoolLists : L[l] \in Seq(Slots) /\ Once(L[l])
    /\ \A l, m \in PoolLists : l # m => Range(L[l]) \cap Range(L[m]) = {}

Held(L) == UNION {Range(L[l]) : l \in PoolLists}

\* Lists a and b exchange their slots and take in some of X, which were in none.
Exchange(L, K, a, b, X) ==
    /\ X \cap Held(L) = {}
    /\ \A l \in PoolLists : l # a /\ l # b => K[l] = L[l]
    /\ K[a] \in Seq(Slots) /\ Once(K[a]) /\ K[b] \in Seq(Slots) /\ Once(K[b])
    /\ a # b => Range(K[a]) \cap Range(K[b]) = {}
    /\ Range(K[a]) \cup Range(K[b]) \subseteq (Range(L[a]) \cup Range(L[b])) \cup X

Exchanged(L, K, a, b) ==
    (Held(L) \ (Range(L[a]) \cup Range(L[b]))) \cup (Range(K[a]) \cup Range(K[b]))

\* An exchange keeps the lists in order.
LEMMA Regroup ==
  ASSUME NEW L, NEW K, NEW a \in PoolLists, NEW b \in PoolLists, NEW X,
         Tidy(L), Exchange(L, K, a, b, X)
  PROVE  Tidy(K) /\ Held(K) = Exchanged(L, K, a, b)
  <1> USE DEF Exchange
  <1> DEFINE A == Range(L[a])
             B == Range(L[b])
             C == Range(K[a])
             D == Range(K[b])
  <1>1. \A l \in PoolLists : Range(L[l]) \subseteq Held(L)
    BY DEF Held
  <1>2. ASSUME NEW l \in PoolLists, l # a, l # b
        PROVE  Range(K[l]) = Range(L[l]) /\ Range(K[l]) \cap (A \cup B) = {} /\ Range(K[l]) \cap (C \cup D) = {}
    <2>1. K[l] = L[l]
      BY <1>2
    <2>2. Range(L[l]) \cap A = {} /\ Range(L[l]) \cap B = {}
      BY <1>2 DEF Tidy
    <2>3. Range(L[l]) \cap X = {}
      BY <1>1
    <2>4. Range(K[l]) = Range(L[l])
      BY <2>1
    <2> HIDE DEF A, B, C, D
    <2>5. C \cup D \subseteq (A \cup B) \cup X
      BY DEF A, B, C, D
    <2> QED
      BY <2>2, <2>3, <2>4, <2>5
  <1>3. \A l \in PoolLists : K[l] \in Seq(Slots) /\ Once(K[l])
    <2> SUFFICES ASSUME NEW l \in PoolLists PROVE K[l] \in Seq(Slots) /\ Once(K[l])
      OBVIOUS
    <2>1. CASE l = a \/ l = b
      BY <2>1
    <2>2. CASE l # a /\ l # b
      <3>1. K[l] = L[l]
        BY <2>2
      <3> QED
        BY <3>1 DEF Tidy
    <2> QED
      BY <2>1, <2>2
  <1>4. ASSUME NEW l \in PoolLists, NEW m \in PoolLists, l # m PROVE Range(K[l]) \cap Range(K[m]) = {}
    <2>1. CASE l \in {a, b} /\ m \in {a, b}
      BY <1>4, <2>1
    <2>2. CASE l \in {a, b} /\ m \notin {a, b}
      BY <1>2, <2>2
    <2>3. CASE l \notin {a, b} /\ m \in {a, b}
      BY <1>2, <2>3
    <2>4. CASE l \notin {a, b} /\ m \notin {a, b}
      <3>1. K[l] = L[l] /\ K[m] = L[m]
        BY <2>4
      <3> QED
        BY <1>4, <3>1 DEF Tidy
    <2> QED
      BY <2>1, <2>2, <2>3, <2>4
  <1>5. Tidy(K)
    BY <1>3, <1>4 DEF Tidy
  <1>6. ASSUME NEW x PROVE x \in Held(K) <=> x \in (Held(L) \ (A \cup B)) \cup (C \cup D)
    <2>1. ASSUME x \in Held(K) PROVE x \in (Held(L) \ (A \cup B)) \cup (C \cup D)
      <3>1. PICK l \in PoolLists : x \in Range(K[l])
        BY <2>1 DEF Held
      <3>2. CASE l = a \/ l = b
        BY <3>1, <3>2
      <3>3. CASE l # a /\ l # b
        BY <1>1, <1>2, <3>1, <3>3
      <3> QED
        BY <3>2, <3>3
    <2>2. ASSUME x \in C \cup D PROVE x \in Held(K)
      BY <2>2 DEF Held
    <2>3. ASSUME x \in Held(L), x \notin A, x \notin B PROVE x \in Held(K)
      <3>1. PICK l \in PoolLists : x \in Range(L[l])
        BY <2>3 DEF Held
      <3>2. l # a /\ l # b
        BY <2>3, <3>1
      <3>3. x \in Range(K[l])
        BY <1>2, <3>1, <3>2
      <3> QED
        BY <3>3 DEF Held
    <2> HIDE DEF A, B, C, D
    <2> QED
      BY <2>1, <2>2, <2>3
  <1>7. Held(K) = (Held(L) \ (A \cup B)) \cup (C \cup D)
    BY <1>6
  <1> QED
    BY <1>5, <1>7 DEF Exchanged

\* A slot waits in one place of one list, or in none.
LEMMA OnePlace ==
  ASSUME Tidy([l \in PoolLists |-> SlotsIn(l)]), NEW i
  PROVE  Cardinality(Places(i)) = IF i \in Held([l \in PoolLists |-> SlotsIn(l)]) THEN 1 ELSE 0
  <1> DEFINE L == [l \in PoolLists |-> SlotsIn(l)]
             P(l) == {k \in 1..Len(L[l]) : L[l][k] = i}
  <1>1. \A l \in PoolLists : L[l] = SlotsIn(l)
    OBVIOUS
  <1>2. Tidy(L)
    OBVIOUS
  <1>3. \A x : x \in Places(i) <=> \E l \in PoolLists : x \in {l} \X P(l)
    BY <1>1 DEF Places
  <1> HIDE DEF L
  <1>4. \A l \in PoolLists : L[l] \in Seq(Slots) /\ Once(L[l])
    BY <1>2 DEF Tidy
  <1>5. \A l \in PoolLists : i \in Range(L[l]) <=> \E k \in 1..Len(L[l]) : L[l][k] = i
    <2> SUFFICES ASSUME NEW l \in PoolLists PROVE i \in Range(L[l]) <=> \E k \in 1..Len(L[l]) : L[l][k] = i
      OBVIOUS
    <2>1. L[l] \in Seq(Slots)
      BY <1>4
    <2> QED
      BY <2>1, RangeIs
  <1>6. CASE i \notin Held(L)
    <2>1. \A l \in PoolLists : i \notin Range(L[l])
      BY <1>6 DEF Held
    <2>2. \A l \in PoolLists : P(l) = {}
      BY <1>5, <2>1
    <2>3. Places(i) = {}
      BY <1>3, <2>2
    <2> QED
      BY <1>6, <2>3, FS_EmptySet DEF L
  <1>7. CASE i \in Held(L)
    <2>1. PICK l \in PoolLists : i \in Range(L[l])
      BY <1>7 DEF Held
    <2>2. PICK k \in 1..Len(L[l]) : L[l][k] = i
      BY <1>5, <2>1
    <2>3. \A j \in P(l) : j = k
      BY <1>4, <2>2 DEF Once
    <2>4. \A m \in PoolLists : m # l => P(m) = {}
      <3> SUFFICES ASSUME NEW m \in PoolLists, m # l PROVE P(m) = {}
        OBVIOUS
      <3>1. i \notin Range(L[m])
        BY <1>2, <2>1 DEF Tidy
      <3> QED
        BY <1>5, <3>1
    <2>5. P(l) = {k}
      BY <2>2, <2>3
    <2>6. \A x : x \in Places(i) <=> x = <<l, k>>
      <3> HIDE DEF P
      <3>1. \A x : x \in {l} \X P(l) <=> x = <<l, k>>
        BY <2>5
      <3>2. \A m \in PoolLists : m # l => {m} \X P(m) = {}
        BY <2>4
      <3> QED
        BY <1>3, <3>1, <3>2
    <2>7. Places(i) = {<<l, k>>}
      BY <2>6
    <2> QED
      BY <1>7, <2>7, FS_Singleton DEF L
  <1> QED
    BY <1>6, <1>7

-----------------------------------------------------------------------------
(* What the pool's operations do to a list *)

\* A part of a list holds nothing else.
LEMMA CutRange ==
  ASSUME NEW T, NEW s \in Seq(T), NEW m \in 0..Len(s)
  PROVE  /\ Range(SubSeq(s, 1, m)) \subseteq Range(s)
         /\ Range(SubSeq(s, m + 1, Len(s))) \subseteq Range(s)
  <1> DEFINE n == Len(s)
             a == SubSeq(s, 1, m)
             b == SubSeq(s, m + 1, n)
  <1>1. n \in Nat
    BY LenProperties
  <1>2. /\ a \in Seq(T) /\ Len(a) = m /\ \A i \in 1..m : a[i] = s[i]
        /\ b \in Seq(T) /\ Len(b) = n - m /\ \A i \in 1..(n - m) : b[i] = s[m + i]
    BY CutShape
  <1>3. \A x : x \in Range(s) <=> \E i \in 1..n : s[i] = x
    BY RangeIs
  <1> HIDE DEF a, b, n
  <1>4. /\ \A i \in 1..m : i \in 1..n
        /\ \A i \in 1..(n - m) : m + i \in 1..n
    BY <1>1 DEF n
  <1>5. \A x : x \in Range(a) <=> \E i \in 1..m : a[i] = x
    <2>1. a \in Seq(T)
      BY <1>2
    <2>2. \A x : x \in Range(a) <=> \E i \in 1..Len(a) : a[i] = x
      BY <2>1, RangeIs
    <2> QED
      BY <1>2, <2>2
  <1>6. \A x : x \in Range(b) <=> \E i \in 1..(n - m) : b[i] = x
    <2>1. b \in Seq(T)
      BY <1>2
    <2>2. \A x : x \in Range(b) <=> \E i \in 1..Len(b) : b[i] = x
      BY <2>1, RangeIs
    <2> QED
      BY <1>2, <2>2
  <1>7. Range(a) \subseteq Range(s)
    BY <1>2, <1>3, <1>4, <1>5
  <1>8. Range(b) \subseteq Range(s)
    BY <1>2, <1>3, <1>4, <1>6
  <1> QED
    BY <1>7, <1>8 DEF a, b, n

\* A refill cuts the list in two.
LEMMA MovedShape ==
  ASSUME NEW T, NEW s \in Seq(T), NEW n \in Nat
  PROVE  \E m \in 0..Len(s) :
            /\ m = (IF Len(s) < n THEN Len(s) ELSE n)
            /\ Moved(s, n) = SubSeq(s, 1, m) /\ Len(Moved(s, n)) = m
            /\ Rest(s, n) = SubSeq(s, m + 1, Len(s))
  <1> DEFINE m == IF Len(s) < n THEN Len(s) ELSE n
  <1>1. Len(s) \in Nat
    BY LenProperties
  <1>2. m \in 0..Len(s)
    BY <1>1
  <1>3. Moved(s, n) = SubSeq(s, 1, m)
    BY DEF Moved
  <1>4. Len(Moved(s, n)) = m
    <2> HIDE DEF m
    <2> QED
      BY <1>2, <1>3, CutShape
  <1>5. Rest(s, n) = SubSeq(s, m + 1, Len(s))
    BY <1>4 DEF Rest
  <1> QED
    BY <1>2, <1>3, <1>4, <1>5

\* The first slot of a list and the others.
LEMMA HeadTail ==
  ASSUME NEW T, NEW s \in Seq(T), s # <<>>
  PROVE  /\ Head(s) \in T /\ Head(s) = s[1] /\ Tail(s) \in Seq(T) /\ Head(s) \in Range(s)
         /\ 1 \in 0..Len(s) /\ Tail(s) = SubSeq(s, 1 + 1, Len(s)) /\ SubSeq(s, 1, 1) = <<Head(s)>>
  <1>1. Len(s) \in Nat /\ Len(s) # 0
    BY LenProperties, EmptySeq
  <1>2. 1 \in 0..Len(s) /\ 1 \in 1..Len(s)
    BY <1>1
  <1>3. /\ Head(s) \in T /\ Head(s) = s[1] /\ Tail(s) \in Seq(T) /\ Len(Tail(s)) = Len(s) - 1
        /\ \A i \in 1..(Len(s) - 1) : Tail(s)[i] = s[i + 1]
    BY <1>1, HeadTailProperties, ElementOfSeq
  <1> DEFINE b == SubSeq(s, 1 + 1, Len(s))
             a == SubSeq(s, 1, 1)
             t == Tail(s)
  <1>4. /\ a \in Seq(T) /\ Len(a) = 1 /\ \A i \in 1..1 : a[i] = s[i]
        /\ b \in Seq(T) /\ Len(b) = Len(s) - 1 /\ \A i \in 1..(Len(s) - 1) : b[i] = s[1 + i]
    <2> DEFINE e == 1
    <2>1. e \in 0..Len(s)
      BY <1>2
    <2> HIDE DEF e
    <2>2. /\ SubSeq(s, 1, e) \in Seq(T) /\ SubSeq(s, e + 1, Len(s)) \in Seq(T)
          /\ Len(SubSeq(s, 1, e)) = e /\ Len(SubSeq(s, e + 1, Len(s))) = Len(s) - e
          /\ \A i \in 1..e : SubSeq(s, 1, e)[i] = s[i]
          /\ \A i \in 1..(Len(s) - e) : SubSeq(s, e + 1, Len(s))[i] = s[e + i]
      BY <2>1, CutShape
    <2> QED
      BY <2>2 DEF e
  <1>5. t \in Seq(T) /\ Len(t) = Len(s) - 1 /\ \A i \in 1..(Len(s) - 1) : t[i] = s[i + 1]
    BY <1>3
  <1> HIDE DEF a, b, t
  <1>6. \A i \in 1..(Len(s) - 1) : i + 1 = 1 + i
    BY <1>1
  <1>7. t = b
    <2>1. \A i \in 1..(Len(s) - 1) : t[i] = b[i]
      BY <1>4, <1>5, <1>6
    <2> QED
      BY <1>4, <1>5, <2>1, SeqEqual
  <1>8. a = <<Head(s)>>
    <2> DEFINE h == Head(s)
               c == <<h>>
    <2> HIDE DEF h
    <2>1. h \in T /\ h = s[1]
      BY <1>3 DEF h
    <2>2. c \in Seq(T) /\ Len(c) = 1 /\ c[1] = h
      BY <2>1
    <2>3. a[1] = s[1]
      BY <1>4
    <2> HIDE DEF c
    <2>4. \A i \in 1..1 : a[i] = c[i]
      BY <2>1, <2>2, <2>3
    <2>5. a = c
      BY <1>4, <2>2, <2>4, SeqEqual
    <2> QED
      BY <2>5 DEF c, h
  <1>9. Head(s) \in Range(s)
    BY <1>2, <1>3, RangeIs
  <1> QED
    BY <1>2, <1>3, <1>7, <1>8, <1>9 DEF a, b, t

\* Taking the first slot off a list.
LEMMA TakeHead ==
  ASSUME NEW T, NEW s \in Seq(T), s # <<>>, Once(s)
  PROVE  /\ Tail(s) \in Seq(T) /\ Once(Tail(s)) /\ Head(s) \in Range(s)
         /\ Range(Tail(s)) = Range(s) \ {Head(s)}
  <1>1. /\ Head(s) \in T /\ Tail(s) \in Seq(T) /\ Head(s) \in Range(s)
        /\ 1 \in 0..Len(s) /\ Tail(s) = SubSeq(s, 1 + 1, Len(s)) /\ SubSeq(s, 1, 1) = <<Head(s)>>
    BY HeadTail
  <1>2. /\ Once(SubSeq(s, 1 + 1, Len(s)))
        /\ Range(SubSeq(s, 1 + 1, Len(s))) = Range(s) \ Range(SubSeq(s, 1, 1))
    BY <1>1, CutList
  <1>3. Range(<<Head(s)>>) = {Head(s)}
    BY <1>1, OneList
  <1> QED
    BY <1>1, <1>2, <1>3

\* Taking the last slot off a list.
LEMMA TakeLast ==
  ASSUME NEW T, NEW s \in Seq(T), s # <<>>, Once(s)
  PROVE  LET n == Len(s) IN
         /\ n \in 1..n /\ n - 1 \in 0..n /\ SubSeq(s, 1, n - 1) \in Seq(T) /\ Once(SubSeq(s, 1, n - 1))
         /\ s[n] \in T /\ s[n] \in Range(s) /\ Range(SubSeq(s, 1, n - 1)) = Range(s) \ {s[n]}
  <1> DEFINE n == Len(s)
             m == n - 1
             b == SubSeq(s, m + 1, n)
             e == s[n]
  <1>1. n \in Nat /\ n # 0
    BY LenProperties, EmptySeq
  <1>2. m \in 0..Len(s) /\ n \in 1..n /\ n - m = 1 /\ m + 1 = n
    BY <1>1
  <1>3. e \in T /\ e \in Range(s)
    BY <1>2, ElementOfSeq, RangeIs
  <1>4. /\ SubSeq(s, 1, m) \in Seq(T) /\ Once(SubSeq(s, 1, m))
        /\ Range(SubSeq(s, 1, m)) = Range(s) \ Range(SubSeq(s, m + 1, Len(s)))
    <2> HIDE DEF m
    <2> QED
      BY <1>2, CutList, CutShape
  <1>5. b \in Seq(T) /\ Len(b) = n - m /\ \A i \in 1..(n - m) : b[i] = s[m + i]
    <2> HIDE DEF m
    <2> QED
      BY <1>2, CutShape
  <1> HIDE DEF b, m, n
  <1>6. Len(b) = 1 /\ b[1] = e
    BY <1>2, <1>5 DEF e
  <1> HIDE DEF e
  <1>7. \A x : x \in Range(b) <=> x = e
    <2>1. \A x : x \in Range(b) <=> \E i \in 1..1 : b[i] = x
      BY <1>5, <1>6, RangeIs
    <2> QED
      BY <1>6, <2>1
  <1>8. Range(b) = {e}
    BY <1>7
  <1> QED
    BY <1>2, <1>3, <1>4, <1>8 DEF b, e, m, n

\* A handle in a list of handles puts its slot in the list of slots.
LEMMA IndexIn ==
  ASSUME NEW s \in Seq(PoolHandles)
  PROVE  \A h \in Range(s) : h \in PoolHandles /\ h.index \in Range(Indices(s))
  <1>1. /\ Indices(s) \in Seq(Slots) /\ Len(Indices(s)) = Len(s)
        /\ \A k \in 1..Len(s) : Indices(s)[k] = s[k].index /\ s[k] \in PoolHandles
    BY IndicesShape
  <1> SUFFICES ASSUME NEW h \in Range(s) PROVE h \in PoolHandles /\ h.index \in Range(Indices(s))
    OBVIOUS
  <1>2. PICK k \in 1..Len(s) : s[k] = h
    BY RangeIs
  <1>3. Indices(s)[k] = h.index /\ k \in 1..Len(Indices(s))
    BY <1>1, <1>2
  <1>4. h.index \in Range(Indices(s))
    BY <1>1, <1>3, RangeIs
  <1> QED
    BY <1>1, <1>2, <1>4

\* The slot of one handle.
LEMMA IndicesOne ==
  ASSUME NEW h \in PoolHandles
  PROVE  Indices(<<h>>) = <<h.index>>
  <1> DEFINE a == Indices(<<h>>)
             b == <<h.index>>
  <1>1. <<h>> \in Seq(PoolHandles) /\ Len(<<h>>) = 1 /\ <<h>>[1] = h
    OBVIOUS
  <1>2. a \in Seq(Slots) /\ Len(a) = 1 /\ a[1] = h.index
    <2>1. a \in Seq(Slots) /\ Len(a) = Len(<<h>>) /\ \A k \in 1..Len(<<h>>) : a[k] = <<h>>[k].index
      BY <1>1, IndicesShape
    <2> QED
      BY <1>1, <2>1
  <1>3. h.index \in Slots
    BY DEF PoolHandles
  <1>4. b \in Seq(Slots) /\ Len(b) = 1 /\ b[1] = h.index
    BY <1>3
  <1> HIDE DEF a, b
  <1>5. \A i \in 1..1 : a[i] = b[i]
    BY <1>2, <1>4
  <1>6. a = b
    BY <1>2, <1>4, <1>5, SeqEqual
  <1> QED
    BY <1>6 DEF a, b

\* The handles made for a list of slots name those slots.
LEMMA IndicesMade ==
  ASSUME NEW g \in [Slots -> 0..LastGen], NEW t \in Seq(Slots)
  PROVE  LET s == [k \in 1..Len(t) |-> Handle(t[k], g[t[k]])] IN
         /\ s \in Seq(PoolHandles) /\ Indices(s) = t
         /\ \A h \in Range(s) : g[h.index] = h.gen
  <1> DEFINE n == Len(t)
             s == [k \in 1..n |-> Handle(t[k], g[t[k]])]
  <1>1. n \in Nat /\ \A k \in 1..n : t[k] \in Slots
    BY LenProperties, ElementOfSeq
  <1>2. \A k \in 1..n : Handle(t[k], g[t[k]]) \in PoolHandles
    BY <1>1 DEF Handle, PoolHandles
  <1>3. s \in [1..n -> PoolHandles]
    BY <1>2
  <1>4. \A k \in 1..n : s[k] = Handle(t[k], g[t[k]])
    OBVIOUS
  <1>5. \A k \in 1..n : s[k].index = t[k] /\ s[k].gen = g[t[k]]
    BY <1>4 DEF Handle
  <1> HIDE DEF s, n
  <1>6. s \in Seq(PoolHandles) /\ Len(s) = n
    BY <1>1, <1>3
  <1>7. Indices(s) \in Seq(Slots) /\ Len(Indices(s)) = n /\ \A k \in 1..n : Indices(s)[k] = s[k].index
    BY <1>6, IndicesShape
  <1>8. Indices(s) = t
    <2>1. \A k \in 1..n : Indices(s)[k] = t[k]
      BY <1>5, <1>7
    <2> QED
      BY <1>7, <2>1, SeqEqual DEF n
  <1>9. \A h \in Range(s) : g[h.index] = h.gen
    <2> SUFFICES ASSUME NEW h \in Range(s) PROVE g[h.index] = h.gen
      OBVIOUS
    <2>1. PICK k \in 1..n : s[k] = h
      BY <1>6, RangeIs
    <2> QED
      BY <1>5, <2>1
  <1> QED
    BY <1>6, <1>8, <1>9 DEF s, n

-----------------------------------------------------------------------------
(* The inductive invariant *)

Contents == [l \in PoolLists |-> SlotsIn(l)]

PoolTypes ==
    /\ live \in [Slots -> BOOLEAN] /\ gen \in [Slots -> 0..LastGen]
    /\ birth \in [Slots -> [owner : PoolOwners \cup {-1}, regime : {"local", "shared"}]]
    /\ heads \in [Shards -> Seq(Slots)]
    /\ recycle \in [PoolOwners -> Seq(PoolHandles)] /\ cache \in [PoolOwners -> Seq(PoolHandles)]
    /\ step \in [PoolOwners -> [at : {"idle", "recycle", "refill", "take", "steal", "failed"}, shard : Shards]]
    /\ due \in [PoolOwners -> SUBSET Slots] /\ retired \in SUBSET Slots

\* What waits is what is neither live nor retired.
Books ==
    /\ \A i \in Slots : i \in Held(Contents) <=> ~live[i] /\ i \notin retired
    /\ \A i \in Slots : live[i] => i \notin retired /\ birth[i].owner \in PoolOwners

Fresh ==
    \A o \in PoolOwners : \A h \in Range(cache[o]) \cup Range(recycle[o]) : gen[h.index] = h.gen

\* A refill begins with room in the cache and ends with a slot in it.
CallOf(o) ==
    /\ At(o, "recycle") \/ At(o, "refill") => Len(cache[o]) < Refill
    /\ At(o, "take") => cache[o] # <<>>

Calls == \A o \in PoolOwners : CallOf(o)

\* What is due to a call is still on a free list, and not on one it has left behind.
SearchOf(o) ==
    /\ due[o] \subseteq OnLists
    /\ At(o, "steal") => \A j \in 0..(step[o].shard - 1) : Range(heads[(o + j) % NShards]) \cap due[o] = {}
    /\ At(o, "failed") => due[o] = {}

Searches == \A o \in PoolOwners : SearchOf(o)

PoolInv == PoolTypes /\ Tidy(Contents) /\ Books /\ Fresh /\ Calls /\ Searches

\* The three kinds of lists.
LEMMA ListKinds ==
  /\ \A s \in Shards : <<"shard", s>> \in PoolLists
  /\ \A o \in PoolOwners : <<"cache", o>> \in PoolLists /\ <<"ring", o>> \in PoolLists
  /\ \A l \in PoolLists : \/ \E s \in Shards : l = <<"shard", s>>
                          \/ \E o \in PoolOwners : l = <<"cache", o>> \/ l = <<"ring", o>>
  BY DEF PoolLists

\* What they hold now ...
LEMMA ContentsAre ==
  /\ \A s \in Shards : Contents[<<"shard", s>>] = heads[s]
  /\ \A o \in PoolOwners : /\ Contents[<<"cache", o>>] = Indices(cache[o])
                           /\ Contents[<<"ring", o>>] = Indices(recycle[o])
  <1>1. \A l \in PoolLists : Contents[l] = SlotsIn(l)
    BY DEF Contents
  <1>2. \A s \in Shards : SlotsIn(<<"shard", s>>) = heads[s]
    BY DEF SlotsIn
  <1>3. \A o \in PoolOwners : SlotsIn(<<"cache", o>>) = Indices(cache[o])
    BY DEF SlotsIn
  <1>4. \A o \in PoolOwners : SlotsIn(<<"ring", o>>) = Indices(recycle[o])
    BY DEF SlotsIn
  <1> QED
    BY <1>1, <1>2, <1>3, <1>4, ListKinds

\* ... and after a step.
LEMMA ContentsWillBe ==
  /\ \A s \in Shards : Contents'[<<"shard", s>>] = heads'[s]
  /\ \A o \in PoolOwners : /\ Contents'[<<"cache", o>>] = Indices(cache'[o])
                           /\ Contents'[<<"ring", o>>] = Indices(recycle'[o])
  <1>1. \A l \in PoolLists : Contents'[l] = SlotsIn(l)'
    BY DEF Contents
  <1>2. \A s \in Shards : SlotsIn(<<"shard", s>>)' = heads'[s]
    BY DEF SlotsIn
  <1>3. \A o \in PoolOwners : SlotsIn(<<"cache", o>>)' = Indices(cache'[o])
    BY DEF SlotsIn, Indices
  <1>4. \A o \in PoolOwners : SlotsIn(<<"ring", o>>)' = Indices(recycle'[o])
    BY DEF SlotsIn, Indices
  <1> QED
    BY <1>1, <1>2, <1>3, <1>4, ListKinds

\* A shard begins with its part of the pool.
LEMMA FirstList ==
  ASSUME NEW s \in Shards
  PROVE  LET t == [k \in 1..Share(s) |-> First(s) + k - 1] IN
         /\ t \in Seq(Slots) /\ Once(t)
         /\ \A i \in Slots : i \in Range(t) <=> i - First(s) \in 0..(PerShard - 1)
  <1> DEFINE f == First(s)
             n == Share(s)
             p == PerShard
             t == [k \in 1..n |-> f + k - 1]
  <1>1. /\ f \in Nat /\ n \in 0..p /\ p \in Nat /\ (n > 0 => f + n <= Capacity) /\ Capacity \in Nat
        /\ \A i \in Slots : i - f \in 0..(p - 1) => i - f < n
    BY ShardBounds, ShardSize, PoolAssumption
  <1> HIDE DEF f, n, p
  <1>2. \A k \in 1..n : f + k - 1 \in Slots
    BY <1>1 DEF Slots
  <1>3. t \in [1..n -> Slots] /\ n \in Nat
    <2>1. n \in Nat
      BY <1>1
    <2>2. t \in [1..n -> Slots]
      BY <1>2
    <2> QED
      BY <2>1, <2>2
  <1>4. \A k \in 1..n : t[k] = f + k - 1
    OBVIOUS
  <1> HIDE DEF t
  <1>5. t \in Seq(Slots) /\ Len(t) = n
    BY <1>3
  <1>6. Once(t)
    <2> SUFFICES ASSUME NEW i \in 1..n, NEW j \in 1..n, t[i] = t[j] PROVE i = j
      BY <1>5 DEF Once
    <2>1. f + i - 1 = f + j - 1
      BY <1>4
    <2> QED
      BY <1>1, <2>1
  <1>7. ASSUME NEW i \in Slots PROVE i \in Range(t) <=> i - f \in 0..(p - 1)
    <2>1. i \in Range(t) <=> \E k \in 1..n : t[k] = i
      <3>1. i \in Range(t) <=> \E k \in 1..Len(t) : t[k] = i
        BY <1>5, RangeIs
      <3> QED
        BY <1>5, <3>1
    <2>2. i \in Nat
      BY <1>1 DEF Slots
    <2>3. ASSUME NEW k \in 1..n, t[k] = i PROVE i - f \in 0..(p - 1)
      <3>1. i = f + k - 1
        BY <1>4, <2>3
      <3> QED
        BY <1>1, <3>1
    <2>4. ASSUME i - f \in 0..(p - 1) PROVE \E k \in 1..n : t[k] = i
      <3>1. i - f < n
        BY <1>1, <2>4
      <3>2. i - f + 1 \in 1..n /\ f + (i - f + 1) - 1 = i
        BY <1>1, <2>2, <2>4, <3>1
      <3>3. t[i - f + 1] = i
        BY <1>4, <3>2
      <3> QED
        BY <3>2, <3>3
    <2> QED
      BY <2>1, <2>3, <2>4
  <1> QED
    BY <1>5, <1>6, <1>7 DEF f, n, p, t

\* At first every slot is on the free list of its shard.
LEMMA PoolInitInv ==
  PoolInit => PoolInv
  <1> SUFFICES ASSUME PoolInit PROVE PoolInv
    OBVIOUS
  <1> DEFINE T(s) == [k \in 1..Share(s) |-> First(s) + k - 1]
  <1>1. \A s \in Shards : heads[s] = T(s)
    BY DEF PoolInit
  <1>2. \A s \in Shards : /\ T(s) \in Seq(Slots) /\ Once(T(s))
                          /\ \A i \in Slots : i \in Range(T(s)) <=> i - First(s) \in 0..(PerShard - 1)
    BY FirstList
  <1> HIDE DEF T
  <1>3. \A s \in Shards : /\ heads[s] \in Seq(Slots) /\ Once(heads[s])
                          /\ \A i \in Slots : i \in Range(heads[s]) <=> i - First(s) \in 0..(PerShard - 1)
    BY <1>1, <1>2
  <1>4. /\ heads = [s \in Shards |-> heads[s]] /\ heads \in [Shards -> Seq(Slots)]
    BY <1>3 DEF PoolInit
  <1>5. PoolTypes
    <2>1. 0 \in Shards /\ 0 \in 0..LastGen
      BY PoolAssumption DEF Shards
    <2>2. Resting \in [at : {"idle", "recycle", "refill", "take", "steal", "failed"}, shard : Shards]
      BY <2>1 DEF Resting
    <2> QED
      BY <1>4, <2>1, <2>2 DEF PoolTypes, PoolInit
  <1>6. \A o \in PoolOwners : cache[o] = <<>> /\ recycle[o] = <<>>
    BY DEF PoolInit
  <1>7. Indices(<<>>) = <<>>
    BY DEF Indices
  <1>8. Range(<<>>) = {}
    BY DEF Range
  <1>9. Once(<<>>)
    BY DEF Once
  <1>10. \A l \in PoolLists : \/ \E s \in Shards : l = <<"shard", s>> /\ Contents[l] = heads[s]
                              \/ Contents[l] = <<>>
    <2> SUFFICES ASSUME NEW l \in PoolLists
                 PROVE  \/ \E s \in Shards : l = <<"shard", s>> /\ Contents[l] = heads[s]
                        \/ Contents[l] = <<>>
      OBVIOUS
    <2>1. CASE \E s \in Shards : l = <<"shard", s>>
      BY <2>1, ContentsAre
    <2>2. CASE \E o \in PoolOwners : l = <<"cache", o>> \/ l = <<"ring", o>>
      BY <1>6, <1>7, <2>2, ContentsAre
    <2> QED
      BY <2>1, <2>2, ListKinds
  <1>11. Tidy(Contents)
    <2>1. \A l \in PoolLists : Contents[l] \in Seq(Slots) /\ Once(Contents[l])
      <3>1. <<>> \in Seq(Slots)
        OBVIOUS
      <3> QED
        BY <1>3, <1>9, <1>10, <3>1
    <2>2. ASSUME NEW s \in Shards, NEW t \in Shards, s < t PROVE Range(heads[s]) \cap Range(heads[t]) = {}
      <3> SUFFICES ASSUME NEW i \in Range(heads[s]), i \in Range(heads[t]) PROVE FALSE
        OBVIOUS
      <3>1. i \in Slots
        BY <1>3, RangeOfSeq
      <3>2. i - First(s) \in 0..(PerShard - 1) /\ i - First(t) \in 0..(PerShard - 1)
        BY <1>3, <3>1
      <3>3. First(s) + PerShard <= First(t) /\ First(s) \in Nat /\ First(t) \in Nat
        BY <2>2, ShardBounds
      <3>4. PerShard \in Nat /\ i \in Nat
        BY <3>1, ShardSize, PoolAssumption DEF Slots
      <3> QED
        BY <3>2, <3>3, <3>4
    <2>3. ASSUME NEW l \in PoolLists, NEW m \in PoolLists, l # m
          PROVE  Range(Contents[l]) \cap Range(Contents[m]) = {}
      <3>1. CASE Contents[l] = <<>> \/ Contents[m] = <<>>
        BY <1>8, <3>1
      <3>2. CASE ~(Contents[l] = <<>> \/ Contents[m] = <<>>)
        <4>1. PICK s \in Shards : l = <<"shard", s>> /\ Contents[l] = heads[s]
          BY <1>10, <3>2
        <4>2. PICK t \in Shards : m = <<"shard", t>> /\ Contents[m] = heads[t]
          BY <1>10, <3>2
        <4>3. s # t
          BY <2>3, <4>1, <4>2
        <4>4. s < t \/ t < s
          BY <4>3, PoolAssumption DEF Shards
        <4>5. Range(heads[s]) \cap Range(heads[t]) = {}
          BY <2>2, <4>4
        <4> QED
          BY <4>1, <4>2, <4>5
      <3> QED
        BY <3>1, <3>2
    <2> QED
      BY <2>1, <2>3 DEF Tidy
  <1>12. Books
    <2>1. ASSUME NEW i \in Slots PROVE i \in Held(Contents)
      <3>1. ShardOf(i) \in Shards /\ i - First(ShardOf(i)) \in 0..(PerShard - 1)
        BY ShardExists
      <3>2. i \in Range(heads[ShardOf(i)])
        BY <1>3, <3>1
      <3>3. i \in Range(Contents[<<"shard", ShardOf(i)>>]) /\ <<"shard", ShardOf(i)>> \in PoolLists
        BY <3>1, <3>2, ContentsAre, ListKinds
      <3> QED
        BY <3>3 DEF Held
    <2>2. \A i \in Slots : ~live[i] /\ i \notin retired
      BY DEF PoolInit
    <2> QED
      BY <2>1, <2>2 DEF Books
  <1>13. Fresh
    BY <1>6, <1>8 DEF Fresh
  <1>14. \A o \in PoolOwners : At(o, "idle") /\ due[o] = {}
    BY DEF PoolInit, At, Resting
  <1>15. Calls /\ Searches
    BY <1>14 DEF Calls, CallOf, Searches, SearchOf, At
  <1> QED
    BY <1>5, <1>11, <1>12, <1>13, <1>15 DEF PoolInv

-----------------------------------------------------------------------------
(* Steps on the lists *)

\* A refill moves the first m slots of one list to the end of another,
Shifts(L, K, a, b, m) ==
    /\ a # b /\ m \in 0..Len(L[a])
    /\ \A l \in PoolLists : l # a /\ l # b => K[l] = L[l]
    /\ K[a] = SubSeq(L[a], m + 1, Len(L[a])) /\ K[b] = L[b] \o SubSeq(L[a], 1, m)

\* an allocation takes slot x out of list a,
Drops(L, K, a, x) ==
    /\ x \in Range(L[a])
    /\ \A l \in PoolLists : l # a => K[l] = L[l]
    /\ K[a] \in Seq(Slots) /\ Once(K[a]) /\ Range(K[a]) = Range(L[a]) \ {x}

\* and a free puts slot x into it.
Adds(L, K, a, x) ==
    /\ x \notin Held(L)
    /\ \A l \in PoolLists : l # a => K[l] = L[l]
    /\ K[a] \in Seq(Slots) /\ Once(K[a]) /\ Range(K[a]) = Range(L[a]) \cup {x}

\* A refill loses nothing.
LEMMA MoveLists ==
  ASSUME NEW L, NEW K, NEW a \in PoolLists, NEW b \in PoolLists, Tidy(L),
         NEW m, Shifts(L, K, a, b, m)
  PROVE  Tidy(K) /\ Held(K) = Held(L)
  <1> USE DEF Shifts
  <1> DEFINE x == L[a]
             y == L[b]
             u == SubSeq(x, 1, m)
             v == SubSeq(x, m + 1, Len(x))
  <1>1. x \in Seq(Slots) /\ Once(x) /\ y \in Seq(Slots) /\ Once(y) /\ Range(x) \cap Range(y) = {}
    BY DEF Tidy
  <1>2. u \in Seq(Slots) /\ v \in Seq(Slots)
    BY <1>1, CutShape
  <1>3. /\ Once(u) /\ Once(v)
        /\ Range(v) = Range(x) \ Range(u) /\ Range(u) = Range(x) \ Range(v)
    BY <1>1, CutList
  <1>6. K[a] = v /\ K[b] = y \o u
    OBVIOUS
  <1> HIDE DEF u, v, x, y
  <1>4. Range(y) \cap Range(u) = {}
    BY <1>1, <1>3
  <1>5. y \o u \in Seq(Slots) /\ Once(y \o u) /\ Range(y \o u) = Range(y) \cup Range(u)
    <2>1. y \o u \in Seq(Slots) /\ Range(y \o u) = Range(y) \cup Range(u)
      BY <1>1, <1>2, RangeConcatenation
    <2>2. Once(y \o u)
      BY <1>1, <1>2, <1>3, <1>4, JoinList
    <2> QED
      BY <2>1, <2>2
  <1>7. K[a] \in Seq(Slots) /\ Once(K[a]) /\ K[b] \in Seq(Slots) /\ Once(K[b])
    BY <1>2, <1>3, <1>5, <1>6
  <1>8. /\ Range(K[a]) \cap Range(K[b]) = {}
        /\ Range(K[a]) \cup Range(K[b]) = Range(L[a]) \cup Range(L[b])
    BY <1>1, <1>3, <1>5, <1>6 DEF x, y
  <1>9. Range(L[a]) \cup Range(L[b]) \subseteq Held(L)
    BY DEF Held
  <1>10. Exchange(L, K, a, b, {})
    <2>1. {} \cap Held(L) = {} /\ Range(K[a]) \cup Range(K[b]) \subseteq (Range(L[a]) \cup Range(L[b])) \cup {}
      BY <1>8
    <2> QED
      BY <1>7, <1>8, <2>1 DEF Exchange
  <1>11. Tidy(K) /\ Held(K) = Exchanged(L, K, a, b)
    BY <1>10, Regroup
  <1> QED
    BY <1>8, <1>9, <1>11 DEF Exchanged

\* An allocation takes one slot from what is held.
LEMMA DropOne ==
  ASSUME NEW L, NEW K, NEW a \in PoolLists, Tidy(L), NEW x, Drops(L, K, a, x)
  PROVE  Tidy(K) /\ Held(K) = Held(L) \ {x}
  <1> USE DEF Drops
  <1>1. Range(L[a]) \subseteq Held(L)
    BY DEF Held
  <1>2. {} \cap Held(L) = {} /\ Range(K[a]) \cup Range(K[a]) \subseteq (Range(L[a]) \cup Range(L[a])) \cup {}
    OBVIOUS
  <1>3. Exchange(L, K, a, a, {})
    BY <1>2 DEF Exchange
  <1>4. Tidy(K) /\ Held(K) = Exchanged(L, K, a, a)
    BY <1>3, Regroup
  <1> QED
    BY <1>1, <1>4 DEF Exchanged

\* A free adds one slot to what is held.
LEMMA AddOne ==
  ASSUME NEW L, NEW K, NEW a \in PoolLists, Tidy(L), NEW x, Adds(L, K, a, x)
  PROVE  Tidy(K) /\ Held(K) = Held(L) \cup {x}
  <1> USE DEF Adds
  <1>1. Range(L[a]) \subseteq Held(L)
    BY DEF Held
  <1>2. {x} \cap Held(L) = {} /\ Range(K[a]) \cup Range(K[a]) \subseteq (Range(L[a]) \cup Range(L[a])) \cup {x}
    OBVIOUS
  <1>3. Exchange(L, K, a, a, {x})
    BY <1>2 DEF Exchange
  <1>4. Tidy(K) /\ Held(K) = Exchanged(L, K, a, a)
    BY <1>3, Regroup
  <1> QED
    BY <1>1, <1>4 DEF Exchanged

\* The lists a step does not write.
LEMMA SameElsewhere ==
  ASSUME NEW A,
         \A s \in Shards : <<"shard", s>> \notin A => heads'[s] = heads[s],
         \A o \in PoolOwners : <<"cache", o>> \notin A => cache'[o] = cache[o],
         \A o \in PoolOwners : <<"ring", o>> \notin A => recycle'[o] = recycle[o]
  PROVE  \A l \in PoolLists : l \notin A => Contents'[l] = Contents[l]
  <1> SUFFICES ASSUME NEW l \in PoolLists, l \notin A PROVE Contents'[l] = Contents[l]
    OBVIOUS
  <1>1. CASE \E s \in Shards : l = <<"shard", s>>
    <2>1. PICK s \in Shards : l = <<"shard", s>>
      BY <1>1
    <2>2. Contents'[l] = heads'[s] /\ Contents[l] = heads[s] /\ heads'[s] = heads[s]
      BY <2>1, ContentsAre, ContentsWillBe
    <2> QED
      BY <2>2
  <1>2. CASE \E o \in PoolOwners : l = <<"cache", o>>
    <2>1. PICK o \in PoolOwners : l = <<"cache", o>>
      BY <1>2
    <2>2. Contents'[l] = Indices(cache'[o]) /\ Contents[l] = Indices(cache[o]) /\ cache'[o] = cache[o]
      BY <2>1, ContentsAre, ContentsWillBe
    <2> QED
      BY <2>2
  <1>3. CASE \E o \in PoolOwners : l = <<"ring", o>>
    <2>1. PICK o \in PoolOwners : l = <<"ring", o>>
      BY <1>3
    <2>2. Contents'[l] = Indices(recycle'[o]) /\ Contents[l] = Indices(recycle[o]) /\ recycle'[o] = recycle[o]
      BY <2>1, ContentsAre, ContentsWillBe
    <2> QED
      BY <2>2
  <1> QED
    BY <1>1, <1>2, <1>3, ListKinds

\* A step that writes no list.
LEMMA SameLists ==
  ASSUME UNCHANGED <<heads, cache, recycle>>
  PROVE  Contents' = Contents
  BY DEF Contents, SlotsIn, Indices

\* The slots of a list are slots, and held.
LEMMA HeldSlots ==
  ASSUME PoolInv
  PROVE  /\ \A s \in Shards : /\ Range(heads[s]) \subseteq Held(Contents) /\ Range(heads[s]) \subseteq Slots
                              /\ heads[s] \in Seq(Slots) /\ Once(heads[s])
         /\ \A o \in PoolOwners :
               /\ \A h \in Range(cache[o]) \cup Range(recycle[o]) : h \in PoolHandles /\ h.index \in Held(Contents)
               /\ Once(Indices(cache[o])) /\ Once(Indices(recycle[o]))
               /\ cache[o] \in Seq(PoolHandles) /\ recycle[o] \in Seq(PoolHandles)
  <1>1. \A l \in PoolLists : Range(Contents[l]) \subseteq Held(Contents)
    BY DEF Held
  <1>2. \A l \in PoolLists : Contents[l] \in Seq(Slots) /\ Once(Contents[l])
    BY DEF PoolInv, Tidy
  <1>3. ASSUME NEW s \in Shards
        PROVE  /\ Range(heads[s]) \subseteq Held(Contents) /\ Range(heads[s]) \subseteq Slots
               /\ heads[s] \in Seq(Slots) /\ Once(heads[s])
    <2>1. <<"shard", s>> \in PoolLists /\ Contents[<<"shard", s>>] = heads[s]
      BY ListKinds, ContentsAre
    <2>2. heads[s] \in Seq(Slots)
      BY <1>2, <2>1
    <2> QED
      BY <1>1, <1>2, <2>1, <2>2, RangeOfSeq
  <1>4. ASSUME NEW o \in PoolOwners
        PROVE  /\ \A h \in Range(cache[o]) \cup Range(recycle[o]) : h \in PoolHandles /\ h.index \in Held(Contents)
               /\ Once(Indices(cache[o])) /\ Once(Indices(recycle[o]))
               /\ cache[o] \in Seq(PoolHandles) /\ recycle[o] \in Seq(PoolHandles)
    <2>1. /\ <<"cache", o>> \in PoolLists /\ Contents[<<"cache", o>>] = Indices(cache[o])
          /\ <<"ring", o>> \in PoolLists /\ Contents[<<"ring", o>>] = Indices(recycle[o])
      BY ListKinds, ContentsAre
    <2>2. cache[o] \in Seq(PoolHandles) /\ recycle[o] \in Seq(PoolHandles)
      BY DEF PoolInv, PoolTypes
    <2>3. Range(Indices(cache[o])) \subseteq Held(Contents) /\ Range(Indices(recycle[o])) \subseteq Held(Contents)
      BY <1>1, <2>1
    <2>4. \A h \in Range(cache[o]) : h \in PoolHandles /\ h.index \in Held(Contents)
      BY <2>2, <2>3, IndexIn
    <2>5. \A h \in Range(recycle[o]) : h \in PoolHandles /\ h.index \in Held(Contents)
      BY <2>2, <2>3, IndexIn
    <2>6. Once(Indices(cache[o])) /\ Once(Indices(recycle[o]))
      BY <1>2, <2>1
    <2> QED
      BY <2>2, <2>4, <2>5, <2>6
  <1> QED
    BY <1>3, <1>4

\* Who stands still keeps the order of his search while only slots that are not due
\* to him come to the free lists, and those that go are no longer due.
LEMMA StandsStill ==
  ASSUME PoolInv, NEW p \in PoolOwners, step'[p] = step[p], due'[p] \subseteq due[p],
         \A i \in due'[p] : \E s \in Shards : i \in Range(heads'[s]),
         \A s \in Shards : \A i \in due'[p] : i \in Range(heads'[s]) => i \in Range(heads[s])
  PROVE  SearchOf(p)'
  <1>1. SearchOf(p)
    BY DEF PoolInv, Searches
  <1>2. due'[p] \subseteq OnLists'
    BY DEF OnLists
  <1>3. ASSUME At(p, "steal"), NEW j \in 0..(step[p].shard - 1)
        PROVE  Range(heads'[(p + j) % NShards]) \cap due'[p] = {}
    <2>1. p \in Nat /\ j \in Nat
      BY PoolAssumption, <1>3 DEF PoolInv, PoolTypes, Shards
    <2>2. (p + j) % NShards \in Shards
      BY <2>1, RoundAll
    <2>3. Range(heads[(p + j) % NShards]) \cap due[p] = {}
      BY <1>1, <1>3 DEF SearchOf
    <2> QED
      BY <2>2, <2>3
  <1>4. At(p, "failed") => due'[p] = {}
    BY <1>1 DEF SearchOf
  <1>5. \A place : At(p, place)' <=> At(p, place)
    BY DEF At
  <1> QED
    BY <1>2, <1>3, <1>4, <1>5 DEF SearchOf

\* The same for the cache of one who stands still.
LEMMA CallStands ==
  ASSUME PoolInv, NEW p \in PoolOwners, step'[p] = step[p], cache'[p] = cache[p]
  PROVE  CallOf(p)'
  BY DEF PoolInv, Calls, CallOf, At

-----------------------------------------------------------------------------
(* One lemma for each operation *)

StepOf == [at : {"idle", "recycle", "refill", "take", "steal", "failed"}, shard : Shards]

\* While what is held, live and retired stays, so do the books.
LEMMA BooksStand ==
  ASSUME Books, Held(Contents)' = Held(Contents), UNCHANGED <<live, birth, retired>>
  PROVE  Books'
  BY DEF Books

\* An owner's move from one place of its call to another.
LEMMA GotoIs ==
  ASSUME PoolInv, NEW o \in PoolOwners, NEW place, NEW s \in Shards, Goto(o, place, s),
         place \in {"idle", "recycle", "refill", "take", "steal", "failed"}
  PROVE  /\ step' \in [PoolOwners -> StepOf]
         /\ \A p \in PoolOwners : p # o => step'[p] = step[p]
         /\ step'[o].at = place /\ step'[o].shard = s
  BY DEF PoolInv, PoolTypes, Goto, StepOf

\* There is a first shard.
LEMMA ZeroShard ==
  0 \in Shards
  BY PoolAssumption DEF Shards

\* allocInto begins.
LEMMA BeginAllocInv ==
  ASSUME PoolInv, NEW o \in PoolOwners, BeginAlloc(o)
  PROVE  PoolInv'
  <1> USE DEF PoolInv
  <1>1. /\ due' = [due EXCEPT ![o] = OnLists] /\ due \in [PoolOwners -> SUBSET Slots]
        /\ UNCHANGED <<live, gen, birth, heads, recycle, cache, retired>>
    BY DEF BeginAlloc, PoolTypes
  <1>2. PICK place \in {"steal", "recycle", "take"} :
            /\ Goto(o, place, 0)
            /\ place = "recycle" => cache[o] = <<>>
            /\ place = "take" => cache[o] # <<>>
    BY DEF BeginAlloc
  <1>3. /\ step' \in [PoolOwners -> StepOf]
        /\ \A p \in PoolOwners : p # o => step'[p] = step[p]
        /\ step'[o].at = place /\ step'[o].shard = 0
    BY <1>2, GotoIs, ZeroShard
  <1>4. Contents' = Contents
    BY <1>1, SameLists
  <1>5. OnLists \subseteq Slots /\ OnLists' = OnLists
    BY <1>1, HeldSlots DEF OnLists
  <1>6. PoolTypes'
    BY <1>1, <1>3, <1>5 DEF PoolTypes, StepOf
  <1>7. Tidy(Contents)' /\ Held(Contents)' = Held(Contents)
    BY <1>4
  <1>8. Books'
    BY <1>1, <1>7, BooksStand
  <1>9. Fresh'
    BY <1>1 DEF Fresh
  <1>10. Calls'
    <2> SUFFICES ASSUME NEW p \in PoolOwners PROVE CallOf(p)'
      BY DEF Calls
    <2>1. CASE p # o
      BY <1>1, <1>3, <2>1, CallStands
    <2>2. CASE p = o
      <3>1. place = "recycle" => Len(cache[o]) < Refill
        BY <1>2, PoolAssumption
      <3> QED
        BY <1>1, <1>2, <1>3, <2>2, <3>1 DEF CallOf, At
    <2> QED
      BY <2>1, <2>2
  <1>11. Searches'
    <2> SUFFICES ASSUME NEW p \in PoolOwners PROVE SearchOf(p)'
      BY DEF Searches
    <2>1. CASE p # o
      <3>1. due'[p] = due[p] /\ \A s \in Shards : heads'[s] = heads[s]
        BY <1>1, <2>1
      <3>2. \A i \in due[p] : \E s \in Shards : i \in Range(heads[s])
        BY DEF Searches, SearchOf, OnLists
      <3> QED
        BY <1>3, <2>1, <3>1, <3>2, StandsStill
    <2>2. CASE p = o
      <3>1. due'[o] = OnLists'
        BY <1>1, <1>5
      <3>2. 0..(step'[o].shard - 1) = {}
        BY <1>3
      <3> QED
        BY <1>2, <1>3, <2>2, <3>1, <3>2 DEF SearchOf, At
    <2> QED
      BY <2>1, <2>2
  <1> QED
    BY <1>6, <1>7, <1>8, <1>9, <1>10, <1>11

\* The caller of a failed allocation goes on.
LEMMA FailedInv ==
  ASSUME PoolInv, NEW o \in PoolOwners, Failed(o)
  PROVE  PoolInv'
  <1> USE DEF PoolInv
  <1>1. /\ due' = [due EXCEPT ![o] = {}] /\ due \in [PoolOwners -> SUBSET Slots] /\ Goto(o, "idle", 0)
        /\ UNCHANGED <<live, gen, birth, heads, recycle, cache, retired>>
    BY DEF Failed, PoolTypes
  <1>3. /\ step' \in [PoolOwners -> StepOf]
        /\ \A p \in PoolOwners : p # o => step'[p] = step[p]
        /\ step'[o].at = "idle"
    BY <1>1, GotoIs, ZeroShard
  <1>4. Contents' = Contents
    BY <1>1, SameLists
  <1>6. PoolTypes'
    BY <1>1, <1>3 DEF PoolTypes, StepOf
  <1>7. Tidy(Contents)' /\ Held(Contents)' = Held(Contents)
    BY <1>4
  <1>8. Books'
    BY <1>1, <1>7, BooksStand
  <1>9. Fresh'
    BY <1>1 DEF Fresh
  <1>10. Calls'
    <2> SUFFICES ASSUME NEW p \in PoolOwners PROVE CallOf(p)'
      BY DEF Calls
    <2>1. CASE p # o
      BY <1>1, <1>3, <2>1, CallStands
    <2>2. CASE p = o
      BY <1>3, <2>2 DEF CallOf, At
    <2> QED
      BY <2>1, <2>2
  <1>11. Searches'
    <2> SUFFICES ASSUME NEW p \in PoolOwners PROVE SearchOf(p)'
      BY DEF Searches
    <2>1. CASE p # o
      <3>1. due'[p] = due[p] /\ \A s \in Shards : heads'[s] = heads[s]
        BY <1>1, <2>1
      <3>2. \A i \in due[p] : \E s \in Shards : i \in Range(heads[s])
        BY DEF Searches, SearchOf, OnLists
      <3> QED
        BY <1>3, <2>1, <3>1, <3>2, StandsStill
    <2>2. CASE p = o
      <3>1. due'[o] = {}
        BY <1>1
      <3> QED
        BY <1>3, <2>2, <3>1 DEF SearchOf, At
    <2> QED
      BY <2>1, <2>2
  <1> QED
    BY <1>6, <1>7, <1>8, <1>9, <1>10, <1>11

\* refillLocal takes handles from the owner's ring.
LEMMA RefillFromRingInv ==
  ASSUME PoolInv, NEW o \in PoolOwners, RefillFromRing(o)
  PROVE  PoolInv'
  <1> USE DEF PoolInv
  <1> DEFINE room == Refill - Len(cache[o])
             r == recycle[o]
             c == cache[o]
             place == IF Len(r) >= room THEN "take" ELSE "refill"
  <1>1. /\ At(o, "recycle")
        /\ cache' = [cache EXCEPT ![o] = c \o Moved(r, room)]
        /\ recycle' = [recycle EXCEPT ![o] = Rest(r, room)]
        /\ Goto(o, place, 0)
        /\ UNCHANGED <<live, gen, birth, heads, due, retired>>
    BY DEF RefillFromRing
  <1>2. r \in Seq(PoolHandles) /\ c \in Seq(PoolHandles) /\ Once(Indices(r)) /\ Once(Indices(c))
    BY HeldSlots
  <1>3. Len(c) < Refill /\ Len(c) \in Nat /\ Refill \in Nat /\ Len(r) \in Nat
    <2>1. Len(c) < Refill
      BY <1>1 DEF Calls, CallOf
    <2> QED
      BY <1>2, <2>1, PoolAssumption, LenProperties
  <1>4. room \in Nat /\ room # 0 /\ Len(c) + room = Refill
    <2> HIDE DEF c
    <2> QED
      BY <1>3 DEF c
  <1> HIDE DEF room, r, c
  <1>5. PICK m \in 0..Len(r) :
            /\ m = (IF Len(r) < room THEN Len(r) ELSE room)
            /\ Moved(r, room) = SubSeq(r, 1, m) /\ Len(Moved(r, room)) = m
            /\ Rest(r, room) = SubSeq(r, m + 1, Len(r))
    BY <1>2, <1>4, MovedShape
  <1> DEFINE u == SubSeq(r, 1, m)
             v == SubSeq(r, m + 1, Len(r))
  <1>6. u \in Seq(PoolHandles) /\ v \in Seq(PoolHandles) /\ Len(u) = m
    BY <1>2, CutShape
  <1>7. Range(u) \subseteq Range(r) /\ Range(v) \subseteq Range(r)
    BY <1>2, CutRange
  <1>8. /\ cache'[o] = c \o u /\ recycle'[o] = v
        /\ \A p \in PoolOwners : p # o => cache'[p] = cache[p] /\ recycle'[p] = recycle[p]
        /\ DOMAIN cache' = PoolOwners /\ DOMAIN recycle' = PoolOwners
        /\ cache' = [cache EXCEPT ![o] = c \o u] /\ recycle' = [recycle EXCEPT ![o] = v]
    BY <1>1, <1>5 DEF PoolTypes
  <1>9. Indices(u) = SubSeq(Indices(r), 1, m) /\ Indices(v) = SubSeq(Indices(r), m + 1, Len(Indices(r)))
    BY <1>2, IndicesCut
  <1> HIDE DEF u, v
  <1>10. Indices(c \o u) = Indices(c) \o Indices(u)
    BY <1>2, <1>6, IndicesJoin
  <1>11. c \o u \in Seq(PoolHandles) /\ Len(c \o u) = Len(c) + m /\ Range(c \o u) = Range(c) \cup Range(u)
    <2>1. c \o u \in Seq(PoolHandles) /\ Len(c \o u) = Len(c) + m
      BY <1>2, <1>6, ConcatProperties
    <2>2. Range(c \o u) = Range(c) \cup Range(u)
      BY <1>2, <1>6, RangeConcatenation
    <2> QED
      BY <2>1, <2>2
  <1>12. /\ step' \in [PoolOwners -> StepOf]
         /\ \A p \in PoolOwners : p # o => step'[p] = step[p]
         /\ step'[o].at = place
    BY <1>1, GotoIs, ZeroShard
  <1>13. PoolTypes'
    <2>1. cache' \in [PoolOwners -> Seq(PoolHandles)] /\ recycle' \in [PoolOwners -> Seq(PoolHandles)]
      BY <1>6, <1>8, <1>11 DEF PoolTypes
    <2> QED
      BY <1>1, <1>12, <2>1 DEF PoolTypes, StepOf
  <1>14. Tidy(Contents)' /\ Held(Contents)' = Held(Contents)
    <2> DEFINE a == <<"ring", o>>
               b == <<"cache", o>>
               L == Contents
               K == Contents'
    <2>1. a \in PoolLists /\ b \in PoolLists /\ a # b
      BY ListKinds
    <2>2. L[a] = Indices(r) /\ L[b] = Indices(c)
      BY ContentsAre DEF r, c
    <2>3. K[a] = Indices(v) /\ K[b] = Indices(c \o u)
      BY <1>8, ContentsWillBe
    <2>4. \A l \in PoolLists : l \notin {a, b} => K[l] = L[l]
      <3>1. \A s \in Shards : <<"shard", s>> \notin {a, b} => heads'[s] = heads[s]
        BY <1>1
      <3>2. \A p \in PoolOwners : <<"cache", p>> \notin {a, b} => cache'[p] = cache[p]
        BY <1>8
      <3>3. \A p \in PoolOwners : <<"ring", p>> \notin {a, b} => recycle'[p] = recycle[p]
        BY <1>8
      <3> HIDE DEF a, b
      <3> QED
        BY <3>1, <3>2, <3>3, SameElsewhere
    <2>5. m \in 0..Len(L[a])
      BY <1>2, <2>2, IndicesShape
    <2>6. K[a] = SubSeq(L[a], m + 1, Len(L[a])) /\ K[b] = L[b] \o SubSeq(L[a], 1, m)
      BY <1>9, <1>10, <2>2, <2>3
    <2>7. \A l \in PoolLists : l # a /\ l # b => K[l] = L[l]
      BY <2>4
    <2>8. Tidy(L)
      OBVIOUS
    <2> HIDE DEF a, b, L, K
    <2>9. Shifts(L, K, a, b, m)
      BY <2>1, <2>5, <2>6, <2>7 DEF Shifts
    <2>10. Tidy(K) /\ Held(K) = Held(L)
      BY <2>1, <2>8, <2>9, MoveLists
    <2> QED
      BY <2>10 DEF K, L
  <1>15. Books'
    BY <1>1, <1>14, BooksStand
  <1>16. Fresh'
    <2> SUFFICES ASSUME NEW p \in PoolOwners, NEW h \in Range(cache'[p]) \cup Range(recycle'[p])
                 PROVE  gen'[h.index] = h.gen
      BY DEF Fresh
    <2>1. h \in Range(cache[p]) \cup Range(recycle[p])
      BY <1>7, <1>8, <1>11 DEF c, r
    <2> QED
      BY <1>1, <2>1 DEF Fresh
  <1>17. Calls'
    <2> SUFFICES ASSUME NEW p \in PoolOwners PROVE CallOf(p)'
      BY DEF Calls
    <2>1. CASE p # o
      BY <1>8, <1>12, <2>1, CallStands
    <2>2. CASE p = o
      <3>1. CASE Len(r) >= room
        <4>1. Len(cache'[o]) = Len(c) + m /\ m = room
          BY <1>3, <1>4, <1>5, <1>8, <1>11, <3>1
        <4>2. cache'[o] # <<>>
          BY <1>3, <1>4, <4>1
        <4> QED
          BY <1>12, <2>2, <3>1, <4>2 DEF CallOf, At
      <3>2. CASE ~(Len(r) >= room)
        <4>1. Len(cache'[o]) = Len(c) + m /\ m < room
          BY <1>3, <1>4, <1>5, <1>8, <1>11, <3>2
        <4>2. Len(cache'[o]) < Refill
          BY <1>3, <1>4, <4>1
        <4> QED
          BY <1>12, <2>2, <3>2, <4>2 DEF CallOf, At
      <3> QED
        BY <3>1, <3>2
    <2> QED
      BY <2>1, <2>2
  <1>18. Searches'
    <2> SUFFICES ASSUME NEW p \in PoolOwners PROVE SearchOf(p)'
      BY DEF Searches
    <2>1. due'[p] = due[p] /\ \A s \in Shards : heads'[s] = heads[s]
      BY <1>1
    <2>2. \A i \in due[p] : \E s \in Shards : i \in Range(heads[s])
      BY DEF Searches, SearchOf, OnLists
    <2>3. CASE p # o
      BY <1>12, <2>1, <2>2, <2>3, StandsStill
    <2>4. CASE p = o
      <3>1. due'[p] \subseteq OnLists'
        BY <1>1 DEF Searches, SearchOf, OnLists
      <3>2. step'[o].at \notin {"steal", "failed"}
        BY <1>12
      <3> QED
        BY <2>4, <3>1, <3>2 DEF SearchOf, At
    <2> QED
      BY <2>3, <2>4
  <1> QED
    BY <1>13, <1>14, <1>15, <1>16, <1>17, <1>18

\* refillLocal takes slots from one shard.
LEMMA RefillFromShardInv ==
  ASSUME PoolInv, NEW o \in PoolOwners, RefillFromShard(o)
  PROVE  PoolInv'
  <1> USE DEF PoolInv
  <1> DEFINE j == step[o].shard
             s == (o + j) % NShards
             room == Refill - Len(cache[o])
             r == heads[s]
             c == cache[o]
             w == Moved(r, room)
             u == [k \in 1..Len(w) |-> Handle(w[k], gen[w[k]])]
             again == j + 1 < NShards /\ Len(w) < room
             place == IF again THEN "refill" ELSE IF cache'[o] = <<>> THEN "steal" ELSE "take"
             shard == IF again THEN j + 1 ELSE 0
  <1>1. /\ At(o, "refill")
        /\ cache' = [cache EXCEPT ![o] = c \o u]
        /\ heads' = [heads EXCEPT ![s] = Rest(r, room)]
        /\ due' = [p \in PoolOwners |-> due[p] \ Range(w)]
        /\ Goto(o, place, shard)
        /\ UNCHANGED <<live, gen, birth, recycle, retired>>
    BY DEF RefillFromShard, Taken
  <1>2. o \in Nat /\ j \in Nat /\ j \in Shards
    BY PoolAssumption DEF PoolTypes, Shards
  <1>3. s \in Shards /\ shard \in Shards
    <2>1. s \in Shards
      BY <1>2, RoundAll
    <2>2. shard \in Shards
      BY <1>2, PoolAssumption DEF Shards
    <2> QED
      BY <2>1, <2>2
  <1> HIDE DEF j, s
  <1>4. r \in Seq(Slots) /\ Once(r) /\ c \in Seq(PoolHandles) /\ Once(Indices(c))
    BY <1>3, HeldSlots
  <1>5. Len(c) < Refill /\ Len(c) \in Nat /\ Refill \in Nat /\ Len(r) \in Nat
    <2>1. Len(c) < Refill
      BY <1>1 DEF Calls, CallOf
    <2> QED
      BY <1>4, <2>1, PoolAssumption, LenProperties
  <1>6. room \in Nat /\ room # 0 /\ Len(c) + room = Refill
    <2> HIDE DEF c
    <2> QED
      BY <1>5 DEF c
  <1> HIDE DEF room, r, c
  <1>7. PICK m \in 0..Len(r) :
            /\ m = (IF Len(r) < room THEN Len(r) ELSE room)
            /\ Moved(r, room) = SubSeq(r, 1, m) /\ Len(Moved(r, room)) = m
            /\ Rest(r, room) = SubSeq(r, m + 1, Len(r))
    BY <1>4, <1>6, MovedShape
  <1> DEFINE v == SubSeq(r, m + 1, Len(r))
  <1>8. w = SubSeq(r, 1, m) /\ Len(w) = m /\ Rest(r, room) = v
    BY <1>7
  <1>9. w \in Seq(Slots) /\ v \in Seq(Slots)
    BY <1>4, <1>8, CutShape
  <1>10. Range(v) = Range(r) \ Range(w)
    BY <1>4, <1>8, CutList
  <1>11. gen \in [Slots -> 0..LastGen]
    BY DEF PoolTypes
  <1> HIDE DEF v, w
  <1>12. /\ u \in Seq(PoolHandles) /\ Indices(u) = w
         /\ \A h \in Range(u) : gen[h.index] = h.gen
    BY <1>9, <1>11, IndicesMade
  <1>13. Len(u) = m
    BY <1>8, <1>12, IndicesShape
  <1> HIDE DEF u
  <1>14. /\ cache'[o] = c \o u /\ heads'[s] = v
         /\ \A p \in PoolOwners : p # o => cache'[p] = cache[p]
         /\ \A t \in Shards : t # s => heads'[t] = heads[t]
         /\ cache' = [cache EXCEPT ![o] = c \o u] /\ heads' = [heads EXCEPT ![s] = v]
    BY <1>1, <1>3, <1>8 DEF PoolTypes
  <1>15. Indices(c \o u) = Indices(c) \o w
    BY <1>4, <1>12, IndicesJoin
  <1>16. c \o u \in Seq(PoolHandles) /\ Len(c \o u) = Len(c) + m /\ Range(c \o u) = Range(c) \cup Range(u)
    <2>1. c \o u \in Seq(PoolHandles) /\ Len(c \o u) = Len(c) + m
      BY <1>4, <1>12, <1>13, ConcatProperties
    <2>2. Range(c \o u) = Range(c) \cup Range(u)
      BY <1>4, <1>12, RangeConcatenation
    <2> QED
      BY <2>1, <2>2
  <1>17. /\ step' \in [PoolOwners -> StepOf]
         /\ \A p \in PoolOwners : p # o => step'[p] = step[p]
         /\ step'[o].at = place /\ step'[o].shard = shard
    <2>1. place \in {"idle", "recycle", "refill", "take", "steal", "failed"}
      OBVIOUS
    <2>2. Goto(o, place, shard)
      BY <1>1
    <2> HIDE DEF place, shard
    <2> QED
      BY <1>3, <2>1, <2>2, GotoIs
  <1>18. PoolTypes'
    <2>1. cache' \in [PoolOwners -> Seq(PoolHandles)]
      BY <1>14, <1>16 DEF PoolTypes
    <2>2. heads' \in [Shards -> Seq(Slots)]
      BY <1>9, <1>14 DEF PoolTypes
    <2>3. due' \in [PoolOwners -> SUBSET Slots]
      BY <1>1 DEF PoolTypes
    <2> QED
      BY <1>1, <1>17, <2>1, <2>2, <2>3 DEF PoolTypes, StepOf
  <1>19. Tidy(Contents)' /\ Held(Contents)' = Held(Contents)
    <2> DEFINE a == <<"shard", s>>
               b == <<"cache", o>>
               L == Contents
               K == Contents'
    <2>1. a \in PoolLists /\ b \in PoolLists /\ a # b
      BY <1>3, ListKinds
    <2>2. L[a] = r /\ L[b] = Indices(c)
      BY <1>3, ContentsAre DEF r, c
    <2>3. K[a] = v /\ K[b] = Indices(c \o u)
      BY <1>3, <1>14, ContentsWillBe
    <2>4. \A l \in PoolLists : l \notin {a, b} => K[l] = L[l]
      <3>1. \A t \in Shards : <<"shard", t>> \notin {a, b} => heads'[t] = heads[t]
        BY <1>14
      <3>2. \A p \in PoolOwners : <<"cache", p>> \notin {a, b} => cache'[p] = cache[p]
        BY <1>14
      <3>3. \A p \in PoolOwners : <<"ring", p>> \notin {a, b} => recycle'[p] = recycle[p]
        BY <1>1
      <3> HIDE DEF a, b
      <3> QED
        BY <3>1, <3>2, <3>3, SameElsewhere
    <2>5. m \in 0..Len(L[a])
      BY <2>2
    <2>6. K[a] = SubSeq(L[a], m + 1, Len(L[a])) /\ K[b] = L[b] \o SubSeq(L[a], 1, m)
      BY <1>8, <1>15, <2>2, <2>3 DEF v
    <2>7. \A l \in PoolLists : l # a /\ l # b => K[l] = L[l]
      BY <2>4
    <2>8. Tidy(L)
      OBVIOUS
    <2> HIDE DEF a, b, L, K
    <2>9. Shifts(L, K, a, b, m)
      BY <2>1, <2>5, <2>6, <2>7 DEF Shifts
    <2>10. Tidy(K) /\ Held(K) = Held(L)
      BY <2>1, <2>8, <2>9, MoveLists
    <2> QED
      BY <2>10 DEF K, L
  <1>20. Books'
    BY <1>1, <1>19, BooksStand
  <1>21. Fresh'
    <2> SUFFICES ASSUME NEW p \in PoolOwners, NEW h \in Range(cache'[p]) \cup Range(recycle'[p])
                 PROVE  gen'[h.index] = h.gen
      BY DEF Fresh
    <2>1. h \in Range(cache[p]) \cup Range(recycle[p]) \/ h \in Range(u)
      BY <1>1, <1>14, <1>16 DEF c
    <2> QED
      BY <1>1, <1>12, <2>1 DEF Fresh
  <1>22. Calls'
    <2> SUFFICES ASSUME NEW p \in PoolOwners PROVE CallOf(p)'
      BY DEF Calls
    <2>1. CASE p # o
      BY <1>14, <1>17, <2>1, CallStands
    <2>2. CASE p = o
      <3>1. CASE again
        <4>1. Len(cache'[o]) = Len(c) + m /\ m < room
          BY <1>8, <1>14, <1>16, <3>1
        <4>2. Len(cache'[o]) < Refill
          BY <1>5, <1>6, <4>1
        <4> QED
          BY <1>17, <2>2, <3>1, <4>2 DEF CallOf, At
      <3>2. CASE ~again
        BY <1>17, <2>2, <3>2 DEF CallOf, At
      <3> QED
        BY <3>1, <3>2
    <2> QED
      BY <2>1, <2>2
  <1>23. Searches'
    <2> SUFFICES ASSUME NEW p \in PoolOwners PROVE SearchOf(p)'
      BY DEF Searches
    <2>1. due'[p] = due[p] \ Range(w)
      BY <1>1
    <2>2. \A i \in due[p] : \E t \in Shards : i \in Range(heads[t])
      BY DEF Searches, SearchOf, OnLists
    <2>3. \A t \in Shards : \A i \in due'[p] : i \in Range(heads'[t]) <=> i \in Range(heads[t])
      <3> SUFFICES ASSUME NEW t \in Shards, NEW i \in due'[p] PROVE i \in Range(heads'[t]) <=> i \in Range(heads[t])
        OBVIOUS
      <3>1. CASE t # s
        BY <1>14, <3>1
      <3>2. CASE t = s
        BY <1>10, <1>14, <2>1, <3>2 DEF r
      <3> QED
        BY <3>1, <3>2
    <2>4. \A i \in due'[p] : \E t \in Shards : i \in Range(heads'[t])
      BY <2>1, <2>2, <2>3
    <2>5. CASE p # o
      BY <1>17, <2>1, <2>3, <2>4, <2>5, StandsStill
    <2>6. CASE p = o
      <3>1. due'[p] \subseteq OnLists'
        BY <2>4 DEF OnLists
      <3>2. CASE again
        BY <1>17, <2>6, <3>1, <3>2 DEF SearchOf, At
      <3>3. CASE ~again
        <4>1. 0..(step'[o].shard - 1) = {} /\ step'[o].at # "failed"
          BY <1>17, <3>3
        <4> QED
          BY <2>6, <3>1, <4>1 DEF SearchOf, At
      <3> QED
        BY <3>2, <3>3
    <2> QED
      BY <2>5, <2>6
  <1> QED
    BY <1>18, <1>19, <1>20, <1>21, <1>22, <1>23

\* What an allocation makes of the slot it takes: the books are kept.
LEMMA ClaimKeeps ==
  ASSUME PoolInv, NEW o \in PoolOwners, NEW h \in PoolHandles, Claim(o, h), UNCHANGED retired,
         h.index \in Held(Contents), gen[h.index] = h.gen,
         Held(Contents)' = Held(Contents) \ {h.index}
  PROVE  /\ gen' = gen /\ live' \in [Slots -> BOOLEAN]
         /\ birth' \in [Slots -> [owner : PoolOwners \cup {-1}, regime : {"local", "shared"}]]
         /\ Books'
  <1> DEFINE i == h.index
  <1>1. i \in Slots
    BY DEF PoolHandles
  <1>2. /\ live \in [Slots -> BOOLEAN] /\ gen \in [Slots -> 0..LastGen]
        /\ birth \in [Slots -> [owner : PoolOwners \cup {-1}, regime : {"local", "shared"}]]
    BY DEF PoolInv, PoolTypes
  <1>3. gen' = gen
    BY <1>1, <1>2 DEF Claim
  <1>4. live' = [live EXCEPT ![i] = TRUE]
    BY DEF Claim
  <1>5. PICK r \in {"local", "shared"} : birth' = [birth EXCEPT ![i] = [owner |-> o, regime |-> r]]
    BY DEF Claim
  <1>6. /\ live' \in [Slots -> BOOLEAN]
        /\ birth' \in [Slots -> [owner : PoolOwners \cup {-1}, regime : {"local", "shared"}]]
    BY <1>1, <1>2, <1>4, <1>5
  <1>7. /\ live'[i] /\ \A k \in Slots : k # i => live'[k] = live[k]
        /\ birth'[i].owner = o /\ \A k \in Slots : k # i => birth'[k] = birth[k]
    BY <1>1, <1>2, <1>4, <1>5
  <1>8. i \notin retired
    BY <1>1 DEF PoolInv, Books
  <1>9. ASSUME NEW k \in Slots
        PROVE  /\ k \in Held(Contents)' <=> ~live'[k] /\ k \notin retired'
               /\ live'[k] => k \notin retired' /\ birth'[k].owner \in PoolOwners
    <2>1. CASE k = i
      BY <1>7, <1>8, <2>1
    <2>2. CASE k # i
      BY <1>7, <2>2 DEF PoolInv, Books
    <2> QED
      BY <2>1, <2>2
  <1>10. Books'
    BY <1>9 DEF Books
  <1> QED
    BY <1>3, <1>6, <1>10

\* allocInto takes the newest handle of the cache.
LEMMA TakeCachedInv ==
  ASSUME PoolInv, NEW o \in PoolOwners, TakeCached(o)
  PROVE  PoolInv'
  <1> USE DEF PoolInv
  <1> DEFINE c == cache[o]
             n == Len(c)
             h == c[n]
             x == Indices(c)
             v == SubSeq(c, 1, n - 1)
  <1>1. /\ At(o, "take") /\ Claim(o, h) /\ cache' = [cache EXCEPT ![o] = v] /\ Goto(o, "idle", 0)
        /\ due' = [due EXCEPT ![o] = {}] /\ UNCHANGED <<heads, recycle, retired>>
    BY DEF TakeCached
  <1>2. c \in Seq(PoolHandles) /\ Once(x) /\ c # <<>>
    <2>1. c # <<>>
      BY <1>1 DEF Calls, CallOf
    <2> QED
      BY <2>1, HeldSlots
  <1>3. /\ x \in Seq(Slots) /\ Len(x) = n /\ n \in Nat
        /\ \A k \in 1..n : x[k] = c[k].index /\ c[k] \in PoolHandles
    BY <1>2, IndicesShape
  <1>4. n # 0 /\ n \in 1..n /\ n - 1 \in 0..n
    <2>1. n \in Nat \ {0}
      BY <1>2, EmptySeq
    <2> HIDE DEF n
    <2> QED
      BY <2>1
  <1>5. h \in PoolHandles /\ h \in Range(c) /\ x[n] = h.index
    BY <1>2, <1>3, <1>4, RangeIs
  <1>6. v \in Seq(PoolHandles) /\ Range(v) \subseteq Range(c)
    <2> DEFINE m == n - 1
    <2>1. m \in 0..Len(c)
      BY <1>4
    <2> HIDE DEF m
    <2>2. SubSeq(c, 1, m) \in Seq(PoolHandles)
      BY <1>2, <2>1, CutShape
    <2>3. Range(SubSeq(c, 1, m)) \subseteq Range(c)
      BY <1>2, <2>1, CutRange
    <2> QED
      BY <2>2, <2>3 DEF m
  <1>7. Indices(v) = SubSeq(x, 1, n - 1)
    <2> DEFINE m == n - 1
    <2>1. m \in 0..Len(c)
      BY <1>4
    <2> HIDE DEF m, x
    <2>2. Indices(SubSeq(c, 1, m)) = SubSeq(Indices(c), 1, m)
      BY <1>2, <2>1, IndicesCut
    <2> QED
      BY <2>2 DEF m, x
  <1> HIDE DEF x
  <1>8. x # <<>>
    <2>1. Len(<<>>) = 0
      OBVIOUS
    <2> HIDE DEF n
    <2> QED
      BY <1>3, <1>4, <2>1
  <1>9. /\ SubSeq(x, 1, n - 1) \in Seq(Slots) /\ Once(SubSeq(x, 1, n - 1))
        /\ x[n] \in Range(x) /\ Range(SubSeq(x, 1, n - 1)) = Range(x) \ {x[n]}
    <2>1. /\ SubSeq(x, 1, Len(x) - 1) \in Seq(Slots) /\ Once(SubSeq(x, 1, Len(x) - 1))
          /\ x[Len(x)] \in Range(x) /\ Range(SubSeq(x, 1, Len(x) - 1)) = Range(x) \ {x[Len(x)]}
      BY <1>2, <1>3, <1>8, TakeLast
    <2> QED
      BY <1>3, <2>1
  <1> HIDE DEF v, h, n, c
  <1>10. /\ cache'[o] = v
         /\ \A p \in PoolOwners : p # o => cache'[p] = cache[p]
    BY <1>1 DEF PoolTypes
  <1>11. Tidy(Contents)' /\ Held(Contents)' = Held(Contents) \ {h.index}
    <2> DEFINE a == <<"cache", o>>
               L == Contents
               K == Contents'
               e == h.index
    <2>1. a \in PoolLists
      BY ListKinds
    <2>2. L[a] = x
      BY ContentsAre DEF c, x
    <2>3. K[a] = SubSeq(x, 1, n - 1)
      BY <1>7, <1>10, ContentsWillBe
    <2>4. \A l \in PoolLists : l \notin {a} => K[l] = L[l]
      <3>1. \A t \in Shards : <<"shard", t>> \notin {a} => heads'[t] = heads[t]
        BY <1>1
      <3>2. \A p \in PoolOwners : <<"cache", p>> \notin {a} => cache'[p] = cache[p]
        BY <1>10
      <3>3. \A p \in PoolOwners : <<"ring", p>> \notin {a} => recycle'[p] = recycle[p]
        BY <1>1
      <3> HIDE DEF a
      <3> QED
        BY <3>1, <3>2, <3>3, SameElsewhere
    <2>5. Tidy(L)
      OBVIOUS
    <2> HIDE DEF a, L, K
    <2>6. Drops(L, K, a, e)
      BY <1>5, <1>9, <2>2, <2>3, <2>4 DEF Drops
    <2>7. Tidy(K) /\ Held(K) = Held(L) \ {e}
      BY <2>1, <2>5, <2>6, DropOne
    <2> QED
      BY <2>7 DEF K, L
  <1>12. h.index \in Held(Contents) /\ gen[h.index] = h.gen
    BY <1>5, HeldSlots DEF Fresh, c
  <1>13. /\ gen' = gen /\ live' \in [Slots -> BOOLEAN]
         /\ birth' \in [Slots -> [owner : PoolOwners \cup {-1}, regime : {"local", "shared"}]]
         /\ Books'
    BY <1>1, <1>5, <1>11, <1>12, ClaimKeeps
  <1>14. /\ step' \in [PoolOwners -> StepOf]
         /\ \A p \in PoolOwners : p # o => step'[p] = step[p]
         /\ step'[o].at = "idle"
    BY <1>1, GotoIs, ZeroShard
  <1>15. PoolTypes'
    <2>1. cache' \in [PoolOwners -> Seq(PoolHandles)]
      BY <1>1, <1>6 DEF PoolTypes
    <2>2. due' \in [PoolOwners -> SUBSET Slots]
      BY <1>1 DEF PoolTypes
    <2> QED
      BY <1>1, <1>13, <1>14, <2>1, <2>2 DEF PoolTypes, StepOf
  <1>16. Fresh'
    <2> SUFFICES ASSUME NEW p \in PoolOwners, NEW g \in Range(cache'[p]) \cup Range(recycle'[p])
                 PROVE  gen'[g.index] = g.gen
      BY DEF Fresh
    <2>1. g \in Range(cache[p]) \cup Range(recycle[p])
      BY <1>1, <1>6, <1>10 DEF c
    <2> QED
      BY <1>13, <2>1 DEF Fresh
  <1>17. Calls'
    <2> SUFFICES ASSUME NEW p \in PoolOwners PROVE CallOf(p)'
      BY DEF Calls
    <2>1. CASE p # o
      BY <1>10, <1>14, <2>1, CallStands
    <2>2. CASE p = o
      BY <1>14, <2>2 DEF CallOf, At
    <2> QED
      BY <2>1, <2>2
  <1>18. Searches'
    <2> SUFFICES ASSUME NEW p \in PoolOwners PROVE SearchOf(p)'
      BY DEF Searches
    <2>1. CASE p # o
      <3>1. due'[p] = due[p] /\ \A t \in Shards : heads'[t] = heads[t]
        BY <1>1, <2>1 DEF PoolTypes
      <3>2. \A i \in due[p] : \E t \in Shards : i \in Range(heads[t])
        BY DEF Searches, SearchOf, OnLists
      <3> QED
        BY <1>14, <2>1, <3>1, <3>2, StandsStill
    <2>2. CASE p = o
      <3>1. due'[o] = {}
        BY <1>1 DEF PoolTypes
      <3> QED
        BY <1>14, <2>2, <3>1 DEF SearchOf, At
    <2> QED
      BY <2>1, <2>2
  <1> QED
    BY <1>11, <1>13, <1>15, <1>16, <1>17, <1>18

\* The free list popFrom looks at.
NextList(o) == heads[(o + step[o].shard) % NShards]

\* popFrom finds a slot.
LEMMA StealTakesInv ==
  ASSUME PoolInv, NEW o \in PoolOwners, Steal(o), NextList(o) # <<>>
  PROVE  PoolInv'
  <1> USE DEF PoolInv
  <1> DEFINE j == step[o].shard
             s == (o + j) % NShards
             r == heads[s]
             e == Head(r)
             v == Tail(r)
             h == Handle(e, gen[e])
  <1>1. /\ Claim(o, h) /\ heads' = [heads EXCEPT ![s] = v] /\ Goto(o, "idle", 0)
        /\ due' = [p \in PoolOwners |-> IF p = o THEN {} ELSE due[p] \ {e}]
        /\ UNCHANGED <<recycle, cache, retired>>
    BY DEF Steal, NextList
  <1>2. s \in Shards
    <2>1. o \in Nat /\ j \in Nat
      BY PoolAssumption DEF PoolTypes, Shards
    <2> QED
      BY <2>1, RoundAll
  <1>3. r # <<>>
    BY DEF NextList
  <1> HIDE DEF j, s
  <1>4. r \in Seq(Slots) /\ Once(r) /\ Range(r) \subseteq Held(Contents) /\ Range(r) \subseteq Slots
    BY <1>2, HeldSlots
  <1> HIDE DEF r
  <1>5. v \in Seq(Slots) /\ Once(v) /\ e \in Range(r) /\ Range(v) = Range(r) \ {e}
    BY <1>3, <1>4, TakeHead
  <1> HIDE DEF v, e
  <1>6. h \in PoolHandles /\ h.index = e /\ h.gen = gen[e]
    BY <1>4, <1>5 DEF Handle, PoolHandles, PoolTypes
  <1> HIDE DEF h
  <1>7. heads'[s] = v /\ \A t \in Shards : t # s => heads'[t] = heads[t]
    BY <1>1, <1>2 DEF PoolTypes
  <1>8. Tidy(Contents)' /\ Held(Contents)' = Held(Contents) \ {h.index}
    <2> DEFINE a == <<"shard", s>>
               L == Contents
               K == Contents'
    <2>1. a \in PoolLists
      BY <1>2, ListKinds
    <2>2. L[a] = r
      BY <1>2, ContentsAre DEF r
    <2>3. K[a] = v
      BY <1>2, <1>7, ContentsWillBe
    <2>4. \A l \in PoolLists : l \notin {a} => K[l] = L[l]
      <3>1. \A t \in Shards : <<"shard", t>> \notin {a} => heads'[t] = heads[t]
        BY <1>7
      <3>2. \A p \in PoolOwners : <<"cache", p>> \notin {a} => cache'[p] = cache[p]
        BY <1>1
      <3>3. \A p \in PoolOwners : <<"ring", p>> \notin {a} => recycle'[p] = recycle[p]
        BY <1>1
      <3> HIDE DEF a
      <3> QED
        BY <3>1, <3>2, <3>3, SameElsewhere
    <2>5. Tidy(L)
      OBVIOUS
    <2> HIDE DEF a, L, K
    <2>6. Drops(L, K, a, e)
      BY <1>5, <2>2, <2>3, <2>4 DEF Drops
    <2>7. Tidy(K) /\ Held(K) = Held(L) \ {e}
      BY <2>1, <2>5, <2>6, DropOne
    <2> QED
      BY <1>6, <2>7 DEF K, L
  <1>9. h.index \in Held(Contents) /\ gen[h.index] = h.gen
    BY <1>4, <1>5, <1>6
  <1>10. /\ gen' = gen /\ live' \in [Slots -> BOOLEAN]
         /\ birth' \in [Slots -> [owner : PoolOwners \cup {-1}, regime : {"local", "shared"}]]
         /\ Books'
    BY <1>1, <1>6, <1>8, <1>9, ClaimKeeps
  <1>11. /\ step' \in [PoolOwners -> StepOf]
         /\ \A p \in PoolOwners : p # o => step'[p] = step[p]
         /\ step'[o].at = "idle"
    BY <1>1, GotoIs, ZeroShard
  <1>12. PoolTypes'
    <2>1. heads' \in [Shards -> Seq(Slots)]
      BY <1>1, <1>5 DEF PoolTypes
    <2>2. due' \in [PoolOwners -> SUBSET Slots]
      BY <1>1 DEF PoolTypes
    <2> QED
      BY <1>1, <1>10, <1>11, <2>1, <2>2 DEF PoolTypes, StepOf
  <1>13. Fresh'
    BY <1>1, <1>10 DEF Fresh
  <1>14. Calls'
    <2> SUFFICES ASSUME NEW p \in PoolOwners PROVE CallOf(p)'
      BY DEF Calls
    <2>1. CASE p # o
      BY <1>1, <1>11, <2>1, CallStands
    <2>2. CASE p = o
      BY <1>11, <2>2 DEF CallOf, At
    <2> QED
      BY <2>1, <2>2
  <1>15. Searches'
    <2> SUFFICES ASSUME NEW p \in PoolOwners PROVE SearchOf(p)'
      BY DEF Searches
    <2>1. CASE p # o
      <3>1. due'[p] = due[p] \ {e}
        BY <1>1, <2>1
      <3>2. \A i \in due[p] : \E t \in Shards : i \in Range(heads[t])
        BY DEF Searches, SearchOf, OnLists
      <3>3. \A t \in Shards : \A i \in due'[p] : i \in Range(heads'[t]) <=> i \in Range(heads[t])
        <4> SUFFICES ASSUME NEW t \in Shards, NEW i \in due'[p]
                     PROVE  i \in Range(heads'[t]) <=> i \in Range(heads[t])
          OBVIOUS
        <4>1. CASE t # s
          BY <1>7, <4>1
        <4>2. CASE t = s
          BY <1>5, <1>7, <3>1, <4>2 DEF r
        <4> QED
          BY <4>1, <4>2
      <3>4. \A i \in due'[p] : \E t \in Shards : i \in Range(heads'[t])
        BY <3>1, <3>2, <3>3
      <3> QED
        BY <1>11, <2>1, <3>1, <3>3, <3>4, StandsStill
    <2>2. CASE p = o
      <3>1. due'[o] = {}
        BY <1>1
      <3> QED
        BY <1>11, <2>2, <3>1 DEF SearchOf, At
    <2> QED
      BY <2>1, <2>2
  <1>16. Books'
    BY <1>10
  <1>17. Tidy(Contents)'
    BY <1>8
  <1> QED
    BY <1>12, <1>13, <1>14, <1>15, <1>16, <1>17

\* popFrom finds an empty shard: the search goes on, or fails when it has met them all.
LEMMA StealPassesInv ==
  ASSUME PoolInv, NEW o \in PoolOwners, Steal(o), NextList(o) = <<>>
  PROVE  PoolInv'
  <1> USE DEF PoolInv
  <1> DEFINE j == step[o].shard
             more == j + 1 < NShards
             place == IF more THEN "steal" ELSE "failed"
             shard == IF more THEN j + 1 ELSE 0
  <1>1. /\ At(o, "steal") /\ Goto(o, place, shard)
        /\ UNCHANGED <<live, gen, birth, heads, due, recycle, cache, retired>>
    BY DEF Steal, LastSteal, NextList
  <1>2. o \in Nat /\ j \in Nat /\ j \in Shards /\ j < NShards
    BY PoolAssumption DEF PoolTypes, Shards
  <1>3. shard \in Shards
    BY <1>2, PoolAssumption DEF Shards
  <1>4. /\ step' \in [PoolOwners -> StepOf]
        /\ \A p \in PoolOwners : p # o => step'[p] = step[p]
        /\ step'[o].at = place /\ step'[o].shard = shard
    <2>1. place \in {"idle", "recycle", "refill", "take", "steal", "failed"}
      OBVIOUS
    <2>2. Goto(o, place, shard)
      BY <1>1
    <2> HIDE DEF place, shard
    <2> QED
      BY <1>3, <2>1, <2>2, GotoIs
  <1>5. Contents' = Contents
    BY <1>1, SameLists
  <1>6. PoolTypes'
    BY <1>1, <1>4 DEF PoolTypes, StepOf
  <1>7. Tidy(Contents)' /\ Held(Contents)' = Held(Contents)
    BY <1>5
  <1>8. Books'
    BY <1>1, <1>7, BooksStand
  <1>9. Fresh'
    BY <1>1 DEF Fresh
  <1>10. Calls'
    <2> SUFFICES ASSUME NEW p \in PoolOwners PROVE CallOf(p)'
      BY DEF Calls
    <2>1. CASE p # o
      BY <1>1, <1>4, <2>1, CallStands
    <2>2. CASE p = o
      BY <1>4, <2>2 DEF CallOf, At
    <2> QED
      BY <2>1, <2>2
  <1>11. \A k \in 0..j : Range(heads[(o + k) % NShards]) \cap due[o] = {}
    <2> SUFFICES ASSUME NEW k \in 0..j PROVE Range(heads[(o + k) % NShards]) \cap due[o] = {}
      OBVIOUS
    <2>1. CASE k = j
      <3>1. heads[(o + k) % NShards] = <<>>
        BY <2>1 DEF NextList
      <3>2. Range(<<>>) = {}
        BY DEF Range
      <3> QED
        BY <3>1, <3>2
    <2>2. CASE k # j
      <3>1. k \in 0..(j - 1)
        BY <1>2, <2>2
      <3> QED
        BY <1>1, <3>1 DEF Searches, SearchOf
    <2> QED
      BY <2>1, <2>2
  <1> HIDE DEF j
  <1>12. Searches'
    <2> SUFFICES ASSUME NEW p \in PoolOwners PROVE SearchOf(p)'
      BY DEF Searches
    <2>1. \A i \in due[p] : \E t \in Shards : i \in Range(heads[t])
      BY DEF Searches, SearchOf, OnLists
    <2>2. CASE p # o
      BY <1>1, <1>4, <2>1, <2>2, StandsStill
    <2>3. CASE p = o
      <3>1. due'[o] = due[o] /\ due'[o] \subseteq OnLists'
        BY <1>1 DEF Searches, SearchOf, OnLists
      <3>2. CASE more
        <4>1. 0..(step'[o].shard - 1) = 0..j
          BY <1>2, <1>4, <3>2
        <4>2. \A k \in 0..(step'[o].shard - 1) : Range(heads'[(o + k) % NShards]) \cap due'[o] = {}
          BY <1>1, <1>11, <4>1
        <4>3. step'[o].at = "steal"
          BY <1>4, <3>2
        <4> QED
          BY <2>3, <3>1, <4>2, <4>3 DEF SearchOf, At
      <3>3. CASE ~more
        <4>1. Shards \subseteq 0..j
          BY <1>2, <3>3, PoolAssumption DEF Shards
        <4>2. \A t \in Shards : Range(heads[t]) \cap due[o] = {}
          BY <1>2, <1>11, <4>1, RoundAll
        <4>3. due[o] = {}
          BY <2>1, <2>3, <4>2
        <4>4. step'[o].at = "failed"
          BY <1>4, <3>3
        <4> QED
          BY <2>3, <3>1, <4>3, <4>4 DEF SearchOf, At
      <3> QED
        BY <3>2, <3>3
    <2> QED
      BY <2>2, <2>3
  <1> QED
    BY <1>6, <1>7, <1>8, <1>9, <1>10, <1>12

\* A slot put in front of, or behind, a list it is not in.
LEMMA PutOne ==
  ASSUME NEW s \in Seq(Slots), Once(s), NEW i \in Slots, i \notin Range(s)
  PROVE  /\ <<i>> \o s \in Seq(Slots) /\ Once(<<i>> \o s) /\ Range(<<i>> \o s) = Range(s) \cup {i}
         /\ s \o <<i>> \in Seq(Slots) /\ Once(s \o <<i>>) /\ Range(s \o <<i>>) = Range(s) \cup {i}
  <1> DEFINE t == <<i>>
  <1>1. t \in Seq(Slots) /\ Once(t) /\ Range(t) = {i}
    BY OneList
  <1> HIDE DEF t
  <1>2. Range(s) \cap Range(t) = {} /\ Range(t) \cap Range(s) = {}
    BY <1>1
  <1>3. s \o t \in Seq(Slots) /\ Once(s \o t)
    BY <1>1, <1>2, JoinList
  <1>4. t \o s \in Seq(Slots) /\ Once(t \o s)
    BY <1>1, <1>2, JoinList
  <1>5. Range(s \o t) = Range(s) \cup Range(t)
    BY <1>1, RangeConcatenation
  <1>6. Range(t \o s) = Range(t) \cup Range(s)
    BY <1>1, RangeConcatenation
  <1>7. Range(s \o t) = Range(s) \cup {i} /\ Range(t \o s) = Range(s) \cup {i}
    BY <1>1, <1>5, <1>6
  <1> QED
    BY <1>3, <1>4, <1>7 DEF t

\* The free of a slot that no list holds: the rest of the invariant, whichever list
\* takes it in.
LEMMA FreedInv ==
  ASSUME PoolInv, NEW i \in Slots, live[i], live' = [live EXCEPT ![i] = FALSE],
         gen' = [gen EXCEPT ![i] = gen[i] + 1], gen[i] # LastGen,
         UNCHANGED <<birth, cache, step, due, retired>>,
         recycle' \in [PoolOwners -> Seq(PoolHandles)], heads' \in [Shards -> Seq(Slots)],
         Tidy(Contents)', Held(Contents)' = Held(Contents) \cup {i},
         \A s \in Shards : Range(heads[s]) \subseteq Range(heads'[s]) /\ Range(heads'[s]) \subseteq Range(heads[s]) \cup {i},
         \A o \in PoolOwners : \A h \in Range(recycle'[o]) :
            h \in Range(recycle[o]) \/ h = Handle(i, gen[i] + 1)
  PROVE  PoolInv'
  <1> USE DEF PoolInv
  <1>1. /\ live \in [Slots -> BOOLEAN] /\ gen \in [Slots -> 0..LastGen] /\ LastGen \in Nat
        /\ i \notin Held(Contents) /\ i \notin retired /\ birth[i].owner \in PoolOwners
    BY PoolAssumption DEF PoolTypes, Books
  <1>2. gen[i] + 1 \in 0..LastGen
    BY <1>1
  <1>3. /\ live' \in [Slots -> BOOLEAN] /\ gen' \in [Slots -> 0..LastGen]
        /\ ~live'[i] /\ gen'[i] = gen[i] + 1
        /\ \A k \in Slots : k # i => live'[k] = live[k] /\ gen'[k] = gen[k]
    BY <1>1, <1>2
  <1>4. PoolTypes'
    BY <1>3 DEF PoolTypes
  <1>5. Books'
    <2>1. ASSUME NEW k \in Slots
          PROVE  /\ k \in Held(Contents)' <=> ~live'[k] /\ k \notin retired'
                 /\ live'[k] => k \notin retired' /\ birth'[k].owner \in PoolOwners
      <3>1. CASE k = i
        BY <1>1, <1>3, <3>1
      <3>2. CASE k # i
        BY <1>3, <3>2 DEF Books
      <3> QED
        BY <3>1, <3>2
    <2> QED
      BY <2>1 DEF Books
  <1>6. Fresh'
    <2> SUFFICES ASSUME NEW o \in PoolOwners, NEW h \in Range(cache'[o]) \cup Range(recycle'[o])
                 PROVE  gen'[h.index] = h.gen
      BY DEF Fresh
    <2>1. CASE h \in Range(cache[o]) \cup Range(recycle[o])
      <3>1. h \in PoolHandles /\ h.index \in Held(Contents) /\ gen[h.index] = h.gen
        BY <2>1, HeldSlots DEF Fresh
      <3>2. h.index \in Slots /\ h.index # i
        BY <1>1, <3>1 DEF PoolHandles
      <3> QED
        BY <1>3, <3>1, <3>2
    <2>2. CASE h = Handle(i, gen[i] + 1)
      BY <1>3, <2>2 DEF Handle
    <2> QED
      BY <2>1, <2>2
  <1>7. Calls'
    BY CallStands DEF Calls
  <1>8. Searches'
    <2> SUFFICES ASSUME NEW p \in PoolOwners PROVE SearchOf(p)'
      BY DEF Searches
    <2>1. \A k \in due[p] : \E t \in Shards : k \in Range(heads[t])
      BY DEF Searches, SearchOf, OnLists
    <2>2. \A k \in due[p] : k # i
      BY <1>1, <2>1, HeldSlots
    <2>3. due'[p] = due[p] /\ step'[p] = step[p]
      OBVIOUS
    <2>4. \A k \in due'[p] : \E t \in Shards : k \in Range(heads'[t])
      BY <2>1, <2>3
    <2>5. \A t \in Shards : \A k \in due'[p] : k \in Range(heads'[t]) => k \in Range(heads[t])
      BY <2>2, <2>3
    <2> QED
      BY <2>3, <2>4, <2>5, StandsStill
  <1> QED
    BY <1>4, <1>5, <1>6, <1>7, <1>8

\* free, by the collector or by the owner of a local cell.
LEMMA FreeInv ==
  ASSUME PoolInv, NEW i \in Slots, Free(Handle(i, gen[i]))
  PROVE  PoolInv'
  <1> USE DEF PoolInv
  <1> DEFINE o == birth[i].owner
             z == Handle(i, gen[i] + 1)
  <1>1. Handle(i, gen[i]).index = i /\ Handle(i, gen[i]).gen = gen[i]
    BY DEF Handle
  <1>2. /\ live[i] /\ live' = [live EXCEPT ![i] = FALSE] /\ UNCHANGED <<birth, cache, step, due>>
        /\ \/ gen[i] = LastGen /\ retired' = retired \cup {i} /\ UNCHANGED <<gen, heads, recycle>>
           \/ /\ gen[i] # LastGen /\ gen' = [gen EXCEPT ![i] = gen[i] + 1] /\ UNCHANGED retired
              /\ \/ recycle' = [recycle EXCEPT ![o] = Append(@, z)] /\ UNCHANGED heads
                 \/ heads' = [heads EXCEPT ![ShardOf(i)] = <<i>> \o @] /\ UNCHANGED recycle
    <2>1. RecycledAs(i) = gen[i] + 1
      BY DEF RecycledAs
    <2> QED
      BY <1>1, <2>1 DEF Free, Spill
  <1>3. /\ live \in [Slots -> BOOLEAN] /\ gen \in [Slots -> 0..LastGen] /\ LastGen \in Nat
        /\ heads \in [Shards -> Seq(Slots)]
        /\ recycle \in [PoolOwners -> Seq(PoolHandles)]
        /\ i \notin Held(Contents) /\ i \notin retired /\ o \in PoolOwners
    BY <1>2, PoolAssumption DEF PoolTypes, Books
  <1> HIDE DEF o
  <1>4. CASE gen[i] = LastGen /\ retired' = retired \cup {i} /\ UNCHANGED <<gen, heads, recycle>>
    <2>1. Contents' = Contents
      BY <1>2, <1>4, SameLists
    <2>2. Tidy(Contents)' /\ Held(Contents)' = Held(Contents)
      BY <2>1
    <2>3. live' \in [Slots -> BOOLEAN] /\ ~live'[i] /\ \A k \in Slots : k # i => live'[k] = live[k]
      BY <1>2, <1>3
    <2>4. PoolTypes'
      BY <1>2, <1>4, <2>3 DEF PoolTypes
    <2>5. Books'
      <3>1. ASSUME NEW k \in Slots
            PROVE  /\ k \in Held(Contents)' <=> ~live'[k] /\ k \notin retired'
                   /\ live'[k] => k \notin retired' /\ birth'[k].owner \in PoolOwners
        <4>1. CASE k = i
          BY <1>3, <1>4, <2>2, <2>3, <4>1
        <4>2. CASE k # i
          BY <1>2, <1>4, <2>2, <2>3, <4>2 DEF Books
        <4> QED
          BY <4>1, <4>2
      <3> QED
        BY <3>1 DEF Books
    <2>6. Fresh'
      BY <1>2, <1>4 DEF Fresh
    <2>7. Calls'
      BY <1>2, CallStands DEF Calls
    <2>8. Searches'
      <3> SUFFICES ASSUME NEW p \in PoolOwners PROVE SearchOf(p)'
        BY DEF Searches
      <3>1. \A k \in due[p] : \E t \in Shards : k \in Range(heads[t])
        BY DEF Searches, SearchOf, OnLists
      <3> QED
        BY <1>2, <1>4, <3>1, StandsStill
    <2> QED
      BY <2>2, <2>4, <2>5, <2>6, <2>7, <2>8
  <1>5. CASE /\ gen[i] # LastGen /\ gen' = [gen EXCEPT ![i] = gen[i] + 1] /\ UNCHANGED retired
             /\ recycle' = [recycle EXCEPT ![o] = Append(@, z)] /\ UNCHANGED heads
    <2> DEFINE r == recycle[o]
    <2>1. z \in PoolHandles /\ z.index = i
      <3>1. gen[i] + 1 \in 0..LastGen
        BY <1>3, <1>5
      <3> QED
        BY <3>1 DEF Handle, PoolHandles
    <2>2. r \in Seq(PoolHandles) /\ Once(Indices(r)) /\ Indices(r) \in Seq(Slots)
      BY <1>3, HeldSlots, IndicesShape
    <2> HIDE DEF z
    <2>3. /\ recycle'[o] = Append(r, z)
          /\ \A p \in PoolOwners : p # o => recycle'[p] = recycle[p]
      BY <1>3, <1>5
    <2> HIDE DEF r
    <2>4. Append(r, z) = r \o <<z>> /\ Append(r, z) \in Seq(PoolHandles)
      BY <2>1, <2>2, AppendIsConcat, AppendProperties
    <2>5. <<z>> \in Seq(PoolHandles) /\ Range(<<z>>) = {z}
      BY <2>1, OneList
    <2>6. Indices(Append(r, z)) = Indices(r) \o <<i>>
      <3>1. Indices(r \o <<z>>) = Indices(r) \o Indices(<<z>>)
        BY <2>2, <2>5, IndicesJoin
      <3>2. Indices(<<z>>) = <<i>>
        BY <2>1, IndicesOne
      <3> QED
        BY <2>4, <3>1, <3>2
    <2>7. Range(Append(r, z)) = Range(r) \cup {z}
      <3>1. Range(r \o <<z>>) = Range(r) \cup Range(<<z>>)
        <4> DEFINE y == <<z>>
        <4>1. y \in Seq(PoolHandles)
          BY <2>5
        <4> HIDE DEF y
        <4>2. Range(r \o y) = Range(r) \cup Range(y)
          BY <2>2, <4>1, RangeConcatenation
        <4> QED
          BY <4>2 DEF y
      <3> QED
        BY <2>4, <2>5, <3>1
    <2>8. recycle' \in [PoolOwners -> Seq(PoolHandles)]
      BY <1>3, <1>5, <2>4 DEF r
    <2>9. Tidy(Contents)' /\ Held(Contents)' = Held(Contents) \cup {i}
      <3> DEFINE a == <<"ring", o>>
                 L == Contents
                 K == Contents'
      <3>1. a \in PoolLists
        BY <1>3, ListKinds
      <3>2. L[a] = Indices(r)
        BY <1>3, ContentsAre DEF r
      <3>3. K[a] = Indices(r) \o <<i>>
        BY <1>3, <2>3, <2>6, ContentsWillBe
      <3>4. \A l \in PoolLists : l \notin {a} => K[l] = L[l]
        <4>1. \A t \in Shards : <<"shard", t>> \notin {a} => heads'[t] = heads[t]
          BY <1>5
        <4>2. \A p \in PoolOwners : <<"cache", p>> \notin {a} => cache'[p] = cache[p]
          BY <1>2
        <4>3. \A p \in PoolOwners : <<"ring", p>> \notin {a} => recycle'[p] = recycle[p]
          BY <2>3
        <4> HIDE DEF a
        <4> QED
          BY <4>1, <4>2, <4>3, SameElsewhere
      <3>5. Tidy(L) /\ i \notin Held(L)
        BY <1>3
      <3> HIDE DEF a, L, K
      <3>6. i \notin Range(L[a])
        BY <3>1, <3>5 DEF Held
      <3>7. K[a] \in Seq(Slots) /\ Once(K[a]) /\ Range(K[a]) = Range(L[a]) \cup {i}
        BY <2>2, <3>2, <3>3, <3>6, PutOne
      <3>8. Adds(L, K, a, i)
        BY <3>4, <3>5, <3>7 DEF Adds
      <3>9. Tidy(K) /\ Held(K) = Held(L) \cup {i}
        BY <3>1, <3>5, <3>8, AddOne
      <3> QED
        BY <3>9 DEF K, L
    <2>10. \A s \in Shards : Range(heads[s]) \subseteq Range(heads'[s]) /\ Range(heads'[s]) \subseteq Range(heads[s]) \cup {i}
      BY <1>5
    <2>11. \A p \in PoolOwners : \A h \in Range(recycle'[p]) : h \in Range(recycle[p]) \/ h = Handle(i, gen[i] + 1)
      <3> SUFFICES ASSUME NEW p \in PoolOwners, NEW h \in Range(recycle'[p]) PROVE h \in Range(recycle[p]) \/ h = z
        BY DEF z
      <3>1. CASE p = o
        BY <2>3, <2>7, <3>1 DEF r
      <3>2. CASE p # o
        BY <2>3, <3>2
      <3> QED
        BY <3>1, <3>2
    <2>12. heads' \in [Shards -> Seq(Slots)]
      BY <1>3, <1>5
    <2> QED
      BY <1>2, <1>5, <2>8, <2>9, <2>10, <2>11, <2>12, FreedInv
  <1>6. CASE /\ gen[i] # LastGen /\ gen' = [gen EXCEPT ![i] = gen[i] + 1] /\ UNCHANGED retired
             /\ heads' = [heads EXCEPT ![ShardOf(i)] = <<i>> \o @] /\ UNCHANGED recycle
    <2> DEFINE s == ShardOf(i)
               r == heads[s]
    <2>1. s \in Shards
      BY ShardExists
    <2> HIDE DEF s
    <2>2. r \in Seq(Slots) /\ Once(r) /\ Range(r) \subseteq Held(Contents)
      BY <2>1, HeldSlots
    <2>3. heads' = [heads EXCEPT ![s] = <<i>> \o r]
      BY <1>6 DEF s
    <2>4. heads'[s] = <<i>> \o r /\ \A t \in Shards : t # s => heads'[t] = heads[t]
      BY <1>3, <2>1, <2>3
    <2> HIDE DEF r
    <2>5. /\ <<i>> \o r \in Seq(Slots) /\ Once(<<i>> \o r)
          /\ Range(<<i>> \o r) = Range(r) \cup {i}
      <3>1. i \notin Range(r)
        BY <1>3, <2>2
      <3> QED
        BY <2>2, <3>1, PutOne
    <2>6. heads' \in [Shards -> Seq(Slots)]
      BY <1>3, <2>3, <2>5
    <2>7. Tidy(Contents)' /\ Held(Contents)' = Held(Contents) \cup {i}
      <3> DEFINE a == <<"shard", s>>
                 L == Contents
                 K == Contents'
      <3>1. a \in PoolLists
        BY <2>1, ListKinds
      <3>2. L[a] = r
        BY <2>1, ContentsAre DEF r
      <3>3. K[a] = <<i>> \o r
        BY <2>1, <2>4, ContentsWillBe
      <3>4. \A l \in PoolLists : l \notin {a} => K[l] = L[l]
        <4>1. \A t \in Shards : <<"shard", t>> \notin {a} => heads'[t] = heads[t]
          BY <2>4
        <4>2. \A p \in PoolOwners : <<"cache", p>> \notin {a} => cache'[p] = cache[p]
          BY <1>2
        <4>3. \A p \in PoolOwners : <<"ring", p>> \notin {a} => recycle'[p] = recycle[p]
          BY <1>6
        <4> HIDE DEF a
        <4> QED
          BY <4>1, <4>2, <4>3, SameElsewhere
      <3>5. Tidy(L) /\ i \notin Held(L)
        BY <1>3
      <3> HIDE DEF a, L, K
      <3>6. Adds(L, K, a, i)
        BY <2>5, <3>2, <3>3, <3>4, <3>5 DEF Adds
      <3>7. Tidy(K) /\ Held(K) = Held(L) \cup {i}
        BY <3>1, <3>5, <3>6, AddOne
      <3> QED
        BY <3>7 DEF K, L
    <2>8. \A t \in Shards : Range(heads[t]) \subseteq Range(heads'[t]) /\ Range(heads'[t]) \subseteq Range(heads[t]) \cup {i}
      <3> SUFFICES ASSUME NEW t \in Shards
                   PROVE  Range(heads[t]) \subseteq Range(heads'[t]) /\ Range(heads'[t]) \subseteq Range(heads[t]) \cup {i}
        OBVIOUS
      <3>1. CASE t = s
        BY <2>4, <2>5, <3>1 DEF r
      <3>2. CASE t # s
        BY <2>4, <3>2
      <3> QED
        BY <3>1, <3>2
    <2>9. /\ \A p \in PoolOwners : \A h \in Range(recycle'[p]) : h \in Range(recycle[p]) \/ h = Handle(i, gen[i] + 1)
          /\ recycle' \in [PoolOwners -> Seq(PoolHandles)]
      BY <1>3, <1>6
    <2> QED
      BY <1>2, <1>6, <2>6, <2>7, <2>8, <2>9, FreedInv
  <1> QED
    BY <1>2, <1>4, <1>5, <1>6

\* drainRecycleAll moves the oldest handle of a ring to its shard.
LEMMA DrainRecycleInv ==
  ASSUME PoolInv, NEW o \in PoolOwners, DrainRecycle(o)
  PROVE  PoolInv'
  <1> USE DEF PoolInv
  <1> DEFINE q == recycle[o]
             x == Indices(q)
             h == Head(q)
             i == h.index
             s == ShardOf(i)
             r == heads[s]
             v == Tail(q)
  <1>1. /\ q # <<>> /\ recycle' = [recycle EXCEPT ![o] = v] /\ heads' = [heads EXCEPT ![s] = <<i>> \o r]
        /\ UNCHANGED <<live, gen, birth, cache, step, due, retired>>
    BY DEF DrainRecycle, Spill
  <1>2. /\ q \in Seq(PoolHandles) /\ Once(x)
        /\ heads \in [Shards -> Seq(Slots)] /\ recycle \in [PoolOwners -> Seq(PoolHandles)]
    BY HeldSlots DEF PoolTypes
  <1>3. /\ x \in Seq(Slots) /\ Len(x) = Len(q) /\ Len(q) \in Nat
        /\ \A k \in 1..Len(q) : x[k] = q[k].index
    BY <1>2, IndicesShape
  <1> HIDE DEF q
  <1>4. /\ h \in PoolHandles /\ h = q[1] /\ v \in Seq(PoolHandles) /\ 1 \in 0..Len(q)
        /\ v = SubSeq(q, 1 + 1, Len(q))
    BY <1>1, <1>2, HeadTail
  <1>5. Indices(v) = SubSeq(x, 1 + 1, Len(x))
    <2> DEFINE m == 1
    <2>1. m \in 0..Len(q)
      BY <1>4
    <2> HIDE DEF m, x
    <2>2. Indices(SubSeq(q, m + 1, Len(q))) = SubSeq(Indices(q), m + 1, Len(Indices(q)))
      BY <1>2, <2>1, IndicesCut
    <2> QED
      BY <1>4, <2>2 DEF m, x
  <1> HIDE DEF x
  <1>6. x # <<>>
    <2>1. Len(<<>>) = 0 /\ Len(q) # 0
      BY <1>3, <1>4
    <2> QED
      BY <1>3, <2>1
  <1>7. Head(x) = x[1] /\ Tail(x) = SubSeq(x, 1 + 1, Len(x))
    BY <1>3, <1>6, HeadTail
  <1>8. i \in Slots /\ x[1] = i
    <2>1. 1 \in 1..Len(q)
      BY <1>3, <1>4
    <2> QED
      BY <1>3, <1>4, <2>1 DEF PoolHandles
  <1>9. Tail(x) \in Seq(Slots) /\ Once(Tail(x)) /\ Head(x) \in Range(x) /\ Range(Tail(x)) = Range(x) \ {Head(x)}
    BY <1>2, <1>3, <1>6, TakeHead
  <1> DEFINE y == Tail(x)
  <1>10. /\ y \in Seq(Slots) /\ Once(y) /\ i \in Range(x) /\ Range(y) = Range(x) \ {i}
         /\ Indices(v) = y
    BY <1>5, <1>7, <1>8, <1>9
  <1>11. Range(v) \subseteq Range(q)
    <2> DEFINE m == 1
    <2>1. m \in 0..Len(q)
      BY <1>4
    <2> HIDE DEF m
    <2>2. Range(SubSeq(q, m + 1, Len(q))) \subseteq Range(q)
      BY <1>2, <2>1, CutRange
    <2> QED
      BY <1>4, <2>2 DEF m
  <1> HIDE DEF v, y, h, i
  <1>12. s \in Shards
    BY <1>8, ShardExists
  <1> HIDE DEF s
  <1>13. r \in Seq(Slots) /\ Once(r)
    BY <1>12, HeldSlots
  <1>14. Range(r) \cap Range(x) = {}
    <2> DEFINE a == <<"ring", o>>
               b == <<"shard", s>>
    <2>1. a \in PoolLists /\ b \in PoolLists /\ a # b
      BY <1>12, ListKinds
    <2>2. Contents[a] = x /\ Contents[b] = r
      BY <1>12, ContentsAre DEF q, x
    <2> HIDE DEF a, b
    <2>3. Range(Contents[b]) \cap Range(Contents[a]) = {}
      BY <2>1 DEF Tidy
    <2> QED
      BY <2>2, <2>3
  <1> HIDE DEF r
  <1>15. /\ <<i>> \o r \in Seq(Slots) /\ Once(<<i>> \o r) /\ Range(<<i>> \o r) = Range(r) \cup {i}
    <2>1. i \notin Range(r)
      BY <1>10, <1>14
    <2> QED
      BY <1>8, <1>13, <2>1, PutOne
  <1> DEFINE w == <<i>> \o r
  <1>16. w \in Seq(Slots) /\ Once(w) /\ Range(w) = Range(r) \cup {i} /\ heads' = [heads EXCEPT ![s] = w]
    BY <1>1, <1>15
  <1> HIDE DEF w
  <1>17. /\ recycle'[o] = v /\ heads'[s] = w
         /\ \A p \in PoolOwners : p # o => recycle'[p] = recycle[p]
         /\ \A t \in Shards : t # s => heads'[t] = heads[t]
    BY <1>1, <1>2, <1>12, <1>16
  <1>18. PoolTypes'
    <2>1. recycle' \in [PoolOwners -> Seq(PoolHandles)]
      BY <1>1, <1>2, <1>4
    <2>2. heads' \in [Shards -> Seq(Slots)]
      BY <1>2, <1>16
    <2> QED
      BY <1>1, <2>1, <2>2 DEF PoolTypes
  <1>19. Tidy(Contents)' /\ Held(Contents)' = Held(Contents)
    <2> DEFINE a == <<"ring", o>>
               b == <<"shard", s>>
               L == Contents
               K == Contents'
    <2>1. a \in PoolLists /\ b \in PoolLists /\ a # b
      BY <1>12, ListKinds
    <2>2. L[a] = x /\ L[b] = r
      BY <1>12, ContentsAre DEF q, x, r
    <2>3. K[a] = y /\ K[b] = w
      BY <1>10, <1>12, <1>17, ContentsWillBe
    <2>4. \A l \in PoolLists : l \notin {a, b} => K[l] = L[l]
      <3>1. \A t \in Shards : <<"shard", t>> \notin {a, b} => heads'[t] = heads[t]
        BY <1>17
      <3>2. \A p \in PoolOwners : <<"cache", p>> \notin {a, b} => cache'[p] = cache[p]
        BY <1>1
      <3>3. \A p \in PoolOwners : <<"ring", p>> \notin {a, b} => recycle'[p] = recycle[p]
        BY <1>17
      <3> HIDE DEF a, b
      <3> QED
        BY <3>1, <3>2, <3>3, SameElsewhere
    <2>5. Tidy(L)
      OBVIOUS
    <2> HIDE DEF a, b, L, K
    <2>6. {} \cap Held(L) = {} /\ \A l \in PoolLists : l # a /\ l # b => K[l] = L[l]
      BY <2>4
    <2>7. K[a] \in Seq(Slots) /\ Once(K[a]) /\ K[b] \in Seq(Slots) /\ Once(K[b])
      BY <1>10, <1>16, <2>3
    <2>8. /\ Range(K[a]) \cap Range(K[b]) = {}
          /\ Range(K[a]) \cup Range(K[b]) = Range(L[a]) \cup Range(L[b])
      BY <1>10, <1>14, <1>16, <2>2, <2>3
    <2>9. Range(K[a]) \cup Range(K[b]) \subseteq (Range(L[a]) \cup Range(L[b])) \cup {}
      BY <2>8
    <2>10. Exchange(L, K, a, b, {})
      BY <2>6, <2>7, <2>8, <2>9 DEF Exchange
    <2>11. Tidy(K) /\ Held(K) = Exchanged(L, K, a, b)
      BY <2>1, <2>5, <2>10, Regroup
    <2>12. Range(L[a]) \cup Range(L[b]) \subseteq Held(L)
      BY <2>1 DEF Held
    <2>13. Held(K) = Held(L)
      BY <2>8, <2>11, <2>12 DEF Exchanged
    <2> QED
      BY <2>11, <2>13 DEF K, L
  <1>20. Books'
    BY <1>1, <1>19, BooksStand
  <1>21. Fresh'
    <2> SUFFICES ASSUME NEW p \in PoolOwners, NEW g \in Range(cache'[p]) \cup Range(recycle'[p])
                 PROVE  gen'[g.index] = g.gen
      BY DEF Fresh
    <2>1. g \in Range(cache[p]) \cup Range(recycle[p])
      BY <1>1, <1>11, <1>17 DEF q
    <2> QED
      BY <1>1, <2>1 DEF Fresh
  <1>22. Calls'
    BY <1>1, CallStands DEF Calls
  <1>23. Searches'
    <2> SUFFICES ASSUME NEW p \in PoolOwners PROVE SearchOf(p)'
      BY DEF Searches
    <2>1. \A k \in due[p] : \E t \in Shards : k \in Range(heads[t])
      BY DEF Searches, SearchOf, OnLists
    <2>2. i \notin due[p]
      <3>1. ASSUME NEW t \in Shards PROVE i \notin Range(heads[t])
        <4> DEFINE a == <<"ring", o>>
                   b == <<"shard", t>>
        <4>1. a \in PoolLists /\ b \in PoolLists /\ a # b
          BY ListKinds
        <4>2. Contents[a] = x /\ Contents[b] = heads[t]
          BY ContentsAre DEF q, x
        <4> HIDE DEF a, b
        <4>3. Range(Contents[b]) \cap Range(Contents[a]) = {}
          BY <4>1 DEF Tidy
        <4> QED
          BY <1>10, <4>2, <4>3
      <3> QED
        BY <2>1, <3>1
    <2>3. due'[p] = due[p] /\ step'[p] = step[p]
      BY <1>1
    <2>4. \A t \in Shards : Range(heads[t]) \subseteq Range(heads'[t]) /\ Range(heads'[t]) \subseteq Range(heads[t]) \cup {i}
      <3> SUFFICES ASSUME NEW t \in Shards
                   PROVE  Range(heads[t]) \subseteq Range(heads'[t]) /\ Range(heads'[t]) \subseteq Range(heads[t]) \cup {i}
        OBVIOUS
      <3>1. CASE t = s
        BY <1>16, <1>17, <3>1 DEF r
      <3>2. CASE t # s
        BY <1>17, <3>2
      <3> QED
        BY <3>1, <3>2
    <2>5. \A k \in due'[p] : \E t \in Shards : k \in Range(heads'[t])
      BY <2>1, <2>3, <2>4
    <2>6. \A t \in Shards : \A k \in due'[p] : k \in Range(heads'[t]) => k \in Range(heads[t])
      BY <2>2, <2>3, <2>4
    <2> QED
      BY <2>3, <2>5, <2>6, StandsStill
  <1> QED
    BY <1>18, <1>19, <1>20, <1>21, <1>22, <1>23

-----------------------------------------------------------------------------
(* The theorem *)

\* Every step of an owner or of the collector keeps the invariant.
LEMMA PoolNextInv ==
  PoolInv /\ [PoolNext]_poolVars => PoolInv'
  <1> SUFFICES ASSUME PoolInv, [PoolNext]_poolVars PROVE PoolInv'
    OBVIOUS
  <1>1. ASSUME NEW o \in PoolOwners, Steal(o) PROVE PoolInv'
    BY <1>1, StealTakesInv, StealPassesInv
  <1>2. ASSUME NEW o \in PoolOwners, BeginAlloc(o) \/ RefillFromRing(o) \/ RefillFromShard(o) PROVE PoolInv'
    BY <1>2, BeginAllocInv, RefillFromRingInv, RefillFromShardInv
  <1>3. ASSUME NEW o \in PoolOwners, TakeCached(o) \/ Failed(o) \/ DrainRecycle(o) PROVE PoolInv'
    BY <1>3, TakeCachedInv, FailedInv, DrainRecycleInv
  <1>4. ASSUME NEW i \in Slots, Free(Handle(i, gen[i])) PROVE PoolInv'
    BY <1>4, FreeInv
  <1>5. CASE UNCHANGED poolVars
    <2>1. UNCHANGED <<live, gen, birth, heads, recycle, cache, step, due, retired>>
      BY <1>5 DEF poolVars
    <2>2. Contents' = Contents
      BY <2>1, SameLists
    <2>3. Tidy(Contents)' /\ Books'
      BY <2>1, <2>2 DEF PoolInv, Books
    <2>4. PoolTypes' /\ Fresh' /\ Calls' /\ Searches'
      BY <2>1 DEF PoolInv, PoolTypes, Fresh, Calls, CallOf, Searches, SearchOf, OnLists, At
    <2> QED
      BY <2>3, <2>4 DEF PoolInv
  <1> QED
    BY <1>1, <1>2, <1>3, <1>4, <1>5 DEF PoolNext

\* A freed handle names a generation its slot has left behind, or a retired slot.
Spent ==
    /\ freed \subseteq PoolHandles
    /\ \A h \in freed : h.gen < gen[h.index] \/ h.index \in retired

\* Taking a slot leaves every generation as it is: a handle in a cache is fresh.
LEMMA TakingKeepsGen ==
  ASSUME PoolInv, NEW o \in PoolOwners, TakeCached(o) \/ Steal(o)
  PROVE  gen' = gen
  <1> USE DEF PoolInv
  <1>1. gen \in [Slots -> 0..LastGen]
    BY DEF PoolTypes
  <1>2. CASE TakeCached(o)
    <2> DEFINE h == cache[o][Len(cache[o])]
    <2>1. cache[o] \in Seq(PoolHandles) /\ cache[o] # <<>>
      BY <1>2 DEF PoolTypes, TakeCached, Calls, CallOf
    <2>2. h \in Range(cache[o])
      <3>1. Len(cache[o]) \in 1..Len(cache[o])
        BY <2>1, EmptySeq, LenProperties
      <3> QED
        BY <2>1, <3>1, RangeIs
    <2>3. gen[h.index] = h.gen
      BY <2>2 DEF Fresh
    <2>4. gen' = [gen EXCEPT ![h.index] = h.gen]
      BY <1>2 DEF TakeCached, Claim
    <2> QED
      BY <1>1, <2>3, <2>4
  <1>3. CASE Steal(o)
    <2> DEFINE s == (o + step[o].shard) % NShards
               e == Head(heads[s])
    <2>1. CASE heads[s] # <<>>
      <3>1. gen' = [gen EXCEPT ![Handle(e, gen[e]).index] = Handle(e, gen[e]).gen]
        BY <1>3, <2>1 DEF Steal, Claim
      <3> QED
        BY Zenon, <1>1, <3>1 DEF Handle
    <2>2. CASE heads[s] = <<>>
      BY <1>3, <2>2 DEF Steal
    <2> QED
      BY <2>1, <2>2
  <1> QED
    BY <1>2, <1>3

\* A generation only grows, and the last one ends with the slot.
LEMMA SpentStays ==
  PoolInv /\ Spent /\ [PoolNext]_poolVars => Spent'
  <1> SUFFICES ASSUME PoolInv, Spent, [PoolNext]_poolVars PROVE Spent'
    OBVIOUS
  <1>1. CASE gen' = gen /\ UNCHANGED <<retired, freed>>
    BY <1>1 DEF Spent
  <1>2. ASSUME NEW o \in PoolOwners, TakeCached(o) \/ Steal(o) PROVE Spent'
    <2>1. gen' = gen
      BY <1>2, TakingKeepsGen
    <2>2. UNCHANGED <<retired, freed>>
      BY <1>2 DEF TakeCached, Steal
    <2> QED
      BY <1>1, <2>1, <2>2
  <1>3. ASSUME NEW i \in Slots, Free(Handle(i, gen[i])) PROVE Spent'
    <2> DEFINE h == Handle(i, gen[i])
    <2>1. h.index = i /\ h.gen = gen[i]
      BY DEF Handle
    <2>2. /\ freed' = freed \cup {h}
          /\ \/ retired' = retired \cup {i} /\ gen' = gen
             \/ retired' = retired /\ gen' = [gen EXCEPT ![i] = gen[i] + 1]
      BY <1>3, <2>1 DEF Free
    <2>3. gen \in [Slots -> 0..LastGen] /\ LastGen \in Nat
      BY PoolAssumption DEF PoolInv, PoolTypes
    <2>4. h \in PoolHandles
      BY <2>3 DEF Handle, PoolHandles
    <2>5. freed' \subseteq PoolHandles
      BY <2>2, <2>4 DEF Spent
    <2>6. ASSUME NEW k \in freed' PROVE k.gen < gen'[k.index] \/ k.index \in retired'
      <3>1. k.index \in Slots /\ k.gen \in Nat
        BY <2>3, <2>5 DEF PoolHandles
      <3>2. CASE k \in freed
        <4>1. k.gen < gen[k.index] \/ k.index \in retired
          BY <3>2 DEF Spent
        <4>2. gen'[k.index] = gen[k.index] \/ gen'[k.index] = gen[k.index] + 1
          BY <2>2, <2>3, <3>1
        <4>3. gen[k.index] \in Nat
          BY <2>3, <3>1
        <4> QED
          BY <2>2, <3>1, <4>1, <4>2, <4>3
      <3>3. CASE k = h
        <4> HIDE DEF h
        <4> QED
          BY <2>1, <2>2, <2>3, <3>1, <3>3
      <3> QED
        BY <2>2, <3>2, <3>3
    <2> QED
      BY <2>5, <2>6 DEF Spent
  <1>4. ASSUME NEW o \in PoolOwners,
               \/ BeginAlloc(o) \/ RefillFromRing(o) \/ RefillFromShard(o)
               \/ Failed(o) \/ DrainRecycle(o)
        PROVE  Spent'
    <2>1. gen' = gen /\ UNCHANGED <<retired, freed>>
      BY <1>4 DEF BeginAlloc, RefillFromRing, RefillFromShard, Failed, DrainRecycle
    <2> QED
      BY Zenon, <1>1, <2>1
  <1>5. CASE UNCHANGED poolVars
    BY <1>1, <1>5 DEF poolVars
  <1> QED
    BY <1>2, <1>3, <1>4, <1>5 DEF PoolNext

\* The invariant says what the pool promises.
LEMMA PoolInvSound ==
  PoolInv /\ Spent => PoolIsSound
  <1> SUFFICES ASSUME PoolInv, Spent PROVE PoolIsSound
    OBVIOUS
  <1> USE DEF PoolInv
  <1>1. SlotsAccounted
    <2> SUFFICES ASSUME NEW i \in Slots
                 PROVE  Cardinality(Places(i)) = IF live[i] \/ i \in retired THEN 0 ELSE 1
      BY DEF SlotsAccounted
    <2>1. Cardinality(Places(i)) = IF i \in Held(Contents) THEN 1 ELSE 0
      BY OnePlace DEF Contents
    <2>2. i \in Held(Contents) <=> ~live[i] /\ i \notin retired
      BY DEF Books
    <2> QED
      BY <2>1, <2>2
  <1>2. CachedIsFresh
    <2> SUFFICES ASSUME NEW o \in PoolOwners, NEW h \in Range(cache[o]) \cup Range(recycle[o])
                 PROVE  gen[h.index] = h.gen /\ ~live[h.index]
      BY DEF CachedIsFresh
    <2>1. h \in PoolHandles /\ h.index \in Held(Contents)
      BY HeldSlots
    <2>2. h.index \in Slots
      BY <2>1 DEF PoolHandles
    <2> QED
      BY <2>1, <2>2 DEF Fresh, Books
  <1>3. FailsOnlyWhenTaken
    BY DEF FailsOnlyWhenTaken, Searches, SearchOf
  <1>4. FreedForGood
    <2> SUFFICES ASSUME NEW h \in freed PROVE ~(live[h.index] /\ gen[h.index] = h.gen)
      BY DEF FreedForGood
    <2>1. h.index \in Slots /\ h.gen \in 0..LastGen /\ (h.gen < gen[h.index] \/ h.index \in retired)
      BY DEF Spent, PoolHandles
    <2>2. CASE h.gen < gen[h.index]
      BY <2>1, <2>2, PoolAssumption
    <2>3. CASE h.index \in retired
      BY <2>1, <2>3 DEF Books
    <2> QED
      BY <2>1, <2>2, <2>3
  <1> QED
    BY <1>1, <1>2, <1>3, <1>4 DEF PoolIsSound

\* For any number of slots, shards, owners and generations the pool keeps its books: no
\* slot is lost or in two places, no handle waits under a stale generation, an
\* allocation fails only when what it could have found was taken, and no freed handle
\* becomes valid again (cell.hpp allocInto, refillLocal, popFrom, free, drainRecycleAll).
THEOREM PoolKeepsItsBooks ==
  PoolSpec => []PoolIsSound
  <1>1. PoolInit => PoolInv /\ Spent
    BY PoolInitInv DEF PoolInit, Spent
  <1>2. PoolInv /\ Spent /\ [PoolNext]_poolVars => PoolInv' /\ Spent'
    BY PoolNextInv, SpentStays
  <1>3. PoolInv /\ Spent => PoolIsSound
    BY PoolInvSound
  <1> QED
    BY <1>1, <1>2, <1>3, PTL DEF PoolSpec

-----------------------------------------------------------------------------
(* The edge arena: linked lists and the sequences they spell *)

\* What stands first in a list, after place k and before it.
Foremost(s) == IF Len(s) = 0 THEN NoEdge ELSE s[1]
After(s, k) == IF k = Len(s) THEN NoEdge ELSE s[k + 1]
Before(s, k) == IF k = 1 THEN NoEdge ELSE s[k - 1]

\* List s is what the links succ spell from head on.
Spells(s, head, succ) ==
    /\ s \in Seq(EdgeIds) /\ Once(s) /\ head = Foremost(s)
    /\ \A k \in 1..Len(s) : succ[s[k]] = After(s, k)

\* A list with i put in front, and without its place k.
Fronted(i, s) == [n \in 1..(Len(s) + 1) |-> IF n = 1 THEN i ELSE s[n - 1]]
Closed(s, k) == [n \in 1..(Len(s) - 1) |-> IF n < k THEN s[n] ELSE s[n + 1]]

\* The members of a list.
LEMMA ListShape ==
  ASSUME NEW s \in Seq(EdgeIds)
  PROVE  /\ Len(s) \in Nat /\ DOMAIN s = 1..Len(s) /\ s = [n \in 1..Len(s) |-> s[n]]
         /\ \A n \in 1..Len(s) : s[n] \in EdgeIds
         /\ \A x : x \in Elems(s) <=> \E n \in 1..Len(s) : s[n] = x
  <1>1. Len(s) \in Nat /\ DOMAIN s = 1..Len(s)
    BY LenProperties
  <1>2. s = [n \in 1..Len(s) |-> s[n]] /\ \A n \in 1..Len(s) : s[n] \in EdgeIds
    BY ElementOfSeq, LenProperties
  <1> QED
    BY <1>1, <1>2 DEF Elems

\* A function on 1..n is a list.
LEMMA ListMade ==
  ASSUME NEW n \in Nat, NEW s, s = [k \in 1..n |-> s[k]], \A k \in 1..n : s[k] \in EdgeIds
  PROVE  s \in Seq(EdgeIds) /\ Len(s) = n
  <1>1. s \in [1..n -> EdgeIds]
    OBVIOUS
  <1> QED
    BY <1>1, SeqDef, LenProperties

\* Putting a new id in front.
LEMMA FrontedIs ==
  ASSUME NEW s \in Seq(EdgeIds), Once(s), NEW i \in EdgeIds, i \notin Elems(s), NEW t, t = Fronted(i, s)
  PROVE  /\ t \in Seq(EdgeIds) /\ Once(t) /\ Len(t) = Len(s) + 1 /\ t[1] = i
         /\ \A n \in 1..Len(s) : t[n + 1] = s[n]
         /\ Elems(t) = Elems(s) \cup {i}
  <1>1. Len(s) \in Nat /\ \A n \in 1..Len(s) : s[n] \in EdgeIds
    BY ListShape
  <1>2. PICK m \in Nat : m = Len(s)
    BY <1>1
  <1>3. t = [n \in 1..(m + 1) |-> IF n = 1 THEN i ELSE s[n - 1]]
    BY <1>2 DEF Fronted
  <1>4. \A n \in 1..(m + 1) : n # 1 => n - 1 \in 1..m
    BY <1>2
  <1>5. t = [n \in 1..(m + 1) |-> t[n]] /\ \A n \in 1..(m + 1) : t[n] = IF n = 1 THEN i ELSE s[n - 1]
    BY <1>3
  <1>6. m + 1 \in Nat /\ \A n \in 1..(m + 1) : t[n] \in EdgeIds
    BY <1>1, <1>2, <1>4, <1>5
  <1>7. t \in Seq(EdgeIds) /\ Len(t) = m + 1
    BY <1>5, <1>6, ListMade
  <1>8. 1 \in 1..(m + 1) /\ t[1] = i
    BY <1>2, <1>5
  <1>9. \A n \in 1..m : n + 1 \in 1..(m + 1) /\ t[n + 1] = s[n]
    BY <1>2, <1>5
  <1>10. \A n \in 1..m : s[n] # i
    BY <1>2, ListShape
  <1>11. Once(t)
    <2> SUFFICES ASSUME NEW a \in 1..(m + 1), NEW b \in 1..(m + 1), t[a] = t[b] PROVE a = b
      BY <1>7 DEF Once
    <2>1. CASE a = 1 /\ b = 1
      BY <2>1
    <2>2. CASE a = 1 /\ b # 1
      BY <1>4, <1>5, <1>8, <1>10, <2>2
    <2>3. CASE a # 1 /\ b = 1
      BY <1>4, <1>5, <1>8, <1>10, <2>3
    <2>4. CASE a # 1 /\ b # 1
      <3>1. a - 1 \in 1..m /\ b - 1 \in 1..m /\ s[a - 1] = s[b - 1]
        BY <1>4, <1>5, <2>4
      <3> QED
        BY <1>2, <3>1 DEF Once
    <2> QED
      BY <2>1, <2>2, <2>3, <2>4
  <1>12. Elems(t) = Elems(s) \cup {i}
    <2>1. ASSUME NEW x PROVE x \in Elems(t) <=> x \in Elems(s) \/ x = i
      <3>1. x \in Elems(t) => x \in Elems(s) \/ x = i
        <4> SUFFICES ASSUME x \in Elems(t) PROVE x \in Elems(s) \/ x = i
          OBVIOUS
        <4>1. PICK n \in 1..(m + 1) : t[n] = x
          BY <1>7, ListShape
        <4>2. n # 1 => n - 1 \in 1..Len(s) /\ s[n - 1] = x
          BY <1>2, <1>4, <1>5, <4>1
        <4>3. n = 1 => x = i
          BY <1>8, <4>1
        <4> QED
          BY <4>2, <4>3, ListShape
      <3>2. x \in Elems(s) => x \in Elems(t)
        <4> SUFFICES ASSUME x \in Elems(s) PROVE x \in Elems(t)
          OBVIOUS
        <4>1. PICK n \in 1..m : s[n] = x
          BY <1>2, ListShape
        <4>2. n + 1 \in 1..Len(t) /\ t[n + 1] = x
          BY <1>7, <1>9, <4>1
        <4> QED
          BY <1>7, <4>2, ListShape
      <3>3. i \in Elems(t)
        BY <1>7, <1>8, ListShape
      <3> QED
        BY <3>1, <3>2, <3>3
    <2> QED
      BY <2>1
  <1> QED
    BY <1>2, <1>7, <1>8, <1>9, <1>11, <1>12

\* Taking place k out.
LEMMA ClosedIs ==
  ASSUME NEW s \in Seq(EdgeIds), Once(s), NEW k \in 1..Len(s), NEW t, t = Closed(s, k)
  PROVE  /\ t \in Seq(EdgeIds) /\ Once(t) /\ Len(t) = Len(s) - 1
         /\ \A n \in 1..(Len(s) - 1) : t[n] = IF n < k THEN s[n] ELSE s[n + 1]
         /\ Elems(t) = Elems(s) \ {s[k]}
  <1>1. Len(s) \in Nat /\ \A n \in 1..Len(s) : s[n] \in EdgeIds
    BY ListShape
  <1>2. PICK m \in Nat : m + 1 = Len(s)
    <2>1. Len(s) - 1 \in Nat /\ (Len(s) - 1) + 1 = Len(s)
      BY <1>1
    <2> QED
      BY <2>1
  <1>3. Len(s) - 1 = m /\ k \in 1..(m + 1)
    BY <1>2
  <1>4. t = [n \in 1..m |-> IF n < k THEN s[n] ELSE s[n + 1]]
    BY <1>3 DEF Closed
  <1>5. t = [n \in 1..m |-> t[n]] /\ \A n \in 1..m : t[n] = IF n < k THEN s[n] ELSE s[n + 1]
    BY <1>4
  <1>6. \A n \in 1..m : n \in 1..(m + 1) /\ n + 1 \in 1..(m + 1)
    BY <1>2
  <1>7. \A n \in 1..m : t[n] \in EdgeIds
    BY <1>1, <1>2, <1>5, <1>6
  <1>8. t \in Seq(EdgeIds) /\ Len(t) = m
    BY <1>5, <1>7, ListMade
  <1>9. \A a, b \in 1..(m + 1) : s[a] = s[b] => a = b
    BY <1>2 DEF Once
  <1>10. Once(t)
    <2> SUFFICES ASSUME NEW a \in 1..m, NEW b \in 1..m, t[a] = t[b] PROVE a = b
      BY <1>8 DEF Once
    <2>1. PICK x \in 1..(m + 1) : t[a] = s[x] /\ x = IF a < k THEN a ELSE a + 1
      BY <1>5, <1>6
    <2>2. PICK y \in 1..(m + 1) : t[b] = s[y] /\ y = IF b < k THEN b ELSE b + 1
      BY <1>5, <1>6
    <2>3. x = y
      BY <1>9, <2>1, <2>2
    <2> QED
      BY <1>3, <2>1, <2>2, <2>3
  <1>11. Elems(t) = Elems(s) \ {s[k]}
    <2>1. ASSUME NEW x PROVE x \in Elems(t) <=> x \in Elems(s) /\ x # s[k]
      <3>1. ASSUME x \in Elems(t) PROVE x \in Elems(s) /\ x # s[k]
        <4>1. PICK n \in 1..m : t[n] = x
          BY <1>8, <3>1, ListShape
        <4>2. PICK y \in 1..(m + 1) : t[n] = s[y] /\ y = IF n < k THEN n ELSE n + 1
          BY <1>5, <1>6
        <4>3. y # k
          BY <1>3, <4>2
        <4> QED
          BY <1>2, <1>3, <1>9, <4>1, <4>2, <4>3, ListShape
      <3>2. ASSUME x \in Elems(s), x # s[k] PROVE x \in Elems(t)
        <4>1. PICK y \in 1..(m + 1) : s[y] = x
          BY <1>2, <3>2, ListShape
        <4>2. y # k
          BY <3>2, <4>1
        <4>3. CASE y < k
          <5>1. y \in 1..m /\ t[y] = x
            BY <1>3, <1>5, <4>1, <4>3
          <5> QED
            BY <1>8, <5>1, ListShape
        <4>4. CASE y > k
          <5>1. y - 1 \in 1..m /\ ~(y - 1 < k) /\ y - 1 + 1 = y
            BY <1>3, <4>4
          <5>2. t[y - 1] = x
            BY <1>5, <4>1, <5>1
          <5> QED
            BY <1>8, <5>1, <5>2, ListShape
        <4> QED
          BY <1>3, <4>2, <4>3, <4>4
      <3> QED
        BY <3>1, <3>2
    <2> QED
      BY <2>1
  <1> QED
    BY <1>3, <1>5, <1>8, <1>10, <1>11

\* A list without repetition is no longer than there are ids.
LEMMA ListFits ==
  ASSUME NEW s \in Seq(EdgeIds), Once(s)
  PROVE  Len(s) <= MaxEdges /\ IsFiniteSet(Elems(s)) /\ Cardinality(Elems(s)) = Len(s)
  <1>1. Len(s) \in Nat /\ MaxEdges \in Nat /\ EdgeIds = 1..MaxEdges
    BY ListShape, ArenaAssumption DEF EdgeIds
  <1>2. IsFiniteSet(1..Len(s)) /\ Cardinality(1..Len(s)) = Len(s)
    <2>1. 1 \in Int /\ Len(s) \in Int
      BY <1>1
    <2>2. IsFiniteSet(1..Len(s)) /\ Cardinality(1..Len(s)) = IF 1 > Len(s) THEN 0 ELSE Len(s) - 1 + 1
      BY <2>1, FS_Interval
    <2> QED
      BY <1>1, <2>2
  <1>3. IsFiniteSet(EdgeIds) /\ Cardinality(EdgeIds) = MaxEdges
    <2>1. 1 \in Int /\ MaxEdges \in Int
      BY <1>1
    <2>2. IsFiniteSet(1..MaxEdges) /\ Cardinality(1..MaxEdges) = IF 1 > MaxEdges THEN 0 ELSE MaxEdges - 1 + 1
      BY <2>1, FS_Interval
    <2> QED
      BY <1>1, <2>2
  <1>4. s \in [1..Len(s) -> Elems(s)] /\ Elems(s) \subseteq EdgeIds
    BY ListShape
  <1>5. s \in Bijection(1..Len(s), Elems(s))
    <2>1. s \in Injection(1..Len(s), Elems(s))
      BY <1>4 DEF Injection, IsInjective, Once
    <2>2. s \in Surjection(1..Len(s), Elems(s))
      BY <1>4, ListShape DEF Surjection
    <2> QED
      BY <2>1, <2>2 DEF Bijection
  <1>6. ExistsBijection(1..Len(s), Elems(s))
    BY <1>5 DEF ExistsBijection
  <1>7. IsFiniteSet(Elems(s)) /\ Cardinality(Elems(s)) = Len(s)
    BY <1>2, <1>6, FS_Bijection
  <1>8. Cardinality(Elems(s)) <= Cardinality(EdgeIds)
    BY <1>3, <1>4, FS_Subset
  <1> QED
    BY <1>3, <1>7, <1>8

\* The walk over a list that is spelled well gives the list.
LEMMA WalkIs ==
  ASSUME NEW s, NEW head, NEW succ, Spells(s, head, succ)
  PROVE  Walk(head, succ) = s
  <1>1. s \in Seq(EdgeIds) /\ Once(s)
    BY DEF Spells
  <1>2. PICK m \in Nat : m = Len(s)
    BY <1>1, ListShape
  <1>3. m <= MaxEdges /\ MaxEdges \in Nat
    BY <1>1, <1>2, ListFits, ArenaAssumption
  <1>4. /\ \A n \in 1..m : s[n] # NoEdge
        /\ m = 0 => head = NoEdge
        /\ m # 0 => head = s[1]
        /\ \A n \in 1..m : succ[s[n]] = IF n = m THEN NoEdge ELSE s[n + 1]
    BY <1>1, <1>2, ListShape, ArenaAssumption DEF Spells, Foremost, After, EdgeIds
  <1> DEFINE Step(f, n) == IF n = 0 THEN head ELSE IF f[n - 1] = NoEdge THEN NoEdge ELSE succ[f[n - 1]]
             g == [n \in 0..MaxEdges |-> IF n < m THEN s[n + 1] ELSE NoEdge]
  <1>5. \A n \in 0..MaxEdges : g[n] = Step(g, n)
    <2> SUFFICES ASSUME NEW n \in 0..MaxEdges PROVE g[n] = Step(g, n)
      OBVIOUS
    <2>1. CASE n = 0
      BY <1>3, <1>4, <2>1
    <2>2. CASE n # 0 /\ n - 1 < m
      <3>1. n - 1 \in 0..MaxEdges /\ n \in 1..m /\ n - 1 + 1 = n
        BY <1>3, <2>2
      <3>2. g[n - 1] = s[n] /\ s[n] # NoEdge
        BY <1>4, <2>2, <3>1
      <3>3. g[n] = IF n = m THEN NoEdge ELSE s[n + 1]
        BY <3>1
      <3> QED
        BY <1>4, <2>2, <3>1, <3>2, <3>3
    <2>3. CASE n # 0 /\ ~(n - 1 < m)
      <3>1. n - 1 \in 0..MaxEdges /\ ~(n < m)
        BY <1>3, <2>3
      <3> QED
        BY <2>3, <3>1
    <2> QED
      BY <2>1, <2>2, <2>3
  <1>6. \E f : f = [n \in 0..MaxEdges |-> Step(f, n)]
    <2>1. g = [n \in 0..MaxEdges |-> g[n]]
      OBVIOUS
    <2> HIDE DEF g
    <2>2. g = [n \in 0..MaxEdges |-> Step(g, n)]
      BY <1>5, <2>1
    <2> QED
      BY <2>2
  <1>7. PICK f : /\ f = [n \in 0..MaxEdges |-> Step(f, n)]
                 /\ Walk(head, succ) = [n \in 1..Cardinality({k \in 0..MaxEdges : f[k] # NoEdge}) |-> f[n - 1]]
    BY <1>6 DEF Walk
  <1>8. \A n \in 0..MaxEdges : f[n] = g[n]
    <2> DEFINE Bad == {n \in Nat : n <= MaxEdges /\ f[n] # g[n]}
    <2>1. \A n \in 0..MaxEdges : f[n] = Step(f, n)
      BY <1>7
    <2> HIDE DEF g
    <2>2. CASE Bad = {}
      BY <2>2
    <2>3. CASE Bad # {}
      <3>1. PICK n \in Bad : \A k \in Bad : n <= k
        BY <2>3, LeastNumber
      <3>2. n # 0
        BY <1>3, <1>5, <2>1, <3>1
      <3>3. n - 1 \in Nat /\ n - 1 \notin Bad /\ n - 1 <= MaxEdges /\ n \in 0..MaxEdges
        BY <1>3, <3>1, <3>2
      <3>4. f[n - 1] = g[n - 1]
        BY <3>3
      <3> QED
        BY <1>5, <2>1, <3>1, <3>3, <3>4
    <2> QED
      BY <2>2, <2>3
  <1>9. {k \in 0..MaxEdges : f[k] # NoEdge} = 0..(m - 1)
    <2>1. ASSUME NEW k \in 0..MaxEdges PROVE f[k] # NoEdge <=> k < m
      <3>1. k < m => k + 1 \in 1..m
        BY <1>3
      <3> QED
        BY <1>4, <1>8, <3>1
    <2> QED
      BY <1>3, <2>1
  <1>10. Cardinality(0..(m - 1)) = m
    <2>1. 0 \in Int /\ m - 1 \in Int
      BY <1>3
    <2>2. Cardinality(0..(m - 1)) = IF 0 > m - 1 THEN 0 ELSE m - 1 - 0 + 1
      BY <2>1, FS_Interval
    <2> QED
      BY <1>3, <2>2
  <1>11. Walk(head, succ) = [n \in 1..m |-> f[n - 1]]
    BY <1>7, <1>9, <1>10
  <1>12. \A n \in 1..m : f[n - 1] = s[n]
    <2> SUFFICES ASSUME NEW n \in 1..m PROVE f[n - 1] = s[n]
      OBVIOUS
    <2>1. n - 1 \in 0..MaxEdges /\ n - 1 < m /\ n - 1 + 1 = n
      BY <1>3
    <2> QED
      BY <1>8, <2>1
  <1> QED
    BY <1>1, <1>2, <1>11, <1>12, ListShape

\* A list read backwards.
Backs(s, pred) == \A k \in 1..Len(s) : pred[s[k]] = Before(s, k)

\* A new id in front of a list, by its links.
LEMMA SpellsFront ==
  ASSUME NEW s, NEW head, NEW succ, Spells(s, head, succ), NEW i \in EdgeIds, i \notin Elems(s),
         NEW succ2, succ2[i] = head, \A j \in EdgeIds : j # i => succ2[j] = succ[j]
  PROVE  Spells(Fronted(i, s), i, succ2)
  <1>1. s \in Seq(EdgeIds) /\ Once(s) /\ head = Foremost(s)
    BY DEF Spells
  <1>2. PICK t : t = Fronted(i, s)
    OBVIOUS
  <1>3. /\ t \in Seq(EdgeIds) /\ Once(t) /\ Len(t) = Len(s) + 1 /\ t[1] = i
        /\ \A n \in 1..Len(s) : t[n + 1] = s[n]
    BY <1>1, <1>2, FrontedIs
  <1>4. PICK m \in Nat : m = Len(s)
    BY <1>1, ListShape
  <1>5. \A n \in 1..m : s[n] \in EdgeIds /\ s[n] # i /\ succ[s[n]] = IF n = m THEN NoEdge ELSE s[n + 1]
    BY <1>1, <1>4, ListShape DEF Spells, After
  <1>6. ASSUME NEW k \in 1..(m + 1) PROVE succ2[t[k]] = IF k = m + 1 THEN NoEdge ELSE t[k + 1]
    <2>1. CASE k = 1 /\ m = 0
      BY <1>1, <1>3, <1>4, <2>1 DEF Foremost
    <2>2. CASE k = 1 /\ m # 0
      <3>1. 1 \in 1..m /\ t[1 + 1] = s[1]
        BY <1>3, <1>4, <2>2
      <3> QED
        BY <1>1, <1>3, <1>4, <2>2, <3>1 DEF Foremost
    <2>3. CASE k # 1
      <3>1. PICK n \in 1..m : n + 1 = k
        <4>1. k - 1 \in 1..m /\ (k - 1) + 1 = k
          BY <2>3
        <4> QED
          BY <4>1
      <3>2. t[k] = s[n] /\ succ2[t[k]] = IF n = m THEN NoEdge ELSE s[n + 1]
        BY <1>3, <1>4, <1>5, <3>1
      <3>3. n # m => n + 1 \in 1..m /\ t[(n + 1) + 1] = s[n + 1]
        BY <1>3, <1>4
      <3> QED
        BY <3>1, <3>2, <3>3
    <2> QED
      BY <2>1, <2>2, <2>3
  <1>7. i = Foremost(t)
    BY <1>3, <1>4 DEF Foremost
  <1> QED
    BY <1>2, <1>3, <1>4, <1>6, <1>7 DEF Spells, After

\* ... and backwards.
LEMMA BacksFront ==
  ASSUME NEW s, s \in Seq(EdgeIds), Once(s), NEW pred, Backs(s, pred), NEW i \in EdgeIds, i \notin Elems(s),
         NEW pred2, pred2[i] = NoEdge,
         \A j \in EdgeIds : j # i => pred2[j] = IF j = Foremost(s) THEN i ELSE pred[j]
  PROVE  Backs(Fronted(i, s), pred2)
  <1>2. PICK t : t = Fronted(i, s)
    OBVIOUS
  <1>3. /\ t \in Seq(EdgeIds) /\ Once(t) /\ Len(t) = Len(s) + 1 /\ t[1] = i
        /\ \A n \in 1..Len(s) : t[n + 1] = s[n]
    BY <1>2, FrontedIs
  <1>4. PICK m \in Nat : m = Len(s)
    BY ListShape
  <1>5. \A n \in 1..m : s[n] \in EdgeIds /\ s[n] # i /\ pred[s[n]] = IF n = 1 THEN NoEdge ELSE s[n - 1]
    BY <1>4, ListShape DEF Backs, Before
  <1>6. ASSUME NEW k \in 1..(m + 1) PROVE pred2[t[k]] = IF k = 1 THEN NoEdge ELSE t[k - 1]
    <2>1. CASE k = 1
      BY <1>3, <2>1
    <2>2. CASE k # 1
      <3>1. PICK n \in 1..m : n + 1 = k
        <4>1. k - 1 \in 1..m /\ (k - 1) + 1 = k
          BY <2>2
        <4> QED
          BY <4>1
      <3>2. t[k] = s[n] /\ k - 1 = n
        BY <1>3, <1>4, <3>1
      <3>3. Foremost(s) = s[1] /\ 1 \in 1..m
        BY <1>4 DEF Foremost
      <3>4. pred2[t[k]] = IF s[n] = s[1] THEN i ELSE pred[s[n]]
        BY <1>5, <3>2, <3>3
      <3>5. s[n] = s[1] <=> n = 1
        BY <1>4, <3>3 DEF Once
      <3>6. CASE n = 1
        BY <1>3, <3>2, <3>4, <3>5, <3>6, <2>2
      <3>7. CASE n # 1
        <4>1. n - 1 \in 1..m /\ (n - 1) + 1 = n
          BY <3>7
        <4>2. t[n] = s[n - 1]
          BY <1>3, <1>4, <4>1
        <4> QED
          BY <1>5, <2>2, <3>2, <3>4, <3>5, <3>7, <4>2
      <3> QED
        BY <3>6, <3>7
    <2> QED
      BY <2>1, <2>2
  <1> QED
    BY <1>2, <1>3, <1>4, <1>6 DEF Backs, Before

\* The neighbours of place k close the gap, in each direction.
NextBypass(s, k, head, succ, head2, succ2) ==
    /\ head2 = IF k = 1 THEN succ[s[k]] ELSE head
    /\ \A j \in EdgeIds : succ2[j] = IF k # 1 /\ j = s[k - 1] THEN succ[s[k]] ELSE succ[j]
PrevBypass(s, k, pred, pred2) ==
    \A j \in EdgeIds : pred2[j] = IF k # Len(s) /\ j = s[k + 1] THEN pred[s[k]] ELSE pred[j]

\* A list without its place k, by its links.
LEMMA SpellsClosed ==
  ASSUME NEW s, NEW head, NEW succ, Spells(s, head, succ), NEW k \in 1..Len(s),
         NEW head2, NEW succ2, NextBypass(s, k, head, succ, head2, succ2)
  PROVE  Spells(Closed(s, k), head2, succ2)
  <1>0. /\ head2 = IF k = 1 THEN succ[s[k]] ELSE head
        /\ \A j \in EdgeIds : succ2[j] = IF k # 1 /\ j = s[k - 1] THEN succ[s[k]] ELSE succ[j]
    BY DEF NextBypass
  <1>1. s \in Seq(EdgeIds) /\ Once(s) /\ head = Foremost(s)
    BY DEF Spells
  <1>2. PICK t : t = Closed(s, k)
    OBVIOUS
  <1>3. /\ t \in Seq(EdgeIds) /\ Once(t) /\ Len(t) = Len(s) - 1
        /\ \A n \in 1..(Len(s) - 1) : t[n] = IF n < k THEN s[n] ELSE s[n + 1]
        /\ Elems(t) = Elems(s) \ {s[k]}
    BY <1>1, <1>2, ClosedIs
  <1>4. PICK m \in Nat : m + 1 = Len(s)
    <2>1. Len(s) \in Nat
      BY <1>1, ListShape
    <2>2. Len(s) - 1 \in Nat /\ (Len(s) - 1) + 1 = Len(s)
      BY <2>1
    <2> QED
      BY <2>2
  <1>5. k \in 1..(m + 1) /\ Len(t) = m /\ \A n \in 1..m : t[n] = IF n < k THEN s[n] ELSE s[n + 1]
    BY <1>3, <1>4
  <1>6. \A n \in 1..(m + 1) : s[n] \in EdgeIds /\ succ[s[n]] = IF n = m + 1 THEN NoEdge ELSE s[n + 1]
    BY <1>1, <1>4, ListShape DEF Spells, After
  <1>7. \A a, b \in 1..(m + 1) : s[a] = s[b] => a = b
    BY <1>1, <1>4 DEF Once
  <1>8. head2 = Foremost(t)
    <2>1. Foremost(s) = s[1] /\ 1 \in 1..(m + 1)
      BY <1>4 DEF Foremost
    <2>2. CASE m = 0
      BY <1>0, <1>5, <1>6, <1>1, <2>1, <2>2 DEF Foremost
    <2>3. CASE m # 0 /\ k = 1
      <3>1. 1 \in 1..m /\ t[1] = s[1 + 1] /\ succ[s[1]] = s[1 + 1]
        BY <1>5, <1>6, <2>1, <2>3
      <3> QED
        BY <1>0, <1>5, <2>3, <3>1 DEF Foremost
    <2>4. CASE m # 0 /\ k # 1
      <3>1. 1 \in 1..m /\ t[1] = s[1]
        BY <1>5, <2>4
      <3> QED
        BY <1>0, <1>1, <1>5, <2>1, <2>4, <3>1 DEF Foremost
    <2> QED
      BY <2>2, <2>3, <2>4
  <1>9. ASSUME NEW n \in 1..m PROVE succ2[t[n]] = IF n = m THEN NoEdge ELSE t[n + 1]
    <2>1. n # m => n + 1 \in 1..m
      OBVIOUS
    <2>2. CASE n < k /\ n + 1 # k
      <3>1. n \in 1..(m + 1) /\ n + 1 < k /\ n # m + 1
        BY <1>5, <2>2
      <3>2. t[n] = s[n] /\ succ[s[n]] = s[n + 1] /\ n # m
        BY <1>5, <1>6, <3>1, <2>2
      <3>3. k # 1 => s[n] # s[k - 1]
        <4>1. k # 1 => k - 1 \in 1..(m + 1) /\ k - 1 # n
          BY <1>5, <2>2
        <4> QED
          BY <1>7, <3>1, <4>1
      <3>4. t[n + 1] = s[n + 1]
        BY <1>5, <2>1, <3>1, <3>2
      <3> QED
        BY <1>0, <1>6, <3>1, <3>2, <3>3, <3>4
    <2>3. CASE n + 1 = k
      <3>1. k # 1 /\ n = k - 1 /\ n < k /\ n \in 1..(m + 1) /\ k \in 1..(m + 1)
        BY <1>5, <2>3
      <3>2. t[n] = s[n] /\ succ2[s[n]] = succ[s[k]]
        BY <1>0, <1>5, <1>6, <3>1
      <3>3. n # m => t[n + 1] = s[n + 1 + 1] /\ succ[s[k]] = s[k + 1]
        <4>1. n # m => n + 1 \in 1..m /\ ~(n + 1 < k) /\ k # m + 1
          BY <1>5, <2>3
        <4> QED
          BY <1>5, <1>6, <3>1, <4>1
      <3>4. n = m => succ[s[k]] = NoEdge
        BY <1>6, <2>3, <3>1
      <3> QED
        BY <2>3, <3>2, <3>3, <3>4
    <2>4. CASE ~(n < k)
      <3>1. n + 1 \in 1..(m + 1) /\ t[n] = s[n + 1]
        BY <1>5, <2>4
      <3>2. k # 1 => s[n + 1] # s[k - 1]
        <4>1. k # 1 => k - 1 \in 1..(m + 1) /\ k - 1 # n + 1
          BY <1>5, <2>4
        <4> QED
          BY <1>7, <3>1, <4>1
      <3>3. succ2[t[n]] = IF n + 1 = m + 1 THEN NoEdge ELSE s[n + 1 + 1]
        BY <1>0, <1>6, <3>1, <3>2
      <3>4. n # m => t[n + 1] = s[n + 1 + 1]
        <4>1. n # m => n + 1 \in 1..m /\ ~(n + 1 < k)
          BY <1>5, <2>4
        <4> QED
          BY <1>5, <4>1
      <3> QED
        BY <3>3, <3>4
    <2> QED
      BY <1>5, <2>2, <2>3, <2>4
  <1> QED
    BY <1>2, <1>3, <1>5, <1>8, <1>9 DEF Spells, After

\* ... and backwards.
LEMMA BacksClosed ==
  ASSUME NEW s, s \in Seq(EdgeIds), Once(s), NEW pred, Backs(s, pred), NEW k \in 1..Len(s),
         NEW pred2, PrevBypass(s, k, pred, pred2)
  PROVE  Backs(Closed(s, k), pred2)
  <1>2. PICK t : t = Closed(s, k)
    OBVIOUS
  <1>3. /\ t \in Seq(EdgeIds) /\ Once(t) /\ Len(t) = Len(s) - 1
        /\ \A n \in 1..(Len(s) - 1) : t[n] = IF n < k THEN s[n] ELSE s[n + 1]
    BY <1>2, ClosedIs
  <1>4. PICK m \in Nat : m + 1 = Len(s)
    <2>1. Len(s) \in Nat
      BY ListShape
    <2>2. Len(s) - 1 \in Nat /\ (Len(s) - 1) + 1 = Len(s)
      BY <2>1
    <2> QED
      BY <2>2
  <1>5. k \in 1..(m + 1) /\ Len(t) = m /\ \A n \in 1..m : t[n] = IF n < k THEN s[n] ELSE s[n + 1]
    BY <1>3, <1>4
  <1>6. \A n \in 1..(m + 1) : s[n] \in EdgeIds /\ pred[s[n]] = IF n = 1 THEN NoEdge ELSE s[n - 1]
    BY <1>4, ListShape DEF Backs, Before
  <1>7. \A a, b \in 1..(m + 1) : s[a] = s[b] => a = b
    BY <1>4 DEF Once
  <1>8. \A j \in EdgeIds : pred2[j] = IF k # m + 1 /\ j = s[k + 1] THEN pred[s[k]] ELSE pred[j]
    BY <1>4 DEF PrevBypass
  <1>9. ASSUME NEW n \in 1..m PROVE pred2[t[n]] = IF n = 1 THEN NoEdge ELSE t[n - 1]
    <2>1. n # 1 => n - 1 \in 1..m
      OBVIOUS
    <2>2. CASE n < k
      <3>1. n \in 1..(m + 1) /\ t[n] = s[n]
        BY <1>5, <2>2
      <3>2. k # m + 1 => s[n] # s[k + 1]
        <4>1. k # m + 1 => k + 1 \in 1..(m + 1) /\ k + 1 # n
          BY <1>5, <2>2
        <4> QED
          BY <1>7, <3>1, <4>1
      <3>3. pred2[t[n]] = IF n = 1 THEN NoEdge ELSE s[n - 1]
        BY <1>6, <1>8, <3>1, <3>2
      <3>4. n # 1 => t[n - 1] = s[n - 1]
        <4>1. n # 1 => n - 1 < k
          BY <1>5, <2>2
        <4> QED
          BY <1>5, <2>1, <4>1
      <3> QED
        BY <3>3, <3>4
    <2>3. CASE n = k
      <3>1. k # m + 1 /\ k + 1 \in 1..(m + 1) /\ ~(n < k)
        BY <2>3
      <3>5. t[n] = s[k + 1]
        BY <1>5, <2>3, <3>1
      <3>2. pred2[t[n]] = pred[s[k]]
        BY <1>6, <1>8, <3>1, <3>5
      <3>3. pred[s[k]] = IF n = 1 THEN NoEdge ELSE s[n - 1]
        BY <1>5, <1>6, <2>3
      <3>4. n # 1 => t[n - 1] = s[n - 1]
        <4>1. n - 1 < k
          BY <2>3
        <4> QED
          BY <1>5, <2>1, <4>1
      <3> QED
        BY <3>2, <3>3, <3>4
    <2>4. CASE n > k
      <3>1. n + 1 \in 1..(m + 1) /\ t[n] = s[n + 1] /\ n + 1 # 1 /\ n # 1
        BY <1>5, <2>4
      <3>2. k # m + 1 => s[n + 1] # s[k + 1]
        <4>1. k # m + 1 => k + 1 \in 1..(m + 1) /\ k + 1 # n + 1
          BY <1>5, <2>4
        <4> QED
          BY <1>7, <3>1, <4>1
      <3>3. PICK p \in 1..(m + 1) : p = n + 1
        BY <3>1
      <3>4. p - 1 = n /\ p # 1
        BY <3>3
      <3>5. pred2[t[n]] = pred[s[p]]
        BY <1>6, <1>8, <3>1, <3>2, <3>3
      <3>6. pred[s[p]] = s[n]
        BY <1>6, <3>4
      <3>7. PICK q \in 1..m : q = n - 1
        BY <2>1, <3>1
      <3>8. q + 1 = n /\ ~(q < k)
        BY <2>4, <3>7
      <3>9. t[n - 1] = s[n]
        BY <1>5, <3>7, <3>8
      <3> QED
        BY <3>1, <3>5, <3>6, <3>9
    <2> QED
      BY <1>5, <2>2, <2>3, <2>4
  <1> QED
    BY <1>2, <1>3, <1>5, <1>9 DEF Backs, Before

\* A list and its links both ways, with its length and its members.
Threaded(s, head, succ, pred, count, mem) ==
    Spells(s, head, succ) /\ Backs(s, pred) /\ count = Len(s) /\ Elems(s) = mem

\* A list whose links stay.
LEMMA SpellsSame ==
  ASSUME NEW s, NEW head, NEW succ, Spells(s, head, succ),
         NEW succ2, \A j \in Elems(s) : succ2[j] = succ[j]
  PROVE  Spells(s, head, succ2)
  <1>1. s \in Seq(EdgeIds)
    BY DEF Spells
  <1>2. \A k \in 1..Len(s) : s[k] \in Elems(s)
    BY <1>1, ListShape
  <1> QED
    BY <1>2 DEF Spells

\* A list threaded both ways whose links stay.
LEMMA ThreadSame ==
  ASSUME NEW head, NEW succ, NEW pred, NEW count, NEW mem,
         \E s : Threaded(s, head, succ, pred, count, mem),
         NEW succ2, NEW pred2, \A j \in mem : succ2[j] = succ[j] /\ pred2[j] = pred[j]
  PROVE  \E s : Threaded(s, head, succ2, pred2, count, mem)
  <1>1. PICK s : Threaded(s, head, succ, pred, count, mem)
    OBVIOUS
  <1>2. Spells(s, head, succ) /\ Backs(s, pred) /\ Elems(s) = mem
    BY <1>1 DEF Threaded
  <1>3. s \in Seq(EdgeIds) /\ \A j \in Elems(s) : succ2[j] = succ[j]
    BY <1>2 DEF Spells
  <1>4. Spells(s, head, succ2)
    BY <1>2, <1>3, SpellsSame
  <1>5. \A k \in 1..Len(s) : s[k] \in mem
    BY <1>2, <1>3, ListShape
  <1>6. Backs(s, pred2)
    BY <1>2, <1>5 DEF Backs
  <1> QED
    BY <1>1, <1>4, <1>6 DEF Threaded

\* The links after i is put in front of the list that began with head.
LinksInFront(i, head, succ, pred, succ2, pred2) ==
    /\ succ2[i] = head /\ \A j \in EdgeIds : j # i => succ2[j] = succ[j]
    /\ pred2[i] = NoEdge /\ \A j \in EdgeIds : j # i => pred2[j] = IF j = head THEN i ELSE pred[j]

\* A record put in front of its list.
LEMMA ThreadFront ==
  ASSUME NEW head, NEW succ, NEW pred, NEW count, NEW mem,
         \E s : Threaded(s, head, succ, pred, count, mem),
         NEW i \in EdgeIds, i \notin mem,
         NEW succ2, NEW pred2, LinksInFront(i, head, succ, pred, succ2, pred2)
  PROVE  \E s : Threaded(s, i, succ2, pred2, count + 1, mem \cup {i})
  <1>0. /\ succ2[i] = head /\ \A j \in EdgeIds : j # i => succ2[j] = succ[j]
        /\ pred2[i] = NoEdge /\ \A j \in EdgeIds : j # i => pred2[j] = IF j = head THEN i ELSE pred[j]
    BY DEF LinksInFront
  <1>1. PICK s : Threaded(s, head, succ, pred, count, mem)
    OBVIOUS
  <1>2. Spells(s, head, succ) /\ Backs(s, pred) /\ Elems(s) = mem /\ count = Len(s)
    BY <1>1 DEF Threaded
  <1>3. s \in Seq(EdgeIds) /\ Once(s) /\ head = Foremost(s) /\ i \notin Elems(s)
    BY <1>2 DEF Spells
  <1>4. PICK t : t = Fronted(i, s)
    OBVIOUS
  <1>5. Len(t) = Len(s) + 1 /\ Elems(t) = Elems(s) \cup {i}
    BY <1>3, <1>4, FrontedIs
  <1>6. Spells(t, i, succ2)
    BY <1>0, <1>2, <1>3, <1>4, SpellsFront
  <1>7. \A j \in EdgeIds : j # i => pred2[j] = IF j = Foremost(s) THEN i ELSE pred[j]
    BY <1>0, <1>3
  <1>8. Backs(t, pred2)
    BY <1>0, <1>2, <1>3, <1>4, <1>7, BacksFront
  <1> QED
    BY <1>2, <1>5, <1>6, <1>8 DEF Threaded

\* The links after the neighbours of i have closed the gap.
LinksAround(i, head, succ, pred, head2, succ2, pred2) ==
    /\ head2 = IF pred[i] = NoEdge THEN succ[i] ELSE head
    /\ \A j \in EdgeIds : succ2[j] = IF j = pred[i] THEN succ[i] ELSE succ[j]
    /\ \A j \in EdgeIds : pred2[j] = IF j = succ[i] THEN pred[i] ELSE pred[j]

\* A record taken out of its list: its neighbours close the gap.
LEMMA ThreadClosed ==
  ASSUME NEW head, NEW succ, NEW pred, NEW count, NEW mem,
         \E s : Threaded(s, head, succ, pred, count, mem), NEW i \in mem,
         NEW head2, NEW succ2, NEW pred2, LinksAround(i, head, succ, pred, head2, succ2, pred2)
  PROVE  \E s : Threaded(s, head2, succ2, pred2, count - 1, mem \ {i})
  <1>0. /\ head2 = IF pred[i] = NoEdge THEN succ[i] ELSE head
        /\ \A j \in EdgeIds : succ2[j] = IF j = pred[i] THEN succ[i] ELSE succ[j]
        /\ \A j \in EdgeIds : pred2[j] = IF j = succ[i] THEN pred[i] ELSE pred[j]
    BY DEF LinksAround
  <1>1. PICK s : Threaded(s, head, succ, pred, count, mem)
    OBVIOUS
  <1>2. Spells(s, head, succ) /\ Backs(s, pred) /\ Elems(s) = mem /\ count = Len(s)
    BY <1>1 DEF Threaded
  <1>3. s \in Seq(EdgeIds) /\ Once(s) /\ head = Foremost(s)
    BY <1>2 DEF Spells
  <1>4. PICK k \in 1..Len(s) : s[k] = i
    BY <1>2, <1>3, ListShape
  <1>5. Len(s) \in Nat /\ NoEdge \notin EdgeIds /\ \A n \in 1..Len(s) : s[n] \in EdgeIds
    BY <1>3, ListShape, ArenaAssumption DEF EdgeIds
  <1>6. pred[i] = IF k = 1 THEN NoEdge ELSE s[k - 1]
    BY <1>2, <1>4 DEF Backs, Before
  <1>7. succ[i] = IF k = Len(s) THEN NoEdge ELSE s[k + 1]
    BY <1>2, <1>4 DEF Spells, After
  <1>8. k # 1 => s[k - 1] # NoEdge
    <2>1. k # 1 => k - 1 \in 1..Len(s)
      BY <1>5
    <2> QED
      BY <1>5, <2>1
  <1>9. head2 = IF k = 1 THEN succ[s[k]] ELSE head
    BY <1>0, <1>4, <1>6, <1>8
  <1>10. \A j \in EdgeIds : succ2[j] = IF k # 1 /\ j = s[k - 1] THEN succ[s[k]] ELSE succ[j]
    BY <1>0, <1>4, <1>5, <1>6
  <1>11. PrevBypass(s, k, pred, pred2)
    BY <1>0, <1>4, <1>5, <1>7 DEF PrevBypass
  <1>12. PICK t : t = Closed(s, k)
    OBVIOUS
  <1>13. Len(t) = Len(s) - 1 /\ Elems(t) = Elems(s) \ {s[k]}
    BY <1>3, <1>12, ClosedIs
  <1>14. Spells(t, head2, succ2)
    <2>1. NextBypass(s, k, head, succ, head2, succ2)
      BY <1>9, <1>10 DEF NextBypass
    <2> QED
      BY <1>2, <1>12, <2>1, SpellsClosed
  <1>15. Backs(t, pred2)
    BY <1>2, <1>3, <1>11, <1>12, BacksClosed
  <1> QED
    BY <1>2, <1>4, <1>13, <1>14, <1>15 DEF Threaded

-----------------------------------------------------------------------------
(* The edge arena: the invariant of its steps *)

LinkIds == EdgeIds \cup {NoEdge}
RowOrNone == AllRows \cup {NoEdge}
EdgeRecs == [src : RowOrNone, dst : RowOrNone, prevOut : LinkIds, nextOut : LinkIds,
             prevIn : LinkIds, nextIn : LinkIds, nextFree : LinkIds, live : BOOLEAN]
RowRecs == [outHead : LinkIds, inHead : LinkIds, outCount : Int, inCount : Int]
HeadRecs == [id : LinkIds, tag : Nat]
EnginePlaces == {"idle", "pop", "popcas", "link", "push", "pushcas"}
AtRecs == [at : EnginePlaces, src : RowOrNone, dst : RowOrNone, id : LinkIds, head : HeadRecs, next : LinkIds]

ArenaTyped ==
    /\ recs \in [EdgeIds -> EdgeRecs] /\ row \in [AllRows -> RowRecs] /\ freeHead \in HeadRecs
    /\ nextId \in 1..(MaxEdges + 1) /\ eat \in [Engines -> AtRecs]
    /\ edges \in [AllRows \X AllRows -> Int]

\* Engine t has a record in hand, and what is then so.
Holding(t) == eat[t].at \in {"link", "push", "pushcas"}
HandIsApart(t) ==
    Holding(t) =>
        /\ eat[t].id \in EdgeIds /\ eat[t].id < nextId /\ ~recs[eat[t].id].live
        /\ \A u \in Engines : Holding(u) /\ eat[u].id = eat[t].id => u = t

\* Record i is used, not linked and in nobody's hand.
IsFree(i) == i < nextId /\ ~recs[i].live /\ \A t \in Engines : ~(Holding(t) /\ eat[t].id = i)
FreeSpelled ==
    \E s : Spells(s, freeHead.id, NextFree) /\ \A i \in EdgeIds : i \in Elems(s) <=> IsFree(i)

\* What engine t knows of the head it has read: an older one, or still the head.
HeadIsKnown(t) ==
    /\ eat[t].at \in {"pop", "popcas", "push", "pushcas"} =>
         /\ eat[t].head.tag <= freeHead.tag
         /\ eat[t].head.tag = freeHead.tag => eat[t].head = freeHead
    /\ eat[t].at = "popcas" =>
         /\ eat[t].head.id \in EdgeIds
         /\ eat[t].head = freeHead => eat[t].next = recs[eat[t].head.id].nextFree
    /\ eat[t].at = "pushcas" => recs[eat[t].id].nextFree = eat[t].head.id
    /\ eat[t].at \in {"pop", "popcas", "link"} => eat[t].src \in AllRows /\ eat[t].dst \in AllRows

LiveIsUsed(i) == recs[i].live => i < nextId /\ recs[i].src \in AllRows /\ recs[i].dst \in AllRows

\* The lists of a row and the live edges between two.
PrevOut == [i \in EdgeIds |-> recs[i].prevOut]
PrevIn == [i \in EdgeIds |-> recs[i].prevIn]
OutOf(r) == {i \in EdgeIds : recs[i].live /\ recs[i].src = r}
InOf(r) == {i \in EdgeIds : recs[i].live /\ recs[i].dst = r}
Between(s, d) == {i \in EdgeIds : recs[i].live /\ recs[i].src = s /\ recs[i].dst = d}

OutThreaded(r) == \E s : Threaded(s, row[r].outHead, NextOut, PrevOut, row[r].outCount, OutOf(r))
InThreaded(r) == \E s : Threaded(s, row[r].inHead, NextIn, PrevIn, row[r].inCount, InOf(r))
RowsLinked ==
    /\ \A r \in AllRows : OutThreaded(r) /\ InThreaded(r)
    /\ \A s, d \in AllRows : edges[<<s, d>>] = Cardinality(Between(s, d))

RecordsKept ==
    /\ \A t \in Engines : HandIsApart(t) /\ HeadIsKnown(t)
    /\ \A i \in EdgeIds : LiveIsUsed(i)
    /\ FreeSpelled

ArenaInv == ArenaTyped /\ RecordsKept /\ RowsLinked

\* What the lists of the rows say is kept by a step that leaves their links alone.
LEMMA RowsKept ==
  ASSUME RowsLinked, row' = row, edges' = edges,
         \A i \in EdgeIds :
            /\ recs'[i].live = recs[i].live /\ recs'[i].src = recs[i].src /\ recs'[i].dst = recs[i].dst
            /\ recs'[i].nextOut = recs[i].nextOut /\ recs'[i].prevOut = recs[i].prevOut
            /\ recs'[i].nextIn = recs[i].nextIn /\ recs'[i].prevIn = recs[i].prevIn
  PROVE  RowsLinked'
  <1>1. /\ NextOut' = NextOut /\ PrevOut' = PrevOut /\ NextIn' = NextIn /\ PrevIn' = PrevIn
    BY DEF NextOut, PrevOut, NextIn, PrevIn
  <1>2. \A r \in AllRows : OutOf(r)' = OutOf(r) /\ InOf(r)' = InOf(r)
    BY DEF OutOf, InOf
  <1>3. \A s, d \in AllRows : Between(s, d)' = Between(s, d)
    BY DEF Between
  <1>4. \A r \in AllRows : OutThreaded(r) /\ InThreaded(r)
    BY DEF RowsLinked
  <1>5. ASSUME NEW r \in AllRows PROVE OutThreaded(r)' /\ InThreaded(r)'
    <2>1. OutThreaded(r)'
      BY <1>1, <1>2, <1>4 DEF OutThreaded
    <2>2. InThreaded(r)'
      BY <1>1, <1>2, <1>4 DEF InThreaded
    <2> QED
      BY <2>1, <2>2
  <1>6. \A s, d \in AllRows : edges'[<<s, d>>] = Cardinality(Between(s, d)')
    BY <1>3 DEF RowsLinked
  <1> QED
    BY <1>5, <1>6 DEF RowsLinked

\* The free list is kept by a step that leaves the free records alone.
LEMMA FreeKept ==
  ASSUME FreeSpelled, freeHead' = freeHead,
         \A i \in EdgeIds : (IsFree(i)' <=> IsFree(i)) /\ (IsFree(i) => recs'[i].nextFree = recs[i].nextFree)
  PROVE  FreeSpelled'
  <1>1. PICK s : Spells(s, freeHead.id, NextFree) /\ \A i \in EdgeIds : i \in Elems(s) <=> IsFree(i)
    BY DEF FreeSpelled
  <1>2. \A i \in Elems(s) : i \in EdgeIds
    BY <1>1, ListShape DEF Spells
  <1>3. \A i \in Elems(s) : NextFree'[i] = NextFree[i]
    BY <1>1, <1>2 DEF NextFree
  <1>4. Spells(s, freeHead.id, NextFree')
    BY <1>1, <1>3, SpellsSame
  <1>5. Spells(s, freeHead.id, NextFree)'
    BY <1>4
  <1> QED
    BY <1>1, <1>5 DEF FreeSpelled

\* The head of the free list is a free record.
LEMMA HeadIsFree ==
  ASSUME FreeSpelled
  PROVE  freeHead.id = NoEdge \/ (freeHead.id \in EdgeIds /\ IsFree(freeHead.id))
  <1>1. PICK s : Spells(s, freeHead.id, NextFree) /\ \A i \in EdgeIds : i \in Elems(s) <=> IsFree(i)
    BY DEF FreeSpelled
  <1>2. s \in Seq(EdgeIds) /\ freeHead.id = Foremost(s)
    BY <1>1 DEF Spells
  <1>3. Len(s) # 0 => 1 \in 1..Len(s)
    BY <1>2, ListShape
  <1>4. Len(s) # 0 => s[1] \in EdgeIds /\ s[1] \in Elems(s)
    BY <1>2, <1>3, ListShape
  <1> QED
    BY <1>1, <1>2, <1>4 DEF Foremost

\* What another engine knows of its head outlives a step that keeps the head or bumps its tag.
LEMMA KnownKept ==
  ASSUME ArenaTyped, FreeSpelled, NEW u \in Engines, HeadIsKnown(u), eat'[u] = eat[u],
         freeHead' = freeHead \/ (freeHead' \in HeadRecs /\ freeHead.tag < freeHead'.tag),
         \A i \in EdgeIds : IsFree(i) => recs'[i].nextFree = recs[i].nextFree,
         eat[u].at = "pushcas" => recs'[eat[u].id].nextFree = recs[eat[u].id].nextFree
  PROVE  HeadIsKnown(u)'
  <1>1. eat[u].head \in HeadRecs /\ freeHead \in HeadRecs
    BY DEF ArenaTyped, AtRecs
  <1>2. eat[u].head.tag \in Nat /\ freeHead.tag \in Nat /\ (freeHead' # freeHead => freeHead'.tag \in Nat)
    BY <1>1 DEF HeadRecs
  <1>3. freeHead.id = NoEdge \/ (freeHead.id \in EdgeIds /\ IsFree(freeHead.id))
    BY HeadIsFree
  <1>4. NoEdge \notin EdgeIds
    BY ArenaAssumption DEF EdgeIds
  <1>5. CASE freeHead' = freeHead
    <2>1. eat[u].at = "popcas" /\ eat[u].head = freeHead => eat[u].next = recs'[eat[u].head.id].nextFree
      BY <1>3, <1>4 DEF HeadIsKnown
    <2> QED
      BY <1>5, <2>1 DEF HeadIsKnown
  <1>6. CASE freeHead.tag < freeHead'.tag
    <2>1. freeHead'.tag \in Nat /\ freeHead' # freeHead
      BY <1>2, <1>6
    <2>2. eat[u].at \in {"pop", "popcas", "push", "pushcas"} =>
            eat[u].head.tag < freeHead'.tag /\ eat[u].head # freeHead'
      <3>1. eat[u].at \in {"pop", "popcas", "push", "pushcas"} => eat[u].head.tag <= freeHead.tag
        BY DEF HeadIsKnown
      <3>2. eat[u].at \in {"pop", "popcas", "push", "pushcas"} => eat[u].head.tag < freeHead'.tag
        BY <1>2, <1>6, <2>1, <3>1
      <3> QED
        BY <1>2, <2>1, <3>2
    <2>3. eat[u].at \in {"pop", "popcas", "push", "pushcas"} =>
            eat[u].head.tag <= freeHead'.tag /\ eat[u].head.tag # freeHead'.tag
      BY <1>2, <2>1, <2>2
    <2> QED
      BY <2>2, <2>3 DEF HeadIsKnown
  <1> QED
    BY <1>5, <1>6

\* Taking a step that changes only where one engine is, not what it holds.
LEMMA OnlyMoved ==
  ASSUME ArenaInv, NEW t \in Engines, NEW rec \in AtRecs, eat' = [eat EXCEPT ![t] = rec],
         UNCHANGED <<recs, row, freeHead, nextId, edges>>,
         rec.at \in {"link", "push", "pushcas"} <=> Holding(t),
         Holding(t) => rec.id = eat[t].id,
         HeadIsKnown(t)'
  PROVE  ArenaInv'
  <1>1. ArenaTyped /\ RecordsKept /\ RowsLinked
    BY DEF ArenaInv
  <1>2. eat \in [Engines -> AtRecs] /\ freeHead \in HeadRecs
    BY <1>1 DEF ArenaTyped
  <1>3. \A u \in Engines : eat'[u] = IF u = t THEN rec ELSE eat[u]
    BY <1>2
  <1>4. eat' \in [Engines -> AtRecs]
    BY <1>2
  <1>5. ArenaTyped'
    BY <1>1, <1>4 DEF ArenaTyped
  <1>6. \A u \in Engines : (Holding(u)' <=> Holding(u)) /\ (Holding(u) => eat'[u].id = eat[u].id)
    BY <1>3 DEF Holding
  <1>7. ASSUME NEW u \in Engines PROVE HandIsApart(u)'
    <2>1. HandIsApart(u)
      BY <1>1 DEF RecordsKept
    <2> QED
      BY <1>6, <2>1 DEF HandIsApart
  <1>8. ASSUME NEW u \in Engines PROVE HeadIsKnown(u)'
    <2>1. CASE u = t
      BY <2>1
    <2>2. CASE u # t
      <3>1. eat'[u] = eat[u] /\ HeadIsKnown(u) /\ FreeSpelled
        BY <1>1, <1>3, <2>2 DEF RecordsKept
      <3> QED
        BY <1>1, <3>1, KnownKept
    <2> QED
      BY <2>1, <2>2
  <1>9. \A i \in EdgeIds : IsFree(i)' <=> IsFree(i)
    BY <1>6 DEF IsFree
  <1>10. FreeSpelled'
    <2>1. FreeSpelled
      BY <1>1 DEF RecordsKept
    <2> QED
      BY <1>9, <2>1, FreeKept
  <1>11. \A i \in EdgeIds : LiveIsUsed(i)'
    BY <1>1 DEF RecordsKept, LiveIsUsed
  <1>12. RecordsKept'
    BY <1>7, <1>8, <1>10, <1>11 DEF RecordsKept
  <1>13. RowsLinked'
    BY <1>1, RowsKept
  <1> QED
    BY <1>5, <1>12, <1>13 DEF ArenaInv

\* An engine that begins to add an edge reads the head of the free list.
LEMMA BeginAddKeeps ==
  ASSUME ArenaInv, NEW t \in Engines, NEW s \in Rows[t], NEW d \in Rows[t], BeginAdd(t, s, d)
  PROVE  ArenaInv'
  <1>1. ArenaTyped /\ s \in AllRows /\ d \in AllRows
    BY DEF ArenaInv, AllRows
  <1>2. freeHead \in HeadRecs /\ freeHead.tag \in Nat /\ eat \in [Engines -> AtRecs]
    BY <1>1 DEF ArenaTyped, HeadRecs
  <1>3. PICK rec : rec = [Waiting EXCEPT !.at = "pop", !.src = s, !.dst = d, !.head = freeHead]
    OBVIOUS
  <1>4. rec = [at |-> "pop", src |-> s, dst |-> d, id |-> NoEdge, head |-> freeHead, next |-> NoEdge]
    BY <1>3 DEF Waiting
  <1>5. rec \in AtRecs
    BY <1>1, <1>2, <1>4 DEF AtRecs, EnginePlaces, RowOrNone, LinkIds
  <1>6. eat' = [eat EXCEPT ![t] = rec] /\ UNCHANGED <<recs, row, freeHead, nextId, edges>> /\ eat[t].at = "idle"
    BY <1>3 DEF BeginAdd
  <1>7. eat'[t] = rec /\ ~Holding(t)
    BY <1>2, <1>6 DEF Holding
  <1>8. HeadIsKnown(t)'
    BY <1>1, <1>2, <1>4, <1>6, <1>7 DEF HeadIsKnown
  <1>9. rec.at \in {"link", "push", "pushcas"} <=> Holding(t)
    BY <1>4, <1>7
  <1> QED
    BY <1>5, <1>6, <1>7, <1>8, <1>9, OnlyMoved

\* popFree reads what follows the head it has read.
LEMMA ReadNextKeeps ==
  ASSUME ArenaInv, NEW t \in Engines, ReadNext(t)
  PROVE  ArenaInv'
  <1>1. ArenaTyped /\ HeadIsKnown(t)
    BY DEF ArenaInv, RecordsKept
  <1>2. freeHead \in HeadRecs /\ eat \in [Engines -> AtRecs] /\ recs \in [EdgeIds -> EdgeRecs] /\ eat[t] \in AtRecs
    BY <1>1 DEF ArenaTyped
  <1>3. eat[t].head \in HeadRecs /\ eat[t].head.id \in EdgeIds
    BY <1>2 DEF ReadNext, AtRecs, HeadRecs, LinkIds
  <1>4. PICK nx : nx = recs[eat[t].head.id].nextFree
    OBVIOUS
  <1>5. nx \in LinkIds
    BY <1>2, <1>3, <1>4 DEF EdgeRecs
  <1>6. PICK rec : rec = [eat[t] EXCEPT !.at = "popcas", !.next = nx]
    OBVIOUS
  <1>7. /\ rec.at = "popcas" /\ rec.next = nx /\ rec.head = eat[t].head
        /\ rec.src = eat[t].src /\ rec.dst = eat[t].dst /\ rec.id = eat[t].id
    BY <1>2, <1>6 DEF AtRecs
  <1>8. rec \in AtRecs
    BY <1>2, <1>5, <1>6 DEF AtRecs, EnginePlaces
  <1>9. eat' = [eat EXCEPT ![t] = rec] /\ UNCHANGED <<recs, row, freeHead, nextId, edges>> /\ eat[t].at = "pop"
    BY <1>4, <1>6 DEF ReadNext
  <1>10. eat'[t] = rec /\ ~Holding(t)
    BY <1>2, <1>9 DEF Holding
  <1>11. HeadIsKnown(t)'
    BY <1>1, <1>3, <1>4, <1>7, <1>9, <1>10 DEF HeadIsKnown
  <1>12. rec.at \in {"link", "push", "pushcas"} <=> Holding(t)
    BY <1>7, <1>10
  <1> QED
    BY <1>8, <1>9, <1>10, <1>11, <1>12, OnlyMoved

\* An exchange that fails reads the head again.
LEMMA MissKeeps ==
  ASSUME ArenaInv, NEW t \in Engines, NEW place \in {"pop", "push"},
         IF place = "pop" THEN eat[t].at = "popcas" ELSE eat[t].at = "pushcas",
         eat' = [eat EXCEPT ![t].at = place, ![t].head = freeHead],
         UNCHANGED <<recs, row, freeHead, nextId, edges>>
  PROVE  ArenaInv'
  <1>1. ArenaTyped /\ HeadIsKnown(t)
    BY DEF ArenaInv, RecordsKept
  <1>2. freeHead \in HeadRecs /\ freeHead.tag \in Nat /\ eat \in [Engines -> AtRecs] /\ eat[t] \in AtRecs
    BY <1>1 DEF ArenaTyped, HeadRecs
  <1>3. PICK rec : rec = [eat[t] EXCEPT !.at = place, !.head = freeHead]
    OBVIOUS
  <1>4. /\ rec.at = place /\ rec.head = freeHead
        /\ rec.src = eat[t].src /\ rec.dst = eat[t].dst /\ rec.id = eat[t].id
    BY <1>2, <1>3 DEF AtRecs
  <1>5. rec \in AtRecs
    BY <1>2, <1>3 DEF AtRecs, EnginePlaces
  <1>6. eat' = [eat EXCEPT ![t] = rec]
    BY <1>3
  <1>7. eat'[t] = rec
    BY <1>2, <1>6
  <1>8. HeadIsKnown(t)'
    BY <1>1, <1>2, <1>4, <1>7 DEF HeadIsKnown
  <1>9. rec.at \in {"link", "push", "pushcas"} <=> Holding(t)
    BY <1>4 DEF Holding
  <1> QED
    BY <1>4, <1>5, <1>6, <1>7, <1>8, <1>9, OnlyMoved

\* A free record goes into the hand of one engine: what holds of the hands then.
LEMMA HandTakes ==
  ASSUME ArenaInv, NEW t \in Engines, NEW i \in EdgeIds, NEW rec \in AtRecs,
         rec.at = "link", rec.id = i, eat' = [eat EXCEPT ![t] = rec], recs' = recs, ~Holding(t),
         i < nextId', nextId' \in Nat, nextId <= nextId', ~recs[i].live,
         \A u \in Engines : Holding(u) => eat[u].id # i
  PROVE  /\ \A u \in Engines : eat'[u] = IF u = t THEN rec ELSE eat[u]
         /\ \A u \in Engines : HandIsApart(u)'
         /\ \A j \in EdgeIds : LiveIsUsed(j)'
         /\ Holding(t)' /\ \A u \in Engines : u # t => (Holding(u)' <=> Holding(u))
  <1>1. /\ eat \in [Engines -> AtRecs] /\ nextId \in Nat
        /\ \A u \in Engines : HandIsApart(u)
        /\ \A j \in EdgeIds : LiveIsUsed(j)
    <2>1. MaxEdges + 1 \in Nat
      BY ArenaAssumption
    <2> QED
      BY <2>1 DEF ArenaInv, ArenaTyped, RecordsKept
  <1>2. \A u \in Engines : eat'[u] = IF u = t THEN rec ELSE eat[u]
    BY <1>1
  <1>3. Holding(t)' /\ \A u \in Engines : u # t => (Holding(u)' <=> Holding(u))
    BY <1>2 DEF Holding
  <1>4. \A j \in EdgeIds : j < nextId => j < nextId'
    BY <1>1 DEF EdgeIds
  <1>5. ASSUME NEW u \in Engines PROVE HandIsApart(u)'
    <2>1. CASE u = t
      <3>1. \A w \in Engines : Holding(w)' /\ eat'[w].id = i => w = t
        BY <1>2, <1>3
      <3> QED
        BY <1>2, <2>1, <3>1 DEF HandIsApart
    <2>2. CASE u # t
      <3>1. HandIsApart(u) /\ eat'[u] = eat[u] /\ (Holding(u)' <=> Holding(u))
        BY <1>1, <1>2, <1>3, <2>2
      <3>2. ASSUME Holding(u)'
            PROVE  /\ eat[u].id \in EdgeIds /\ eat[u].id < nextId' /\ ~recs[eat[u].id].live
                   /\ \A w \in Engines : Holding(w)' /\ eat'[w].id = eat[u].id => w = u
        <4>1. /\ eat[u].id \in EdgeIds /\ eat[u].id < nextId /\ ~recs[eat[u].id].live
              /\ \A w \in Engines : Holding(w) /\ eat[w].id = eat[u].id => w = u
          BY <3>1, <3>2 DEF HandIsApart
        <4>2. eat[u].id # i
          BY <3>1, <3>2
        <4>3. \A w \in Engines : Holding(w)' /\ eat'[w].id = eat[u].id => w = u
          BY <1>2, <1>3, <4>1, <4>2
        <4> QED
          BY <1>4, <4>1, <4>3
      <3> QED
        BY <3>1, <3>2 DEF HandIsApart
    <2> QED
      BY <2>1, <2>2
  <1>6. \A j \in EdgeIds : LiveIsUsed(j)'
    BY <1>1, <1>4 DEF LiveIsUsed
  <1> QED
    BY <1>2, <1>3, <1>5, <1>6

\* allocateEdge with an id never used before.
LEMMA FreshIdKeeps ==
  ASSUME ArenaInv, NEW t \in Engines, FreshId(t)
  PROVE  ArenaInv'
  <1>1. ArenaTyped /\ RecordsKept /\ RowsLinked
    BY DEF ArenaInv
  <1>2. /\ eat \in [Engines -> AtRecs] /\ eat[t] \in AtRecs /\ MaxEdges \in Nat
        /\ nextId \in 1..(MaxEdges + 1)
    BY <1>1, ArenaAssumption DEF ArenaTyped
  <1>3. nextId \in EdgeIds /\ nextId' \in 1..(MaxEdges + 1) /\ nextId' = nextId + 1
    BY <1>2 DEF FreshId, EdgeIds
  <1>4. PICK rec : rec = [eat[t] EXCEPT !.at = "link", !.id = nextId]
    OBVIOUS
  <1>5. /\ rec.at = "link" /\ rec.id = nextId /\ rec.head = eat[t].head
        /\ rec.src = eat[t].src /\ rec.dst = eat[t].dst
    BY <1>2, <1>4 DEF AtRecs
  <1>6. rec \in AtRecs
    BY <1>2, <1>3, <1>4 DEF AtRecs, EnginePlaces, LinkIds
  <1>7. eat' = [eat EXCEPT ![t] = rec] /\ UNCHANGED <<recs, row, freeHead, edges>> /\ eat[t].at = "pop"
    BY <1>4 DEF FreshId
  <1>8. ~Holding(t)
    BY <1>7 DEF Holding
  <1>9. /\ nextId < nextId' /\ nextId' \in Nat /\ nextId <= nextId'
        /\ \A j \in EdgeIds : j < nextId' <=> j < nextId \/ j = nextId
    BY <1>2, <1>3 DEF EdgeIds
  <1>10. ~recs[nextId].live /\ \A u \in Engines : Holding(u) => eat[u].id # nextId
    <2>1. ~(nextId < nextId)
      BY <1>2
    <2>2. LiveIsUsed(nextId) /\ \A u \in Engines : HandIsApart(u)
      BY <1>1, <1>3 DEF RecordsKept
    <2> QED
      BY <2>1, <2>2 DEF LiveIsUsed, HandIsApart
  <1>11. /\ \A u \in Engines : eat'[u] = IF u = t THEN rec ELSE eat[u]
         /\ \A u \in Engines : HandIsApart(u)'
         /\ \A j \in EdgeIds : LiveIsUsed(j)'
         /\ Holding(t)' /\ \A u \in Engines : u # t => (Holding(u)' <=> Holding(u))
    BY <1>3, <1>5, <1>6, <1>7, <1>8, <1>9, <1>10, HandTakes
  <1>12. \A j \in EdgeIds : IsFree(j)' <=> IsFree(j)
    <2> SUFFICES ASSUME NEW j \in EdgeIds PROVE IsFree(j)' <=> IsFree(j)
      OBVIOUS
    <2>1. CASE j = nextId
      <3>1. ~(nextId < nextId)
        BY <1>2
      <3>2. ~IsFree(j)
        BY <2>1, <3>1 DEF IsFree
      <3>3. ~IsFree(j)'
        BY <1>5, <1>11, <2>1 DEF IsFree
      <3> QED
        BY <3>2, <3>3
    <2>2. CASE j # nextId
      <3>1. j < nextId' <=> j < nextId
        BY <1>9, <2>2
      <3>2. \A u \in Engines : (Holding(u)' /\ eat'[u].id = j) <=> (Holding(u) /\ eat[u].id = j)
        BY <1>5, <1>8, <1>11, <2>2
      <3> QED
        BY <1>7, <3>1, <3>2 DEF IsFree
    <2> QED
      BY <2>1, <2>2
  <1>13. FreeSpelled'
    <2>1. FreeSpelled
      BY <1>1 DEF RecordsKept
    <2> QED
      BY <1>7, <1>12, <2>1, FreeKept
  <1>14. ASSUME NEW u \in Engines PROVE HeadIsKnown(u)'
    <2>1. HeadIsKnown(u)
      BY <1>1 DEF RecordsKept
    <2>2. CASE u = t
      BY <1>5, <1>7, <1>11, <2>1, <2>2 DEF HeadIsKnown
    <2>3. CASE u # t
      <3>1. eat'[u] = eat[u] /\ FreeSpelled
        BY <1>1, <1>11, <2>3 DEF RecordsKept
      <3> QED
        BY <1>1, <1>7, <2>1, <3>1, KnownKept
    <2> QED
      BY <2>2, <2>3
  <1>15. RecordsKept'
    BY <1>11, <1>13, <1>14 DEF RecordsKept
  <1>16. ArenaTyped'
    <2>1. eat' \in [Engines -> AtRecs]
      BY <1>2, <1>6, <1>7
    <2> QED
      BY <1>1, <1>3, <1>7, <2>1 DEF ArenaTyped
  <1>17. RowsLinked'
    BY <1>1, <1>7, RowsKept
  <1> QED
    BY <1>15, <1>16, <1>17 DEF ArenaInv

\* popFree: an exchange that succeeds takes the first record off the list.
LEMMA PopKeeps ==
  ASSUME ArenaInv, NEW t \in Engines, PopCas(t), freeHead = eat[t].head
  PROVE  ArenaInv'
  <1>1. ArenaTyped /\ RecordsKept /\ RowsLinked /\ HeadIsKnown(t) /\ FreeSpelled
    BY DEF ArenaInv, RecordsKept
  <1>2. /\ eat \in [Engines -> AtRecs] /\ eat[t] \in AtRecs /\ freeHead \in HeadRecs /\ freeHead.tag \in Nat
        /\ nextId \in Nat
    <2>1. MaxEdges + 1 \in Nat
      BY ArenaAssumption
    <2> QED
      BY <1>1, <2>1 DEF ArenaTyped, HeadRecs
  <1>3. PICK i : i = freeHead.id
    OBVIOUS
  <1>4. /\ eat[t].at = "popcas" /\ i \in EdgeIds /\ i = eat[t].head.id
        /\ eat[t].next = recs[i].nextFree
    BY <1>1, <1>3 DEF PopCas, HeadIsKnown
  <1>5. PICK rec : rec = [eat[t] EXCEPT !.at = "link", !.id = i]
    OBVIOUS
  <1>6. /\ rec.at = "link" /\ rec.id = i /\ rec.src = eat[t].src /\ rec.dst = eat[t].dst
    BY <1>2, <1>5 DEF AtRecs
  <1>7. rec \in AtRecs
    BY <1>2, <1>4, <1>5 DEF AtRecs, EnginePlaces, LinkIds
  <1>8. /\ eat' = [eat EXCEPT ![t] = rec] /\ UNCHANGED <<recs, row, nextId, edges>>
        /\ freeHead' = [id |-> eat[t].next, tag |-> freeHead.tag + 1]
    BY <1>3, <1>4, <1>5 DEF PopCas, PackFree, Bumped
  <1>9. /\ freeHead' \in HeadRecs /\ freeHead'.id = recs[i].nextFree /\ freeHead.tag < freeHead'.tag
    <2>1. eat[t].next \in LinkIds
      BY <1>2 DEF AtRecs
    <2> QED
      BY <1>2, <1>4, <1>8, <2>1 DEF HeadRecs
  <1>10. IsFree(i)
    BY <1>1, <1>3, <1>4, HeadIsFree, ArenaAssumption DEF EdgeIds
  <1>11. /\ ~Holding(t) /\ ~recs[i].live /\ i < nextId
         /\ \A u \in Engines : Holding(u) => eat[u].id # i
    BY <1>4, <1>10 DEF IsFree, Holding
  <1>12. nextId' = nextId /\ i < nextId' /\ nextId' \in Nat /\ nextId <= nextId'
    BY <1>2, <1>8, <1>11
  <1>13. /\ \A u \in Engines : eat'[u] = IF u = t THEN rec ELSE eat[u]
         /\ \A u \in Engines : HandIsApart(u)'
         /\ \A j \in EdgeIds : LiveIsUsed(j)'
         /\ Holding(t)' /\ \A u \in Engines : u # t => (Holding(u)' <=> Holding(u))
    BY <1>4, <1>6, <1>7, <1>8, <1>11, <1>12, HandTakes
  <1>14. \A j \in EdgeIds : IsFree(j)' <=> IsFree(j) /\ j # i
    <2> SUFFICES ASSUME NEW j \in EdgeIds PROVE IsFree(j)' <=> IsFree(j) /\ j # i
      OBVIOUS
    <2>1. CASE j = i
      BY <1>6, <1>13, <2>1 DEF IsFree
    <2>2. CASE j # i
      <3>1. \A u \in Engines : (Holding(u)' /\ eat'[u].id = j) <=> (Holding(u) /\ eat[u].id = j)
        BY <1>6, <1>11, <1>13, <2>2
      <3> QED
        BY <1>8, <2>2, <3>1 DEF IsFree
    <2> QED
      BY <2>1, <2>2
  <1>15. FreeSpelled'
    <2>1. PICK s : Spells(s, freeHead.id, NextFree) /\ \A j \in EdgeIds : j \in Elems(s) <=> IsFree(j)
      BY <1>1 DEF FreeSpelled
    <2>2. s \in Seq(EdgeIds) /\ Once(s) /\ freeHead.id = Foremost(s) /\ Len(s) \in Nat
      BY <2>1, ListShape DEF Spells
    <2>3. 1 \in 1..Len(s) /\ s[1] = i
      <3>1. Len(s) # 0
        BY <1>3, <1>4, <2>2, ArenaAssumption DEF Foremost, EdgeIds
      <3> QED
        BY <1>3, <2>2, <3>1 DEF Foremost
    <2>4. NextFree[i] = recs[i].nextFree
      BY <1>4 DEF NextFree
    <2>5. NextBypass(s, 1, freeHead.id, NextFree, freeHead'.id, NextFree)
      BY <1>9, <2>3, <2>4 DEF NextBypass
    <2>6. Spells(Closed(s, 1), freeHead'.id, NextFree)
      BY <2>1, <2>3, <2>5, SpellsClosed
    <2>7. PICK r : r = Closed(s, 1)
      OBVIOUS
    <2>8. Elems(r) = Elems(s) \ {s[1]}
      BY <2>2, <2>3, <2>7, ClosedIs
    <2>9. \A j \in EdgeIds : j \in Elems(r) <=> IsFree(j)'
      BY <1>14, <2>1, <2>3, <2>8
    <2>10. NextFree' = NextFree
      BY <1>8 DEF NextFree
    <2>11. Spells(r, freeHead.id, NextFree)'
      BY <2>6, <2>7, <2>10
    <2> QED
      BY <2>9, <2>11 DEF FreeSpelled
  <1>16. ASSUME NEW u \in Engines PROVE HeadIsKnown(u)'
    <2>1. HeadIsKnown(u)
      BY <1>1 DEF RecordsKept
    <2>2. CASE u = t
      BY <1>4, <1>6, <1>13, <2>1, <2>2 DEF HeadIsKnown
    <2>3. CASE u # t
      <3>1. eat'[u] = eat[u]
        BY <1>13, <2>3
      <3> QED
        BY <1>1, <1>8, <1>9, <2>1, <3>1, KnownKept
    <2> QED
      BY <2>2, <2>3
  <1>17. RecordsKept'
    BY <1>13, <1>15, <1>16 DEF RecordsKept
  <1>18. ArenaTyped'
    <2>1. eat' \in [Engines -> AtRecs]
      BY <1>2, <1>7, <1>8
    <2> QED
      BY <1>1, <1>8, <1>9, <2>1 DEF ArenaTyped
  <1>19. RowsLinked'
    BY <1>1, <1>8, RowsKept
  <1> QED
    BY <1>17, <1>18, <1>19 DEF ArenaInv

\* pushFree points the record in hand at the head it has read.
LEMMA WriteNextKeeps ==
  ASSUME ArenaInv, NEW t \in Engines, WriteNext(t)
  PROVE  ArenaInv'
  <1>1. ArenaTyped /\ RecordsKept /\ RowsLinked /\ HeadIsKnown(t) /\ FreeSpelled /\ HandIsApart(t)
    BY DEF ArenaInv, RecordsKept
  <1>2. /\ eat \in [Engines -> AtRecs] /\ eat[t] \in AtRecs /\ recs \in [EdgeIds -> EdgeRecs]
        /\ eat[t].head.id \in LinkIds /\ eat[t].at = "push"
    BY <1>1 DEF ArenaTyped, WriteNext, AtRecs, HeadRecs
  <1>3. Holding(t)
    BY <1>2 DEF Holding
  <1>4. PICK i \in EdgeIds : i = eat[t].id
    BY <1>1, <1>3 DEF HandIsApart
  <1>5. PICK h \in LinkIds : h = eat[t].head.id
    BY <1>2
  <1>6. /\ recs' = [recs EXCEPT ![i].nextFree = h] /\ eat' = [eat EXCEPT ![t].at = "pushcas"]
        /\ UNCHANGED <<row, freeHead, nextId, edges>>
    BY <1>4, <1>5 DEF WriteNext
  <1>7. PICK e : e = [recs[i] EXCEPT !.nextFree = h]
    OBVIOUS
  <1>8. /\ e \in EdgeRecs /\ e.nextFree = h
        /\ e.live = recs[i].live /\ e.src = recs[i].src /\ e.dst = recs[i].dst
        /\ e.nextOut = recs[i].nextOut /\ e.prevOut = recs[i].prevOut
        /\ e.nextIn = recs[i].nextIn /\ e.prevIn = recs[i].prevIn
    <2>1. recs[i] \in EdgeRecs
      BY <1>2
    <2> QED
      BY <1>7, <2>1 DEF EdgeRecs
  <1>9. recs' \in [EdgeIds -> EdgeRecs] /\ \A j \in EdgeIds : recs'[j] = IF j = i THEN e ELSE recs[j]
    BY <1>2, <1>6, <1>7, <1>8
  <1>10. \A j \in EdgeIds :
            /\ recs'[j].live = recs[j].live /\ recs'[j].src = recs[j].src /\ recs'[j].dst = recs[j].dst
            /\ recs'[j].nextOut = recs[j].nextOut /\ recs'[j].prevOut = recs[j].prevOut
            /\ recs'[j].nextIn = recs[j].nextIn /\ recs'[j].prevIn = recs[j].prevIn
    BY <1>8, <1>9
  <1>11. \A j \in EdgeIds : recs'[j].nextFree = IF j = i THEN h ELSE recs[j].nextFree
    BY <1>8, <1>9
  <1>12. PICK rec : rec = [eat[t] EXCEPT !.at = "pushcas"]
    OBVIOUS
  <1>13. /\ rec.at = "pushcas" /\ rec.id = i /\ rec.head = eat[t].head /\ rec \in AtRecs
    BY <1>2, <1>4, <1>12 DEF AtRecs, EnginePlaces
  <1>14. eat' \in [Engines -> AtRecs] /\ \A u \in Engines : eat'[u] = IF u = t THEN rec ELSE eat[u]
    BY <1>2, <1>6, <1>12, <1>13
  <1>15. \A u \in Engines : (Holding(u)' <=> Holding(u)) /\ eat'[u].id = eat[u].id
    BY <1>3, <1>4, <1>13, <1>14 DEF Holding
  <1>16. ASSUME NEW u \in Engines PROVE HandIsApart(u)'
    <2>1. HandIsApart(u)
      BY <1>1 DEF RecordsKept
    <2> QED
      BY <1>6, <1>10, <1>15, <2>1 DEF HandIsApart
  <1>17. \A j \in EdgeIds : IsFree(j)' <=> IsFree(j)
    BY <1>6, <1>10, <1>15 DEF IsFree
  <1>18. ~IsFree(i)
    BY <1>3, <1>4 DEF IsFree
  <1>19. \A j \in EdgeIds : IsFree(j) => recs'[j].nextFree = recs[j].nextFree
    BY <1>11, <1>18
  <1>20. FreeSpelled'
    BY <1>1, <1>6, <1>17, <1>19, FreeKept
  <1>21. ASSUME NEW u \in Engines PROVE HeadIsKnown(u)'
    <2>1. HeadIsKnown(u)
      BY <1>1 DEF RecordsKept
    <2>2. CASE u = t
      <3>1. recs'[i].nextFree = h
        BY <1>11
      <3>2. eat[t].head.tag <= freeHead.tag /\ (eat[t].head.tag = freeHead.tag => eat[t].head = freeHead)
        BY <1>1, <1>2 DEF HeadIsKnown
      <3> QED
        BY <1>5, <1>6, <1>13, <1>14, <2>2, <3>1, <3>2 DEF HeadIsKnown
    <2>3. CASE u # t
      <3>1. eat'[u] = eat[u]
        BY <1>14, <2>3
      <3>2. eat[u].at = "pushcas" => recs'[eat[u].id].nextFree = recs[eat[u].id].nextFree
        <4> SUFFICES ASSUME eat[u].at = "pushcas" PROVE recs'[eat[u].id].nextFree = recs[eat[u].id].nextFree
          OBVIOUS
        <4>1. Holding(u) /\ HandIsApart(u)
          BY <1>1 DEF Holding, RecordsKept
        <4>2. eat[u].id \in EdgeIds /\ eat[u].id # i
          BY <1>3, <1>4, <2>3, <4>1 DEF HandIsApart
        <4> QED
          BY <1>11, <4>2
      <3> QED
        BY <1>1, <1>6, <1>19, <2>1, <3>1, <3>2, KnownKept
    <2> QED
      BY <2>2, <2>3
  <1>22. \A j \in EdgeIds : LiveIsUsed(j)'
    BY <1>1, <1>6, <1>10 DEF RecordsKept, LiveIsUsed
  <1>23. RecordsKept'
    BY <1>16, <1>20, <1>21, <1>22 DEF RecordsKept
  <1>24. ArenaTyped'
    BY <1>1, <1>6, <1>9, <1>14 DEF ArenaTyped
  <1>25. RowsLinked'
    BY <1>1, <1>6, <1>10, RowsKept
  <1> QED
    BY <1>23, <1>24, <1>25 DEF ArenaInv

\* The place of an engine that waits for the next edge.
LEMMA WaitingIs ==
  Waiting \in AtRecs /\ Waiting.at = "idle"
  <1>1. Waiting = [at |-> "idle", src |-> NoEdge, dst |-> NoEdge, id |-> NoEdge,
                   head |-> [id |-> NoEdge, tag |-> 0], next |-> NoEdge]
    BY DEF Waiting, PackFree
  <1>2. [id |-> NoEdge, tag |-> 0] \in HeadRecs
    BY DEF HeadRecs, LinkIds
  <1> QED
    BY <1>1, <1>2 DEF AtRecs, EnginePlaces, RowOrNone, LinkIds

\* pushFree: an exchange that succeeds puts the record in front of the list.
LEMMA PushKeeps ==
  ASSUME ArenaInv, NEW t \in Engines, PushCas(t), freeHead = eat[t].head
  PROVE  ArenaInv'
  <1>1. ArenaTyped /\ RecordsKept /\ RowsLinked /\ HeadIsKnown(t) /\ FreeSpelled /\ HandIsApart(t)
    BY DEF ArenaInv, RecordsKept
  <1>2. /\ eat \in [Engines -> AtRecs] /\ eat[t] \in AtRecs /\ freeHead \in HeadRecs /\ freeHead.tag \in Nat
        /\ eat[t].at = "pushcas"
    BY <1>1 DEF ArenaTyped, HeadRecs, PushCas
  <1>3. Holding(t)
    BY <1>2 DEF Holding
  <1>4. PICK i \in EdgeIds : i = eat[t].id
    BY <1>1, <1>3 DEF HandIsApart
  <1>5. /\ i < nextId /\ ~recs[i].live /\ recs[i].nextFree = freeHead.id
        /\ \A u \in Engines : Holding(u) /\ eat[u].id = i => u = t
    BY <1>1, <1>2, <1>3, <1>4 DEF HandIsApart, HeadIsKnown
  <1>6. /\ eat' = [eat EXCEPT ![t] = Waiting] /\ UNCHANGED <<recs, row, nextId, edges>>
        /\ freeHead' = [id |-> i, tag |-> freeHead.tag + 1]
    BY <1>4 DEF PushCas, PackFree, Bumped
  <1>7. freeHead' \in HeadRecs /\ freeHead'.id = i /\ freeHead.tag < freeHead'.tag
    BY <1>2, <1>6 DEF HeadRecs, LinkIds
  <1>8. /\ eat' \in [Engines -> AtRecs] /\ \A u \in Engines : eat'[u] = IF u = t THEN Waiting ELSE eat[u]
        /\ eat'[t].at = "idle"
    BY <1>2, <1>6, WaitingIs
  <1>9. ~Holding(t)' /\ \A u \in Engines : u # t => (Holding(u)' <=> Holding(u)) /\ eat'[u] = eat[u]
    BY <1>8 DEF Holding
  <1>10. ASSUME NEW u \in Engines PROVE HandIsApart(u)'
    <2>1. HandIsApart(u)
      BY <1>1 DEF RecordsKept
    <2>2. CASE u = t
      BY <1>9, <2>2 DEF HandIsApart
    <2>3. CASE u # t
      <3>1. \A w \in Engines : Holding(w)' => Holding(w) /\ eat'[w] = eat[w]
        BY <1>9
      <3> QED
        BY <1>6, <1>9, <2>1, <2>3, <3>1 DEF HandIsApart
    <2> QED
      BY <2>2, <2>3
  <1>11. ~IsFree(i)
    BY <1>3, <1>4 DEF IsFree
  <1>12. \A j \in EdgeIds : IsFree(j)' <=> IsFree(j) \/ j = i
    <2> SUFFICES ASSUME NEW j \in EdgeIds PROVE IsFree(j)' <=> IsFree(j) \/ j = i
      OBVIOUS
    <2>1. CASE j = i
      <3>1. \A u \in Engines : ~(Holding(u)' /\ eat'[u].id = i)
        BY <1>5, <1>9
      <3> QED
        BY <1>5, <1>6, <2>1, <3>1 DEF IsFree
    <2>2. CASE j # i
      <3>1. \A u \in Engines : (Holding(u)' /\ eat'[u].id = j) <=> (Holding(u) /\ eat[u].id = j)
        BY <1>3, <1>4, <1>9, <2>2
      <3> QED
        BY <1>6, <2>2, <3>1 DEF IsFree
    <2> QED
      BY <2>1, <2>2
  <1>13. FreeSpelled'
    <2>1. PICK s : Spells(s, freeHead.id, NextFree) /\ \A j \in EdgeIds : j \in Elems(s) <=> IsFree(j)
      BY <1>1 DEF FreeSpelled
    <2>2. s \in Seq(EdgeIds) /\ Once(s) /\ i \notin Elems(s)
      BY <1>11, <2>1 DEF Spells
    <2>3. NextFree[i] = freeHead.id /\ \A j \in EdgeIds : j # i => NextFree[j] = NextFree[j]
      BY <1>5 DEF NextFree
    <2>4. Spells(Fronted(i, s), i, NextFree)
      BY <2>1, <2>2, <2>3, SpellsFront
    <2>5. PICK r : r = Fronted(i, s)
      OBVIOUS
    <2>6. Elems(r) = Elems(s) \cup {i}
      BY <2>2, <2>5, FrontedIs
    <2>7. \A j \in EdgeIds : j \in Elems(r) <=> IsFree(j)'
      BY <1>12, <2>1, <2>6
    <2>8. NextFree' = NextFree
      BY <1>6 DEF NextFree
    <2>9. Spells(r, freeHead.id, NextFree)'
      BY <1>7, <2>4, <2>5, <2>8
    <2> QED
      BY <2>7, <2>9 DEF FreeSpelled
  <1>14. ASSUME NEW u \in Engines PROVE HeadIsKnown(u)'
    <2>1. HeadIsKnown(u)
      BY <1>1 DEF RecordsKept
    <2>2. CASE u = t
      BY <1>8, <2>2 DEF HeadIsKnown
    <2>3. CASE u # t
      <3>1. eat'[u] = eat[u]
        BY <1>9, <2>3
      <3> QED
        BY <1>1, <1>6, <1>7, <2>1, <3>1, KnownKept
    <2> QED
      BY <2>2, <2>3
  <1>15. \A j \in EdgeIds : LiveIsUsed(j)'
    BY <1>1, <1>6 DEF RecordsKept, LiveIsUsed
  <1>16. RecordsKept'
    BY <1>10, <1>13, <1>14, <1>15 DEF RecordsKept
  <1>17. ArenaTyped'
    BY <1>1, <1>6, <1>7, <1>8 DEF ArenaTyped
  <1>18. RowsLinked'
    BY <1>1, <1>6, RowsKept
  <1> QED
    BY <1>16, <1>17, <1>18 DEF ArenaInv

\* The head of a list, and the neighbours of its members.
LEMMA ThreadEnds ==
  ASSUME NEW head, NEW succ, NEW pred, NEW count, NEW mem,
         \E s : Threaded(s, head, succ, pred, count, mem)
  PROVE  /\ head \in mem \cup {NoEdge} /\ count \in Nat /\ mem \subseteq EdgeIds
         /\ \A i \in mem : succ[i] \in mem \cup {NoEdge} /\ pred[i] \in mem \cup {NoEdge}
  <1>1. PICK s : Threaded(s, head, succ, pred, count, mem)
    OBVIOUS
  <1>2. Spells(s, head, succ) /\ Backs(s, pred) /\ Elems(s) = mem /\ count = Len(s)
    BY <1>1 DEF Threaded
  <1>3. s \in Seq(EdgeIds) /\ head = Foremost(s)
    BY <1>2 DEF Spells
  <1>4. PICK m \in Nat : m = Len(s)
    BY <1>3, ListShape
  <1>5. \A n \in 1..m : s[n] \in mem /\ s[n] \in EdgeIds
    BY <1>2, <1>3, <1>4, ListShape
  <1>6. \A x \in mem : \E n \in 1..m : s[n] = x
    BY <1>2, <1>3, <1>4, ListShape
  <1>7. head \in mem \cup {NoEdge}
    <2>1. m # 0 => 1 \in 1..m
      BY <1>4
    <2> QED
      BY <1>3, <1>4, <1>5, <2>1 DEF Foremost
  <1>8. ASSUME NEW i \in mem PROVE succ[i] \in mem \cup {NoEdge} /\ pred[i] \in mem \cup {NoEdge}
    <2>1. PICK n \in 1..m : s[n] = i
      BY <1>6
    <2>2. succ[i] = (IF n = m THEN NoEdge ELSE s[n + 1]) /\ pred[i] = (IF n = 1 THEN NoEdge ELSE s[n - 1])
      BY <1>2, <1>4, <2>1 DEF Spells, Backs, After, Before
    <2>3. (n # m => n + 1 \in 1..m) /\ (n # 1 => n - 1 \in 1..m)
      OBVIOUS
    <2> QED
      BY <1>5, <2>2, <2>3
  <1>9. mem \subseteq EdgeIds
    BY <1>5, <1>6
  <1> QED
    BY <1>2, <1>4, <1>7, <1>8, <1>9

\* The records and rows after engine t links record i from s to d, field by field.
LinkWrites(t, i, s, d) ==
    /\ i = eat[t].id /\ s = eat[t].src /\ d = eat[t].dst
    /\ Holding(t) /\ ~recs[i].live /\ i < nextId
    /\ recs' \in [EdgeIds -> EdgeRecs] /\ row' \in [AllRows -> RowRecs]
    /\ \A j \in EdgeIds :
         /\ recs'[j].live = IF j = i THEN TRUE ELSE recs[j].live
         /\ recs'[j].src = IF j = i THEN s ELSE recs[j].src
         /\ recs'[j].dst = IF j = i THEN d ELSE recs[j].dst
         /\ recs'[j].nextOut = IF j = i THEN row[s].outHead ELSE recs[j].nextOut
         /\ recs'[j].nextIn = IF j = i THEN row[d].inHead ELSE recs[j].nextIn
         /\ recs'[j].prevOut = IF j = i THEN NoEdge ELSE IF j = row[s].outHead THEN i ELSE recs[j].prevOut
         /\ recs'[j].prevIn = IF j = i THEN NoEdge ELSE IF j = row[d].inHead THEN i ELSE recs[j].prevIn
         /\ j # i => recs'[j].nextFree = recs[j].nextFree
    /\ \A r \in AllRows :
         /\ row'[r].outHead = IF r = s THEN i ELSE row[r].outHead
         /\ row'[r].outCount = IF r = s THEN row[r].outCount + 1 ELSE row[r].outCount
         /\ row'[r].inHead = IF r = d THEN i ELSE row[r].inHead
         /\ row'[r].inCount = IF r = d THEN row[r].inCount + 1 ELSE row[r].inCount
    /\ edges' = [edges EXCEPT ![<<s, d>>] = edges[<<s, d>>] + 1]
    /\ eat' = [eat EXCEPT ![t] = Waiting] /\ UNCHANGED <<freeHead, nextId>>

\* Linking writes just these fields.
LEMMA LinkIsWritten ==
  ASSUME ArenaInv, NEW t \in Engines, Link(t)
  PROVE  \E i \in EdgeIds, s \in AllRows, d \in AllRows : LinkWrites(t, i, s, d)
  <1>1. ArenaTyped /\ HandIsApart(t) /\ HeadIsKnown(t)
    BY DEF ArenaInv, RecordsKept
  <1>2. eat[t].at = "link" /\ Holding(t)
    BY DEF Link, Holding
  <1>3. PICK i \in EdgeIds : i = eat[t].id /\ ~recs[i].live /\ i < nextId
    BY <1>1, <1>2 DEF HandIsApart
  <1>4. PICK s \in AllRows, d \in AllRows : s = eat[t].src /\ d = eat[t].dst
    BY <1>1, <1>2 DEF HeadIsKnown
  <1>5. recs \in [EdgeIds -> EdgeRecs] /\ row \in [AllRows -> RowRecs]
    BY <1>1 DEF ArenaTyped
  <1>6. PICK a \in LinkIds, c \in LinkIds : a = row[s].outHead /\ c = row[d].inHead
    BY <1>5 DEF RowRecs
  <1>7. PICK fresh : fresh = [BlankRec EXCEPT !.src = s, !.dst = d, !.live = TRUE, !.nextOut = a, !.nextIn = c]
    OBVIOUS
  <1>8. fresh = [src |-> s, dst |-> d, prevOut |-> NoEdge, nextOut |-> a,
                 prevIn |-> NoEdge, nextIn |-> c, nextFree |-> NoEdge, live |-> TRUE]
    BY <1>7 DEF BlankRec
  <1>9. fresh \in EdgeRecs
    BY <1>8 DEF EdgeRecs, RowOrNone, LinkIds
  <1>10. /\ recs' = [j \in EdgeIds |->
               IF j = i THEN fresh
               ELSE [recs[j] EXCEPT !.prevOut = IF j = a THEN i ELSE @, !.prevIn = IF j = c THEN i ELSE @]]
         /\ row' = [r \in AllRows |->
               [row[r] EXCEPT !.outHead = IF r = s THEN i ELSE @, !.outCount = IF r = s THEN @ + 1 ELSE @,
                              !.inHead = IF r = d THEN i ELSE @, !.inCount = IF r = d THEN @ + 1 ELSE @]]
         /\ edges' = [edges EXCEPT ![<<s, d>>] = edges[<<s, d>>] + 1]
         /\ eat' = [eat EXCEPT ![t] = Waiting] /\ UNCHANGED <<freeHead, nextId>>
    BY <1>3, <1>4, <1>6, <1>7 DEF Link
  <1>11. ASSUME NEW j \in EdgeIds
         PROVE  /\ recs'[j] \in EdgeRecs
                /\ recs'[j].live = IF j = i THEN TRUE ELSE recs[j].live
                /\ recs'[j].src = IF j = i THEN s ELSE recs[j].src
                /\ recs'[j].dst = IF j = i THEN d ELSE recs[j].dst
                /\ recs'[j].nextOut = IF j = i THEN a ELSE recs[j].nextOut
                /\ recs'[j].nextIn = IF j = i THEN c ELSE recs[j].nextIn
                /\ recs'[j].prevOut = IF j = i THEN NoEdge ELSE IF j = a THEN i ELSE recs[j].prevOut
                /\ recs'[j].prevIn = IF j = i THEN NoEdge ELSE IF j = c THEN i ELSE recs[j].prevIn
                /\ j # i => recs'[j].nextFree = recs[j].nextFree
    <2>1. CASE j = i
      <3>1. recs'[j] = fresh
        BY <1>10, <2>1
      <3> QED
        BY <1>8, <1>9, <2>1, <3>1
    <2>2. CASE j # i
      <3>1. PICK w \in EdgeRecs : w = recs[j]
        BY <1>5
      <3>2. PICK po \in LinkIds : po = IF j = a THEN i ELSE w.prevOut
        BY <3>1 DEF EdgeRecs, LinkIds
      <3>3. PICK pi \in LinkIds : pi = IF j = c THEN i ELSE w.prevIn
        BY <3>1 DEF EdgeRecs, LinkIds
      <3>4. PICK x : x = [w EXCEPT !.prevOut = po, !.prevIn = pi]
        OBVIOUS
      <3>5. recs'[j] = x
        BY <1>10, <2>2, <3>1, <3>2, <3>3, <3>4
      <3>6. /\ x \in EdgeRecs /\ x.prevOut = po /\ x.prevIn = pi /\ x.nextOut = w.nextOut /\ x.nextIn = w.nextIn
            /\ x.src = w.src /\ x.dst = w.dst /\ x.live = w.live /\ x.nextFree = w.nextFree
        BY <3>4 DEF EdgeRecs
      <3> QED
        BY <2>2, <3>1, <3>2, <3>3, <3>5, <3>6
    <2> QED
      BY <2>1, <2>2
  <1>12. recs' \in [EdgeIds -> EdgeRecs]
    <2>1. \A j \in EdgeIds : recs'[j] \in EdgeRecs
      BY <1>11
    <2>2. recs' = [j \in EdgeIds |-> recs'[j]]
      BY <1>10
    <2> QED
      BY <2>1, <2>2
  <1>13. ASSUME NEW r \in AllRows
         PROVE  /\ row'[r] \in RowRecs
                /\ row'[r].outHead = IF r = s THEN i ELSE row[r].outHead
                /\ row'[r].outCount = IF r = s THEN row[r].outCount + 1 ELSE row[r].outCount
                /\ row'[r].inHead = IF r = d THEN i ELSE row[r].inHead
                /\ row'[r].inCount = IF r = d THEN row[r].inCount + 1 ELSE row[r].inCount
    <2>1. PICK w \in RowRecs : w = row[r]
      BY <1>5
    <2>2. PICK oh \in LinkIds : oh = IF r = s THEN i ELSE w.outHead
      BY DEF RowRecs, LinkIds
    <2>3. PICK ih \in LinkIds : ih = IF r = d THEN i ELSE w.inHead
      BY DEF RowRecs, LinkIds
    <2>4. PICK oc \in Int : oc = IF r = s THEN w.outCount + 1 ELSE w.outCount
      BY DEF RowRecs
    <2>5. PICK ic \in Int : ic = IF r = d THEN w.inCount + 1 ELSE w.inCount
      BY DEF RowRecs
    <2>6. PICK x : x = [w EXCEPT !.outHead = oh, !.outCount = oc, !.inHead = ih, !.inCount = ic]
      OBVIOUS
    <2>7. row'[r] = x
      BY <1>10, <2>1, <2>2, <2>3, <2>4, <2>5, <2>6
    <2>8. x \in RowRecs /\ x.outHead = oh /\ x.outCount = oc /\ x.inHead = ih /\ x.inCount = ic
      BY <2>6 DEF RowRecs
    <2> QED
      BY <2>1, <2>2, <2>3, <2>4, <2>5, <2>7, <2>8
  <1>14. row' \in [AllRows -> RowRecs]
    <2>1. \A r \in AllRows : row'[r] \in RowRecs
      BY <1>13
    <2>2. row' = [r \in AllRows |-> row'[r]]
      BY <1>10
    <2> QED
      BY <2>1, <2>2
  <1>15. /\ edges' = [edges EXCEPT ![<<s, d>>] = edges[<<s, d>>] + 1]
         /\ eat' = [eat EXCEPT ![t] = Waiting] /\ UNCHANGED <<freeHead, nextId>>
    BY <1>10
  <1>16. \A j \in EdgeIds :
            /\ recs'[j].live = IF j = i THEN TRUE ELSE recs[j].live
            /\ recs'[j].src = IF j = i THEN s ELSE recs[j].src
            /\ recs'[j].dst = IF j = i THEN d ELSE recs[j].dst
            /\ recs'[j].nextOut = IF j = i THEN row[s].outHead ELSE recs[j].nextOut
            /\ recs'[j].nextIn = IF j = i THEN row[d].inHead ELSE recs[j].nextIn
            /\ recs'[j].prevOut = IF j = i THEN NoEdge ELSE IF j = row[s].outHead THEN i ELSE recs[j].prevOut
            /\ recs'[j].prevIn = IF j = i THEN NoEdge ELSE IF j = row[d].inHead THEN i ELSE recs[j].prevIn
            /\ j # i => recs'[j].nextFree = recs[j].nextFree
    <2> SUFFICES ASSUME NEW j \in EdgeIds
                 PROVE  /\ recs'[j].live = IF j = i THEN TRUE ELSE recs[j].live
                        /\ recs'[j].src = IF j = i THEN s ELSE recs[j].src
                        /\ recs'[j].dst = IF j = i THEN d ELSE recs[j].dst
                        /\ recs'[j].nextOut = IF j = i THEN row[s].outHead ELSE recs[j].nextOut
                        /\ recs'[j].nextIn = IF j = i THEN row[d].inHead ELSE recs[j].nextIn
                        /\ recs'[j].prevOut = IF j = i THEN NoEdge ELSE IF j = row[s].outHead THEN i ELSE recs[j].prevOut
                        /\ recs'[j].prevIn = IF j = i THEN NoEdge ELSE IF j = row[d].inHead THEN i ELSE recs[j].prevIn
                        /\ j # i => recs'[j].nextFree = recs[j].nextFree
      OBVIOUS
    <2> QED
      BY <1>6, <1>11
  <1>17. \A r \in AllRows :
            /\ row'[r].outHead = IF r = s THEN i ELSE row[r].outHead
            /\ row'[r].outCount = IF r = s THEN row[r].outCount + 1 ELSE row[r].outCount
            /\ row'[r].inHead = IF r = d THEN i ELSE row[r].inHead
            /\ row'[r].inCount = IF r = d THEN row[r].inCount + 1 ELSE row[r].inCount
    BY <1>13
  <1>18. LinkWrites(t, i, s, d)
    BY <1>2, <1>3, <1>4, <1>12, <1>14, <1>15, <1>16, <1>17, Zenon DEF LinkWrites
  <1> QED
    BY <1>18

\* Linking an edge: hands, heads and free records.
LEMMA LinkRecords ==
  ASSUME ArenaInv, NEW t \in Engines, NEW i \in EdgeIds, NEW s \in AllRows, NEW d \in AllRows,
         LinkWrites(t, i, s, d)
  PROVE  ArenaTyped' /\ RecordsKept'
  <1>1. ArenaTyped /\ RecordsKept /\ FreeSpelled /\ HandIsApart(t)
    BY DEF ArenaInv, RecordsKept
  <1>2. /\ i = eat[t].id /\ Holding(t) /\ ~recs[i].live /\ i < nextId
        /\ recs' \in [EdgeIds -> EdgeRecs] /\ row' \in [AllRows -> RowRecs]
        /\ eat' = [eat EXCEPT ![t] = Waiting] /\ freeHead' = freeHead /\ nextId' = nextId
        /\ edges' = [edges EXCEPT ![<<s, d>>] = edges[<<s, d>>] + 1]
    BY DEF LinkWrites
  <1>3. \A j \in EdgeIds :
          /\ recs'[j].live = IF j = i THEN TRUE ELSE recs[j].live
          /\ recs'[j].src = IF j = i THEN s ELSE recs[j].src
          /\ recs'[j].dst = IF j = i THEN d ELSE recs[j].dst
          /\ j # i => recs'[j].nextFree = recs[j].nextFree
    BY ZenonT(40) DEF LinkWrites
  <1>4. eat \in [Engines -> AtRecs] /\ edges \in [AllRows \X AllRows -> Int]
    BY <1>1 DEF ArenaTyped
  <1>5. /\ eat' \in [Engines -> AtRecs] /\ \A u \in Engines : eat'[u] = IF u = t THEN Waiting ELSE eat[u]
        /\ eat'[t].at = "idle"
    BY <1>2, <1>4, WaitingIs
  <1>6. ~Holding(t)' /\ \A u \in Engines : u # t => (Holding(u)' <=> Holding(u)) /\ eat'[u] = eat[u]
    BY <1>5 DEF Holding
  <1>7. \A u \in Engines : Holding(u) /\ eat[u].id = i => u = t
    BY <1>1, <1>2 DEF HandIsApart
  <1>8. edges' \in [AllRows \X AllRows -> Int]
    <2>1. <<s, d>> \in AllRows \X AllRows
      OBVIOUS
    <2>2. edges[<<s, d>>] + 1 \in Int
      BY <1>4, <2>1
    <2> QED
      BY <1>2, <1>4, <2>1, <2>2
  <1>9. ArenaTyped'
    BY <1>1, <1>2, <1>5, <1>8 DEF ArenaTyped
  <1>10. ASSUME NEW u \in Engines PROVE HandIsApart(u)'
    <2>1. HandIsApart(u)
      BY <1>1 DEF RecordsKept
    <2>2. CASE u = t
      BY <1>6, <2>2 DEF HandIsApart
    <2>3. CASE u # t
      <3>1. \A w \in Engines : Holding(w)' => Holding(w) /\ eat'[w] = eat[w]
        BY <1>6
      <3>2. ASSUME Holding(u)'
            PROVE  /\ eat[u].id \in EdgeIds /\ eat[u].id < nextId' /\ ~recs'[eat[u].id].live
                   /\ \A w \in Engines : Holding(w)' /\ eat'[w].id = eat[u].id => w = u
        <4>1. /\ eat[u].id \in EdgeIds /\ eat[u].id < nextId /\ ~recs[eat[u].id].live
              /\ \A w \in Engines : Holding(w) /\ eat[w].id = eat[u].id => w = u
          BY <2>1, <3>1, <3>2 DEF HandIsApart
        <4>2. eat[u].id # i
          BY <1>7, <2>3, <3>1, <3>2
        <4>3. ~recs'[eat[u].id].live
          BY <1>3, <4>1, <4>2
        <4>4. \A w \in Engines : Holding(w)' /\ eat'[w].id = eat[u].id => w = u
          BY <3>1, <4>1
        <4> QED
          BY <1>2, <4>1, <4>3, <4>4
      <3> QED
        BY <1>6, <2>3, <3>2 DEF HandIsApart
    <2> QED
      BY <2>2, <2>3
  <1>11. \A j \in EdgeIds : IsFree(j)' <=> IsFree(j)
    <2> SUFFICES ASSUME NEW j \in EdgeIds PROVE IsFree(j)' <=> IsFree(j)
      OBVIOUS
    <2>1. CASE j = i
      <3>1. ~IsFree(j)
        BY <1>2, <2>1 DEF IsFree
      <3>2. ~IsFree(j)'
        BY <1>3, <2>1 DEF IsFree
      <3> QED
        BY <3>1, <3>2
    <2>2. CASE j # i
      <3>1. recs'[j].live = recs[j].live
        BY <1>3, <2>2
      <3>2. \A u \in Engines : (Holding(u)' /\ eat'[u].id = j) <=> (Holding(u) /\ eat[u].id = j)
        BY <1>2, <1>6, <2>2
      <3> QED
        BY <1>2, <3>1, <3>2 DEF IsFree
    <2> QED
      BY <2>1, <2>2
  <1>12. ~IsFree(i)
    BY <1>2 DEF IsFree
  <1>13. \A j \in EdgeIds : IsFree(j) => recs'[j].nextFree = recs[j].nextFree
    BY <1>3, <1>12
  <1>14. FreeSpelled'
    BY <1>1, <1>2, <1>11, <1>13, FreeKept
  <1>15. ASSUME NEW u \in Engines PROVE HeadIsKnown(u)'
    <2>1. HeadIsKnown(u)
      BY <1>1 DEF RecordsKept
    <2>2. CASE u = t
      BY <1>5, <2>2 DEF HeadIsKnown
    <2>3. CASE u # t
      <3>1. eat'[u] = eat[u]
        BY <1>6, <2>3
      <3>2. eat[u].at = "pushcas" => recs'[eat[u].id].nextFree = recs[eat[u].id].nextFree
        <4> SUFFICES ASSUME eat[u].at = "pushcas" PROVE recs'[eat[u].id].nextFree = recs[eat[u].id].nextFree
          OBVIOUS
        <4>1. Holding(u) /\ HandIsApart(u)
          BY <1>1 DEF Holding, RecordsKept
        <4>2. eat[u].id \in EdgeIds /\ eat[u].id # i
          BY <1>7, <2>3, <4>1 DEF HandIsApart
        <4> QED
          BY <1>3, <4>2
      <3> QED
        BY <1>1, <1>2, <1>13, <2>1, <3>1, <3>2, KnownKept
    <2> QED
      BY <2>2, <2>3
  <1>16. \A j \in EdgeIds : LiveIsUsed(j)'
    <2> SUFFICES ASSUME NEW j \in EdgeIds PROVE LiveIsUsed(j)'
      OBVIOUS
    <2>1. LiveIsUsed(j)
      BY <1>1 DEF RecordsKept
    <2> QED
      BY <1>2, <1>3, <2>1 DEF LiveIsUsed
  <1>17. RecordsKept'
    BY <1>10, <1>14, <1>15, <1>16 DEF RecordsKept
  <1> QED
    BY <1>9, <1>17

\* Linking an edge: the lists of the rows.
LEMMA LinkRows ==
  ASSUME ArenaInv, NEW t \in Engines, NEW i \in EdgeIds, NEW s \in AllRows, NEW d \in AllRows,
         LinkWrites(t, i, s, d)
  PROVE  RowsLinked'
  <1>1. ArenaTyped /\ RowsLinked
    BY DEF ArenaInv
  <1>2. ~recs[i].live /\ edges' = [edges EXCEPT ![<<s, d>>] = edges[<<s, d>>] + 1]
    BY DEF LinkWrites
  <1>3. \A j \in EdgeIds :
          /\ recs'[j].live = IF j = i THEN TRUE ELSE recs[j].live
          /\ recs'[j].src = IF j = i THEN s ELSE recs[j].src
          /\ recs'[j].dst = IF j = i THEN d ELSE recs[j].dst
    BY ZenonT(40) DEF LinkWrites
  <1>4. /\ NextOut'[i] = row[s].outHead /\ PrevOut'[i] = NoEdge
        /\ NextIn'[i] = row[d].inHead /\ PrevIn'[i] = NoEdge
        /\ \A j \in EdgeIds : j # i => NextOut'[j] = NextOut[j]
        /\ \A j \in EdgeIds : j # i => PrevOut'[j] = IF j = row[s].outHead THEN i ELSE PrevOut[j]
        /\ \A j \in EdgeIds : j # i => NextIn'[j] = NextIn[j]
        /\ \A j \in EdgeIds : j # i => PrevIn'[j] = IF j = row[d].inHead THEN i ELSE PrevIn[j]
    BY ZenonT(40) DEF LinkWrites, NextOut, PrevOut, NextIn, PrevIn
  <1>5. \A r \in AllRows :
          /\ row'[r].outHead = IF r = s THEN i ELSE row[r].outHead
          /\ row'[r].outCount = IF r = s THEN row[r].outCount + 1 ELSE row[r].outCount
          /\ row'[r].inHead = IF r = d THEN i ELSE row[r].inHead
          /\ row'[r].inCount = IF r = d THEN row[r].inCount + 1 ELSE row[r].inCount
    BY DEF LinkWrites
  <1>6. ASSUME NEW r \in AllRows
        PROVE  /\ i \notin OutOf(r) /\ i \notin InOf(r)
               /\ OutOf(r)' = IF r = s THEN OutOf(r) \cup {i} ELSE OutOf(r)
               /\ InOf(r)' = IF r = d THEN InOf(r) \cup {i} ELSE InOf(r)
    <2>1. i \notin OutOf(r) /\ i \notin InOf(r)
      BY <1>2 DEF OutOf, InOf
    <2>2. \A j : j \in OutOf(r)' <=> j \in EdgeIds /\ (IF j = i THEN r = s ELSE j \in OutOf(r))
      BY <1>3 DEF OutOf
    <2>3. \A j : j \in InOf(r)' <=> j \in EdgeIds /\ (IF j = i THEN r = d ELSE j \in InOf(r))
      BY <1>3 DEF InOf
    <2>4. OutOf(r) \subseteq EdgeIds /\ InOf(r) \subseteq EdgeIds
      BY DEF OutOf, InOf
    <2>5. OutOf(r)' = IF r = s THEN OutOf(r) \cup {i} ELSE OutOf(r)
      BY <2>1, <2>2, <2>4
    <2>6. InOf(r)' = IF r = d THEN InOf(r) \cup {i} ELSE InOf(r)
      BY <2>1, <2>3, <2>4
    <2> QED
      BY <2>1, <2>5, <2>6
  <1>7. NoEdge \notin EdgeIds
    BY ArenaAssumption DEF EdgeIds
  <1>8. ASSUME NEW r \in AllRows PROVE OutThreaded(r)'
    <2>1. \E z : Threaded(z, row[r].outHead, NextOut, PrevOut, row[r].outCount, OutOf(r))
      BY <1>1 DEF RowsLinked, OutThreaded
    <2>2. CASE r = s
      <3>1. i \notin OutOf(r)
        BY <1>6
      <3>2. LinksInFront(i, row[r].outHead, NextOut, PrevOut, NextOut', PrevOut')
        BY <1>4, <2>2 DEF LinksInFront
      <3>3. \E z : Threaded(z, i, NextOut', PrevOut', row[r].outCount + 1, OutOf(r) \cup {i})
        BY <2>1, <3>1, <3>2, ThreadFront
      <3>4. row'[r].outHead = i /\ row'[r].outCount = row[r].outCount + 1 /\ OutOf(r)' = OutOf(r) \cup {i}
        BY <1>5, <1>6, <2>2
      <3> QED
        BY <3>3, <3>4 DEF OutThreaded
    <2>3. CASE r # s
      <3>1. \E z : Threaded(z, row[s].outHead, NextOut, PrevOut, row[s].outCount, OutOf(s))
        BY <1>1 DEF RowsLinked, OutThreaded
      <3>2. row[s].outHead \in OutOf(s) \cup {NoEdge}
        BY <3>1, ThreadEnds
      <3>3. row[s].outHead \notin OutOf(r)
        BY <1>7, <2>3, <3>2 DEF OutOf
      <3>4. \A j \in OutOf(r) : j \in EdgeIds /\ j # i /\ j # row[s].outHead
        BY <1>6, <3>3 DEF OutOf
      <3>5. \A j \in OutOf(r) : NextOut'[j] = NextOut[j] /\ PrevOut'[j] = PrevOut[j]
        BY <1>4, <3>4
      <3>6. \E z : Threaded(z, row[r].outHead, NextOut', PrevOut', row[r].outCount, OutOf(r))
        BY <2>1, <3>5, ThreadSame
      <3>7. row'[r].outHead = row[r].outHead /\ row'[r].outCount = row[r].outCount /\ OutOf(r)' = OutOf(r)
        BY <1>5, <1>6, <2>3
      <3> QED
        BY <3>6, <3>7 DEF OutThreaded
    <2> QED
      BY <2>2, <2>3
  <1>9. ASSUME NEW r \in AllRows PROVE InThreaded(r)'
    <2>1. \E z : Threaded(z, row[r].inHead, NextIn, PrevIn, row[r].inCount, InOf(r))
      BY <1>1 DEF RowsLinked, InThreaded
    <2>2. CASE r = d
      <3>1. i \notin InOf(r)
        BY <1>6
      <3>2. LinksInFront(i, row[r].inHead, NextIn, PrevIn, NextIn', PrevIn')
        BY <1>4, <2>2 DEF LinksInFront
      <3>3. \E z : Threaded(z, i, NextIn', PrevIn', row[r].inCount + 1, InOf(r) \cup {i})
        BY <2>1, <3>1, <3>2, ThreadFront
      <3>4. row'[r].inHead = i /\ row'[r].inCount = row[r].inCount + 1 /\ InOf(r)' = InOf(r) \cup {i}
        BY <1>5, <1>6, <2>2
      <3> QED
        BY <3>3, <3>4 DEF InThreaded
    <2>3. CASE r # d
      <3>1. \E z : Threaded(z, row[d].inHead, NextIn, PrevIn, row[d].inCount, InOf(d))
        BY <1>1 DEF RowsLinked, InThreaded
      <3>2. row[d].inHead \in InOf(d) \cup {NoEdge}
        BY <3>1, ThreadEnds
      <3>3. row[d].inHead \notin InOf(r)
        BY <1>7, <2>3, <3>2 DEF InOf
      <3>4. \A j \in InOf(r) : j \in EdgeIds /\ j # i /\ j # row[d].inHead
        BY <1>6, <3>3 DEF InOf
      <3>5. \A j \in InOf(r) : NextIn'[j] = NextIn[j] /\ PrevIn'[j] = PrevIn[j]
        BY <1>4, <3>4
      <3>6. \E z : Threaded(z, row[r].inHead, NextIn', PrevIn', row[r].inCount, InOf(r))
        BY <2>1, <3>5, ThreadSame
      <3>7. row'[r].inHead = row[r].inHead /\ row'[r].inCount = row[r].inCount /\ InOf(r)' = InOf(r)
        BY <1>5, <1>6, <2>3
      <3> QED
        BY <3>6, <3>7 DEF InThreaded
    <2> QED
      BY <2>2, <2>3
  <1>10. ASSUME NEW a \in AllRows, NEW b \in AllRows
         PROVE  edges'[<<a, b>>] = Cardinality(Between(a, b)')
    <2>1. /\ edges \in [AllRows \X AllRows -> Int] /\ edges[<<a, b>>] = Cardinality(Between(a, b))
      BY <1>1 DEF ArenaTyped, RowsLinked
    <2>2. \A j : j \in Between(a, b)' <=> j \in EdgeIds /\ (IF j = i THEN a = s /\ b = d ELSE j \in Between(a, b))
      BY <1>3 DEF Between
    <2>3. i \notin Between(a, b) /\ Between(a, b) \subseteq EdgeIds
      BY <1>2 DEF Between
    <2>4. IsFiniteSet(Between(a, b))
      <3>1. IsFiniteSet(EdgeIds)
        <4>1. 1 \in Int /\ MaxEdges \in Int
          BY ArenaAssumption
        <4> QED
          BY <4>1, FS_Interval DEF EdgeIds
      <3> QED
        BY <2>3, <3>1, FS_Subset
    <2>5. edges'[<<a, b>>] = IF a = s /\ b = d THEN edges[<<a, b>>] + 1 ELSE edges[<<a, b>>]
      <3>1. <<a, b>> \in AllRows \X AllRows /\ (<<a, b>> = <<s, d>> <=> a = s /\ b = d)
        OBVIOUS
      <3> QED
        BY <1>2, <2>1, <3>1
    <2>6. CASE a = s /\ b = d
      <3>1. Between(a, b)' = Between(a, b) \cup {i}
        BY <2>2, <2>3, <2>6
      <3>2. Cardinality(Between(a, b) \cup {i}) = Cardinality(Between(a, b)) + 1
        BY <2>3, <2>4, FS_AddElement
      <3> QED
        BY <2>1, <2>5, <2>6, <3>1, <3>2
    <2>7. CASE ~(a = s /\ b = d)
      <3>1. Between(a, b)' = Between(a, b)
        BY <2>2, <2>3, <2>7
      <3> QED
        BY <2>1, <2>5, <2>7, <3>1
    <2> QED
      BY <2>6, <2>7
  <1> QED
    BY <1>8, <1>9, <1>10 DEF RowsLinked

\* Linking an edge.
LEMMA LinkKeeps ==
  ASSUME ArenaInv, NEW t \in Engines, Link(t)
  PROVE  ArenaInv'
  <1>1. PICK i \in EdgeIds, s \in AllRows, d \in AllRows : LinkWrites(t, i, s, d)
    BY LinkIsWritten
  <1>2. ArenaTyped' /\ RecordsKept'
    BY <1>1, LinkRecords
  <1>3. RowsLinked'
    BY <1>1, LinkRows
  <1> QED
    BY <1>2, <1>3 DEF ArenaInv

\* The walk over a row's list finds its records.
LEMMA OutsAre ==
  ASSUME ArenaInv, NEW r \in AllRows
  PROVE  /\ Outs(r) \in Seq(EdgeIds) /\ Once(Outs(r)) /\ row[r].outCount = Len(Outs(r))
         /\ Elems(Outs(r)) = OutOf(r) /\ Spells(Outs(r), row[r].outHead, NextOut)
         /\ Backs(Outs(r), PrevOut)
  <1>1. PICK z : Threaded(z, row[r].outHead, NextOut, PrevOut, row[r].outCount, OutOf(r))
    BY DEF ArenaInv, RowsLinked, OutThreaded
  <1>2. Spells(z, row[r].outHead, NextOut)
    BY <1>1 DEF Threaded
  <1>3. Outs(r) = z
    BY <1>2, WalkIs DEF Outs
  <1> QED
    BY <1>1, <1>2, <1>3 DEF Threaded, Spells

\* ... on the incoming side.
LEMMA InsAre ==
  ASSUME ArenaInv, NEW r \in AllRows
  PROVE  /\ Ins(r) \in Seq(EdgeIds) /\ Once(Ins(r)) /\ row[r].inCount = Len(Ins(r))
         /\ Elems(Ins(r)) = InOf(r) /\ Spells(Ins(r), row[r].inHead, NextIn)
         /\ Backs(Ins(r), PrevIn)
  <1>1. PICK z : Threaded(z, row[r].inHead, NextIn, PrevIn, row[r].inCount, InOf(r))
    BY DEF ArenaInv, RowsLinked, InThreaded
  <1>2. Spells(z, row[r].inHead, NextIn)
    BY <1>1 DEF Threaded
  <1>3. Ins(r) = z
    BY <1>2, WalkIs DEF Ins
  <1> QED
    BY <1>1, <1>2, <1>3 DEF Threaded, Spells

\* The records and rows after engine t takes record i from s to d out of the lists.
RemoveWrites(t, i, s, d) ==
    /\ recs[i].live /\ recs[i].src = s /\ recs[i].dst = d /\ i < nextId /\ eat[t].at = "idle"
    /\ recs' \in [EdgeIds -> EdgeRecs] /\ row' \in [AllRows -> RowRecs]
    /\ \A j \in EdgeIds :
         /\ recs'[j].live = IF j = i THEN FALSE ELSE recs[j].live
         /\ recs'[j].src = recs[j].src /\ recs'[j].dst = recs[j].dst /\ recs'[j].nextFree = recs[j].nextFree
         /\ recs'[j].nextOut = IF j = recs[i].prevOut THEN recs[i].nextOut ELSE recs[j].nextOut
         /\ recs'[j].prevOut = IF j = recs[i].nextOut THEN recs[i].prevOut ELSE recs[j].prevOut
         /\ recs'[j].nextIn = IF j = recs[i].prevIn THEN recs[i].nextIn ELSE recs[j].nextIn
         /\ recs'[j].prevIn = IF j = recs[i].nextIn THEN recs[i].prevIn ELSE recs[j].prevIn
    /\ \A r \in AllRows :
         /\ row'[r].outHead = IF r = s /\ recs[i].prevOut = NoEdge THEN recs[i].nextOut ELSE row[r].outHead
         /\ row'[r].outCount = IF r = s THEN row[r].outCount - 1 ELSE row[r].outCount
         /\ row'[r].inHead = IF r = d /\ recs[i].prevIn = NoEdge THEN recs[i].nextIn ELSE row[r].inHead
         /\ row'[r].inCount = IF r = d THEN row[r].inCount - 1 ELSE row[r].inCount
    /\ edges' = [edges EXCEPT ![<<s, d>>] = edges[<<s, d>>] - 1]
    /\ eat' = [eat EXCEPT ![t] = [Waiting EXCEPT !.at = "push", !.id = i, !.head = freeHead]]
    /\ UNCHANGED <<freeHead, nextId>>

\* Removing writes just these fields.
LEMMA RemoveIsWritten ==
  ASSUME ArenaInv, NEW t \in Engines, NEW s \in AllRows, NEW d \in AllRows, BeginRemove(t, s, d)
  PROVE  \E i \in EdgeIds : RemoveWrites(t, i, s, d)
  <1>1. ArenaTyped /\ RecordsKept
    BY DEF ArenaInv
  <1>2. recs \in [EdgeIds -> EdgeRecs] /\ row \in [AllRows -> RowRecs]
    BY SMTT(30), <1>1 DEF ArenaTyped
  <1>3. PICK k \in Matching(s, d) :
           LET i == Outs(s)[k]
               e == recs[i] IN
           /\ eat[t].at = "idle"
           /\ recs' = Unlinked(i, e)
           /\ row' = [r \in AllRows |->
                 [row[r] EXCEPT !.outHead = IF r = s /\ e.prevOut = NoEdge THEN e.nextOut ELSE @,
                                !.outCount = IF r = s THEN @ - 1 ELSE @,
                                !.inHead = IF r = d /\ e.prevIn = NoEdge THEN e.nextIn ELSE @,
                                !.inCount = IF r = d THEN @ - 1 ELSE @]]
           /\ edges' = [edges EXCEPT ![<<s, d>>] = @ - 1]
           /\ eat' = [eat EXCEPT ![t] = [Waiting EXCEPT !.at = "push", !.id = i, !.head = freeHead]]
           /\ UNCHANGED <<freeHead, nextId>>
    BY DEF BeginRemove
  <1>4. Outs(s) \in Seq(EdgeIds) /\ Elems(Outs(s)) = OutOf(s)
    BY OutsAre
  <1>5. k \in 1..Len(Outs(s)) /\ recs[Outs(s)[k]].dst = d
    BY <1>4, ListShape DEF Matching
  <1>6. Outs(s)[k] \in EdgeIds /\ Outs(s)[k] \in OutOf(s)
    BY <1>4, <1>5, ListShape
  <1>7. PICK i \in EdgeIds : i = Outs(s)[k]
    BY <1>6
  <1>8. recs[i].live /\ recs[i].src = s /\ recs[i].dst = d /\ i < nextId
    BY <1>1, <1>5, <1>6, <1>7 DEF OutOf, RecordsKept, LiveIsUsed
  <1>9. PICK e \in EdgeRecs : e = recs[i]
    BY <1>2
  <1>10. /\ eat[t].at = "idle"
         /\ recs' = Unlinked(i, e)
         /\ row' = [r \in AllRows |->
               [row[r] EXCEPT !.outHead = IF r = s /\ e.prevOut = NoEdge THEN e.nextOut ELSE @,
                              !.outCount = IF r = s THEN @ - 1 ELSE @,
                              !.inHead = IF r = d /\ e.prevIn = NoEdge THEN e.nextIn ELSE @,
                              !.inCount = IF r = d THEN @ - 1 ELSE @]]
         /\ edges' = [edges EXCEPT ![<<s, d>>] = edges[<<s, d>>] - 1]
         /\ eat' = [eat EXCEPT ![t] = [Waiting EXCEPT !.at = "push", !.id = i, !.head = freeHead]]
         /\ UNCHANGED <<freeHead, nextId>>
    BY <1>3, <1>7, <1>9
  <1>11. /\ e.nextOut \in LinkIds /\ e.prevOut \in LinkIds /\ e.nextIn \in LinkIds /\ e.prevIn \in LinkIds
    BY DEF EdgeRecs
  <1>12. ASSUME NEW j \in EdgeIds
         PROVE  /\ recs'[j] \in EdgeRecs
                /\ recs'[j].live = IF j = i THEN FALSE ELSE recs[j].live
                /\ recs'[j].src = recs[j].src /\ recs'[j].dst = recs[j].dst /\ recs'[j].nextFree = recs[j].nextFree
                /\ recs'[j].nextOut = IF j = e.prevOut THEN e.nextOut ELSE recs[j].nextOut
                /\ recs'[j].prevOut = IF j = e.nextOut THEN e.prevOut ELSE recs[j].prevOut
                /\ recs'[j].nextIn = IF j = e.prevIn THEN e.nextIn ELSE recs[j].nextIn
                /\ recs'[j].prevIn = IF j = e.nextIn THEN e.prevIn ELSE recs[j].prevIn
    <2>1. PICK w \in EdgeRecs : w = recs[j]
      BY <1>2
    <2>2. PICK a \in LinkIds : a = IF j = e.prevOut THEN e.nextOut ELSE w.nextOut
      BY <1>11 DEF EdgeRecs
    <2>3. PICK b \in LinkIds : b = IF j = e.nextOut THEN e.prevOut ELSE w.prevOut
      BY <1>11 DEF EdgeRecs
    <2>4. PICK c \in LinkIds : c = IF j = e.prevIn THEN e.nextIn ELSE w.nextIn
      BY <1>11 DEF EdgeRecs
    <2>5. PICK f \in LinkIds : f = IF j = e.nextIn THEN e.prevIn ELSE w.prevIn
      BY <1>11 DEF EdgeRecs
    <2>6. PICK l \in BOOLEAN : l = IF j = i THEN FALSE ELSE w.live
      BY DEF EdgeRecs
    <2>7. PICK x : x = [w EXCEPT !.nextOut = a, !.prevOut = b, !.nextIn = c, !.prevIn = f, !.live = l]
      OBVIOUS
    <2>8. recs'[j] = [recs[j] EXCEPT !.nextOut = IF j = e.prevOut THEN e.nextOut ELSE @,
                                     !.prevOut = IF j = e.nextOut THEN e.prevOut ELSE @,
                                     !.nextIn = IF j = e.prevIn THEN e.nextIn ELSE @,
                                     !.prevIn = IF j = e.nextIn THEN e.prevIn ELSE @,
                                     !.live = IF j = i THEN FALSE ELSE @]
      BY <1>10 DEF Unlinked
    <2>9. recs'[j] = x
      BY <2>1, <2>2, <2>3, <2>4, <2>5, <2>6, <2>7, <2>8
    <2>10. /\ x \in EdgeRecs /\ x.nextOut = a /\ x.prevOut = b /\ x.nextIn = c /\ x.prevIn = f /\ x.live = l
           /\ x.src = w.src /\ x.dst = w.dst /\ x.nextFree = w.nextFree
      BY <2>7 DEF EdgeRecs
    <2> QED
      BY <2>1, <2>2, <2>3, <2>4, <2>5, <2>6, <2>9, <2>10
  <1>13. recs' \in [EdgeIds -> EdgeRecs]
    <2>1. \A j \in EdgeIds : recs'[j] \in EdgeRecs
      BY <1>12
    <2>2. recs' = [j \in EdgeIds |-> recs'[j]]
      BY <1>10 DEF Unlinked
    <2> QED
      BY <2>1, <2>2
  <1>14. ASSUME NEW r \in AllRows
         PROVE  /\ row'[r] \in RowRecs
                /\ row'[r].outHead = IF r = s /\ e.prevOut = NoEdge THEN e.nextOut ELSE row[r].outHead
                /\ row'[r].outCount = IF r = s THEN row[r].outCount - 1 ELSE row[r].outCount
                /\ row'[r].inHead = IF r = d /\ e.prevIn = NoEdge THEN e.nextIn ELSE row[r].inHead
                /\ row'[r].inCount = IF r = d THEN row[r].inCount - 1 ELSE row[r].inCount
    <2>1. PICK w \in RowRecs : w = row[r]
      BY <1>2
    <2>2. PICK oh \in LinkIds : oh = IF r = s /\ e.prevOut = NoEdge THEN e.nextOut ELSE w.outHead
      BY <1>11 DEF RowRecs
    <2>3. PICK ih \in LinkIds : ih = IF r = d /\ e.prevIn = NoEdge THEN e.nextIn ELSE w.inHead
      BY <1>11 DEF RowRecs
    <2>4. PICK oc \in Int : oc = IF r = s THEN w.outCount - 1 ELSE w.outCount
      BY DEF RowRecs
    <2>5. PICK ic \in Int : ic = IF r = d THEN w.inCount - 1 ELSE w.inCount
      BY DEF RowRecs
    <2>6. PICK x : x = [w EXCEPT !.outHead = oh, !.outCount = oc, !.inHead = ih, !.inCount = ic]
      OBVIOUS
    <2>7. row'[r] = [row[r] EXCEPT !.outHead = IF r = s /\ e.prevOut = NoEdge THEN e.nextOut ELSE @,
                                   !.outCount = IF r = s THEN @ - 1 ELSE @,
                                   !.inHead = IF r = d /\ e.prevIn = NoEdge THEN e.nextIn ELSE @,
                                   !.inCount = IF r = d THEN @ - 1 ELSE @]
      BY <1>10
    <2>8. row'[r] = x
      BY <2>1, <2>2, <2>3, <2>4, <2>5, <2>6, <2>7
    <2>9. x \in RowRecs /\ x.outHead = oh /\ x.outCount = oc /\ x.inHead = ih /\ x.inCount = ic
      BY <2>6 DEF RowRecs
    <2> QED
      BY <2>1, <2>2, <2>3, <2>4, <2>5, <2>8, <2>9
  <1>15. row' \in [AllRows -> RowRecs]
    <2>1. \A r \in AllRows : row'[r] \in RowRecs
      BY <1>14
    <2>2. row' = [r \in AllRows |-> row'[r]]
      BY <1>10
    <2> QED
      BY <2>1, <2>2
  <1>16. \A j \in EdgeIds :
            /\ recs'[j].live = IF j = i THEN FALSE ELSE recs[j].live
            /\ recs'[j].src = recs[j].src /\ recs'[j].dst = recs[j].dst /\ recs'[j].nextFree = recs[j].nextFree
            /\ recs'[j].nextOut = IF j = recs[i].prevOut THEN recs[i].nextOut ELSE recs[j].nextOut
            /\ recs'[j].prevOut = IF j = recs[i].nextOut THEN recs[i].prevOut ELSE recs[j].prevOut
            /\ recs'[j].nextIn = IF j = recs[i].prevIn THEN recs[i].nextIn ELSE recs[j].nextIn
            /\ recs'[j].prevIn = IF j = recs[i].nextIn THEN recs[i].prevIn ELSE recs[j].prevIn
    BY <1>9, <1>12
  <1>17. \A r \in AllRows :
            /\ row'[r].outHead = IF r = s /\ recs[i].prevOut = NoEdge THEN recs[i].nextOut ELSE row[r].outHead
            /\ row'[r].outCount = IF r = s THEN row[r].outCount - 1 ELSE row[r].outCount
            /\ row'[r].inHead = IF r = d /\ recs[i].prevIn = NoEdge THEN recs[i].nextIn ELSE row[r].inHead
            /\ row'[r].inCount = IF r = d THEN row[r].inCount - 1 ELSE row[r].inCount
    BY <1>9, <1>14
  <1>18. RemoveWrites(t, i, s, d)
    BY <1>8, <1>10, <1>13, <1>15, <1>16, <1>17, Zenon DEF RemoveWrites
  <1> QED
    BY <1>18

\* Removing an edge: hands, heads and free records.
LEMMA RemoveRecords ==
  ASSUME ArenaInv, NEW t \in Engines, NEW i \in EdgeIds, NEW s \in AllRows, NEW d \in AllRows,
         RemoveWrites(t, i, s, d)
  PROVE  ArenaTyped' /\ RecordsKept'
  <1>1. ArenaTyped /\ RecordsKept /\ FreeSpelled
    BY DEF ArenaInv, RecordsKept
  <1>2. /\ recs[i].live /\ i < nextId /\ eat[t].at = "idle"
        /\ recs' \in [EdgeIds -> EdgeRecs] /\ row' \in [AllRows -> RowRecs]
        /\ eat' = [eat EXCEPT ![t] = [Waiting EXCEPT !.at = "push", !.id = i, !.head = freeHead]]
        /\ freeHead' = freeHead /\ nextId' = nextId
        /\ edges' = [edges EXCEPT ![<<s, d>>] = edges[<<s, d>>] - 1]
    BY DEF RemoveWrites
  <1>3. \A j \in EdgeIds :
          /\ recs'[j].live = IF j = i THEN FALSE ELSE recs[j].live
          /\ recs'[j].src = recs[j].src /\ recs'[j].dst = recs[j].dst /\ recs'[j].nextFree = recs[j].nextFree
    BY DEF RemoveWrites
  <1>4. eat \in [Engines -> AtRecs] /\ edges \in [AllRows \X AllRows -> Int] /\ freeHead \in HeadRecs
    BY <1>1 DEF ArenaTyped
  <1>5. PICK rec : rec = [Waiting EXCEPT !.at = "push", !.id = i, !.head = freeHead]
    OBVIOUS
  <1>6. rec = [at |-> "push", src |-> NoEdge, dst |-> NoEdge, id |-> i, head |-> freeHead, next |-> NoEdge]
    BY <1>5 DEF Waiting
  <1>7. rec \in AtRecs
    BY <1>4, <1>6 DEF AtRecs, EnginePlaces, RowOrNone, LinkIds
  <1>8. eat' \in [Engines -> AtRecs] /\ \A u \in Engines : eat'[u] = IF u = t THEN rec ELSE eat[u]
    BY <1>2, <1>4, <1>5, <1>7
  <1>9. /\ ~Holding(t) /\ Holding(t)' /\ eat'[t].id = i
        /\ \A u \in Engines : u # t => (Holding(u)' <=> Holding(u)) /\ eat'[u] = eat[u]
    BY <1>2, <1>6, <1>8 DEF Holding
  <1>10. \A u \in Engines : Holding(u) => eat[u].id # i
    <2> SUFFICES ASSUME NEW u \in Engines, Holding(u) PROVE eat[u].id # i
      OBVIOUS
    <2>1. HandIsApart(u)
      BY <1>1 DEF RecordsKept
    <2> QED
      BY <1>2, <2>1 DEF HandIsApart
  <1>11. edges' \in [AllRows \X AllRows -> Int]
    <2>1. <<s, d>> \in AllRows \X AllRows
      OBVIOUS
    <2>2. edges[<<s, d>>] - 1 \in Int
      BY <1>4, <2>1
    <2> QED
      BY <1>2, <1>4, <2>1, <2>2
  <1>12. ArenaTyped'
    BY <1>1, <1>2, <1>8, <1>11 DEF ArenaTyped
  <1>13. ASSUME NEW u \in Engines PROVE HandIsApart(u)'
    <2>1. HandIsApart(u)
      BY <1>1 DEF RecordsKept
    <2>2. CASE u = t
      <3>1. ~recs'[i].live /\ i < nextId'
        BY <1>2, <1>3
      <3>2. \A w \in Engines : Holding(w)' /\ eat'[w].id = i => w = t
        BY <1>9, <1>10
      <3> QED
        BY <1>9, <2>2, <3>1, <3>2 DEF HandIsApart
    <2>3. CASE u # t
      <3>2. ASSUME Holding(u)'
            PROVE  /\ eat[u].id \in EdgeIds /\ eat[u].id < nextId' /\ ~recs'[eat[u].id].live
                   /\ \A w \in Engines : Holding(w)' /\ eat'[w].id = eat[u].id => w = u
        <4>0. Holding(u)
          BY <1>9, <2>3, <3>2
        <4>1. /\ eat[u].id \in EdgeIds /\ eat[u].id < nextId /\ ~recs[eat[u].id].live
              /\ \A w \in Engines : Holding(w) /\ eat[w].id = eat[u].id => w = u
          BY <2>1, <4>0 DEF HandIsApart
        <4>2. eat[u].id # i
          BY <1>10, <4>0
        <4>3. ~recs'[eat[u].id].live
          BY <1>3, <4>1, <4>2
        <4>4. \A w \in Engines : Holding(w)' /\ eat'[w].id = eat[u].id => w = u
          BY <1>9, <4>1, <4>2
        <4> QED
          BY <1>2, <4>1, <4>3, <4>4
      <3> QED
        BY <1>9, <2>3, <3>2 DEF HandIsApart
    <2> QED
      BY <2>2, <2>3
  <1>14. \A j \in EdgeIds : IsFree(j)' <=> IsFree(j)
    <2> SUFFICES ASSUME NEW j \in EdgeIds PROVE IsFree(j)' <=> IsFree(j)
      OBVIOUS
    <2>1. CASE j = i
      <3>1. ~IsFree(j)
        BY <1>2, <2>1 DEF IsFree
      <3>2. ~IsFree(j)'
        BY <1>9, <2>1 DEF IsFree
      <3> QED
        BY <3>1, <3>2
    <2>2. CASE j # i
      <3>1. recs'[j].live = recs[j].live
        BY <1>3, <2>2
      <3>2. \A u \in Engines : (Holding(u)' /\ eat'[u].id = j) <=> (Holding(u) /\ eat[u].id = j)
        BY <1>9, <2>2
      <3> QED
        BY <1>2, <3>1, <3>2 DEF IsFree
    <2> QED
      BY <2>1, <2>2
  <1>15. \A j \in EdgeIds : recs'[j].nextFree = recs[j].nextFree
    BY <1>3
  <1>16. FreeSpelled'
    BY <1>1, <1>2, <1>14, <1>15, FreeKept
  <1>17. ASSUME NEW u \in Engines PROVE HeadIsKnown(u)'
    <2>1. HeadIsKnown(u)
      BY <1>1 DEF RecordsKept
    <2>2. CASE u = t
      <3>1. eat'[u].at = "push" /\ eat'[u].head = freeHead
        BY <1>6, <1>8, <2>2
      <3>2. freeHead.tag \in Nat
        BY <1>4 DEF HeadRecs
      <3> QED
        BY <1>2, <3>1, <3>2 DEF HeadIsKnown
    <2>3. CASE u # t
      <3>1. eat'[u] = eat[u]
        BY <1>9, <2>3
      <3>2. eat[u].at = "pushcas" => recs'[eat[u].id].nextFree = recs[eat[u].id].nextFree
        <4> SUFFICES ASSUME eat[u].at = "pushcas" PROVE recs'[eat[u].id].nextFree = recs[eat[u].id].nextFree
          OBVIOUS
        <4>1. Holding(u) /\ HandIsApart(u)
          BY <1>1 DEF Holding, RecordsKept
        <4>2. eat[u].id \in EdgeIds
          BY <4>1 DEF HandIsApart
        <4> QED
          BY <1>15, <4>2
      <3> QED
        BY <1>1, <1>2, <1>15, <2>1, <3>1, <3>2, KnownKept
    <2> QED
      BY <2>2, <2>3
  <1>18. \A j \in EdgeIds : LiveIsUsed(j)'
    <2> SUFFICES ASSUME NEW j \in EdgeIds PROVE LiveIsUsed(j)'
      OBVIOUS
    <2>1. LiveIsUsed(j)
      BY <1>1 DEF RecordsKept
    <2> QED
      BY <1>2, <1>3, <2>1 DEF LiveIsUsed
  <1>19. RecordsKept'
    BY <1>13, <1>16, <1>17, <1>18 DEF RecordsKept
  <1> QED
    BY <1>12, <1>19

\* Removing an edge: the lists of the rows.
LEMMA RemoveRows ==
  ASSUME ArenaInv, NEW t \in Engines, NEW i \in EdgeIds, NEW s \in AllRows, NEW d \in AllRows,
         RemoveWrites(t, i, s, d)
  PROVE  RowsLinked'
  <1>1. ArenaTyped /\ RowsLinked
    BY DEF ArenaInv
  <1>2. /\ recs[i].live /\ recs[i].src = s /\ recs[i].dst = d
        /\ edges' = [edges EXCEPT ![<<s, d>>] = edges[<<s, d>>] - 1]
    BY DEF RemoveWrites
  <1>3. \A j \in EdgeIds :
          /\ recs'[j].live = IF j = i THEN FALSE ELSE recs[j].live
          /\ recs'[j].src = recs[j].src /\ recs'[j].dst = recs[j].dst
    BY DEF RemoveWrites
  <1>4. /\ \A j \in EdgeIds : NextOut'[j] = IF j = PrevOut[i] THEN NextOut[i] ELSE NextOut[j]
        /\ \A j \in EdgeIds : PrevOut'[j] = IF j = NextOut[i] THEN PrevOut[i] ELSE PrevOut[j]
        /\ \A j \in EdgeIds : NextIn'[j] = IF j = PrevIn[i] THEN NextIn[i] ELSE NextIn[j]
        /\ \A j \in EdgeIds : PrevIn'[j] = IF j = NextIn[i] THEN PrevIn[i] ELSE PrevIn[j]
    BY DEF RemoveWrites, NextOut, PrevOut, NextIn, PrevIn
  <1>5. \A r \in AllRows :
          /\ row'[r].outHead = IF r = s /\ PrevOut[i] = NoEdge THEN NextOut[i] ELSE row[r].outHead
          /\ row'[r].outCount = IF r = s THEN row[r].outCount - 1 ELSE row[r].outCount
          /\ row'[r].inHead = IF r = d /\ PrevIn[i] = NoEdge THEN NextIn[i] ELSE row[r].inHead
          /\ row'[r].inCount = IF r = d THEN row[r].inCount - 1 ELSE row[r].inCount
    BY DEF RemoveWrites, NextOut, PrevOut, NextIn, PrevIn
  <1>6. ASSUME NEW r \in AllRows
        PROVE  /\ i \in OutOf(r) <=> r = s
               /\ i \in InOf(r) <=> r = d
               /\ OutOf(r)' = OutOf(r) \ {i}
               /\ InOf(r)' = InOf(r) \ {i}
    <2>1. (i \in OutOf(r) <=> r = s) /\ (i \in InOf(r) <=> r = d)
      BY <1>2 DEF OutOf, InOf
    <2>2. \A j : j \in OutOf(r)' <=> j \in OutOf(r) /\ j # i
      BY <1>3 DEF OutOf
    <2>3. \A j : j \in InOf(r)' <=> j \in InOf(r) /\ j # i
      BY <1>3 DEF InOf
    <2>4. OutOf(r)' = OutOf(r) \ {i}
      BY <2>2
    <2>5. InOf(r)' = InOf(r) \ {i}
      BY <2>3
    <2> QED
      BY <2>1, <2>4, <2>5
  <1>7. NoEdge \notin EdgeIds
    BY ArenaAssumption DEF EdgeIds
  <1>8. ASSUME NEW r \in AllRows PROVE OutThreaded(r)'
    <2>1. \E z : Threaded(z, row[r].outHead, NextOut, PrevOut, row[r].outCount, OutOf(r))
      BY <1>1 DEF RowsLinked, OutThreaded
    <2>2. CASE r = s
      <3>1. i \in OutOf(r)
        BY <1>6, <2>2
      <3>2. LinksAround(i, row[r].outHead, NextOut, PrevOut, row'[r].outHead, NextOut', PrevOut')
        BY <1>4, <1>5, <2>2 DEF LinksAround
      <3>3. \E z : Threaded(z, row'[r].outHead, NextOut', PrevOut', row[r].outCount - 1, OutOf(r) \ {i})
        BY <2>1, <3>1, <3>2, ThreadClosed
      <3>4. row'[r].outCount = row[r].outCount - 1 /\ OutOf(r)' = OutOf(r) \ {i}
        BY <1>5, <1>6, <2>2
      <3> QED
        BY <3>3, <3>4 DEF OutThreaded
    <2>3. CASE r # s
      <3>1. \E z : Threaded(z, row[s].outHead, NextOut, PrevOut, row[s].outCount, OutOf(s))
        BY <1>1 DEF RowsLinked, OutThreaded
      <3>2. i \in OutOf(s)
        BY <1>6
      <3>3. NextOut[i] \in OutOf(s) \cup {NoEdge} /\ PrevOut[i] \in OutOf(s) \cup {NoEdge}
        BY <3>1, <3>2, ThreadEnds
      <3>4. NextOut[i] \notin OutOf(r) /\ PrevOut[i] \notin OutOf(r)
        BY <1>7, <2>3, <3>3 DEF OutOf
      <3>5. \A j \in OutOf(r) : j \in EdgeIds /\ j # NextOut[i] /\ j # PrevOut[i]
        BY <3>4 DEF OutOf
      <3>6. \A j \in OutOf(r) : NextOut'[j] = NextOut[j] /\ PrevOut'[j] = PrevOut[j]
        BY <1>4, <3>5
      <3>7. \E z : Threaded(z, row[r].outHead, NextOut', PrevOut', row[r].outCount, OutOf(r))
        BY <2>1, <3>6, ThreadSame
      <3>8. row'[r].outHead = row[r].outHead /\ row'[r].outCount = row[r].outCount
        BY <1>5, <2>3
      <3>9. OutOf(r)' = OutOf(r)
        BY <1>6, <2>3
      <3> QED
        BY <3>7, <3>8, <3>9 DEF OutThreaded
    <2> QED
      BY <2>2, <2>3
  <1>9. ASSUME NEW r \in AllRows PROVE InThreaded(r)'
    <2>1. \E z : Threaded(z, row[r].inHead, NextIn, PrevIn, row[r].inCount, InOf(r))
      BY <1>1 DEF RowsLinked, InThreaded
    <2>2. CASE r = d
      <3>1. i \in InOf(r)
        BY <1>6, <2>2
      <3>2. LinksAround(i, row[r].inHead, NextIn, PrevIn, row'[r].inHead, NextIn', PrevIn')
        BY <1>4, <1>5, <2>2 DEF LinksAround
      <3>3. \E z : Threaded(z, row'[r].inHead, NextIn', PrevIn', row[r].inCount - 1, InOf(r) \ {i})
        BY <2>1, <3>1, <3>2, ThreadClosed
      <3>4. row'[r].inCount = row[r].inCount - 1 /\ InOf(r)' = InOf(r) \ {i}
        BY <1>5, <1>6, <2>2
      <3> QED
        BY <3>3, <3>4 DEF InThreaded
    <2>3. CASE r # d
      <3>1. \E z : Threaded(z, row[d].inHead, NextIn, PrevIn, row[d].inCount, InOf(d))
        BY <1>1 DEF RowsLinked, InThreaded
      <3>2. i \in InOf(d)
        BY <1>6
      <3>3. NextIn[i] \in InOf(d) \cup {NoEdge} /\ PrevIn[i] \in InOf(d) \cup {NoEdge}
        BY <3>1, <3>2, ThreadEnds
      <3>4. NextIn[i] \notin InOf(r) /\ PrevIn[i] \notin InOf(r)
        BY <1>7, <2>3, <3>3 DEF InOf
      <3>5. \A j \in InOf(r) : j \in EdgeIds /\ j # NextIn[i] /\ j # PrevIn[i]
        BY <3>4 DEF InOf
      <3>6. \A j \in InOf(r) : NextIn'[j] = NextIn[j] /\ PrevIn'[j] = PrevIn[j]
        BY <1>4, <3>5
      <3>7. \E z : Threaded(z, row[r].inHead, NextIn', PrevIn', row[r].inCount, InOf(r))
        BY <2>1, <3>6, ThreadSame
      <3>8. row'[r].inHead = row[r].inHead /\ row'[r].inCount = row[r].inCount
        BY <1>5, <2>3
      <3>9. InOf(r)' = InOf(r)
        BY <1>6, <2>3
      <3> QED
        BY <3>7, <3>8, <3>9 DEF InThreaded
    <2> QED
      BY <2>2, <2>3
  <1>10. ASSUME NEW a \in AllRows, NEW b \in AllRows
         PROVE  edges'[<<a, b>>] = Cardinality(Between(a, b)')
    <2>1. /\ edges \in [AllRows \X AllRows -> Int] /\ edges[<<a, b>>] = Cardinality(Between(a, b))
      BY <1>1 DEF ArenaTyped, RowsLinked
    <2>2. Between(a, b)' = Between(a, b) \ {i}
      <3>1. \A j : j \in Between(a, b)' <=> j \in Between(a, b) /\ j # i
        BY <1>3 DEF Between
      <3> QED
        BY <3>1
    <2>3. (i \in Between(a, b) <=> a = s /\ b = d) /\ Between(a, b) \subseteq EdgeIds
      BY <1>2 DEF Between
    <2>4. IsFiniteSet(Between(a, b))
      <3>1. IsFiniteSet(EdgeIds)
        <4>1. 1 \in Int /\ MaxEdges \in Int
          BY ArenaAssumption
        <4> QED
          BY <4>1, FS_Interval DEF EdgeIds
      <3> QED
        BY <2>3, <3>1, FS_Subset
    <2>5. edges'[<<a, b>>] = IF a = s /\ b = d THEN edges[<<a, b>>] - 1 ELSE edges[<<a, b>>]
      <3>1. <<a, b>> \in AllRows \X AllRows /\ (<<a, b>> = <<s, d>> <=> a = s /\ b = d)
        OBVIOUS
      <3> QED
        BY <1>2, <2>1, <3>1
    <2>6. CASE a = s /\ b = d
      <3>1. Cardinality(Between(a, b) \ {i}) = Cardinality(Between(a, b)) - 1
        BY <2>3, <2>4, <2>6, FS_RemoveElement
      <3> QED
        BY <2>1, <2>2, <2>5, <2>6, <3>1
    <2>7. CASE ~(a = s /\ b = d)
      <3>1. Between(a, b)' = Between(a, b)
        BY <2>2, <2>3, <2>7
      <3> QED
        BY <2>1, <2>5, <2>7, <3>1
    <2> QED
      BY <2>6, <2>7
  <1> QED
    BY <1>8, <1>9, <1>10 DEF RowsLinked

\* Removing an edge.
LEMMA BeginRemoveKeeps ==
  ASSUME ArenaInv, NEW t \in Engines, NEW s \in Rows[t], NEW d \in Rows[t], BeginRemove(t, s, d)
  PROVE  ArenaInv'
  <1>1. s \in AllRows /\ d \in AllRows
    BY DEF AllRows
  <1>2. PICK i \in EdgeIds : RemoveWrites(t, i, s, d)
    BY <1>1, RemoveIsWritten
  <1>3. ArenaTyped' /\ RecordsKept'
    BY <1>1, <1>2, RemoveRecords
  <1>4. RowsLinked'
    BY <1>1, <1>2, RemoveRows
  <1> QED
    BY <1>3, <1>4 DEF ArenaInv

\* The arena begins with no edge.
LEMMA ArenaBegins ==
  ASSUME ArenaInit
  PROVE  ArenaInv
  <1>1. /\ recs = [i \in EdgeIds |-> BlankRec]
        /\ row = [r \in AllRows |-> [outHead |-> NoEdge, inHead |-> NoEdge, outCount |-> 0, inCount |-> 0]]
        /\ freeHead = [id |-> NoEdge, tag |-> 0] /\ nextId = 1
        /\ eat = [t \in Engines |-> Waiting]
        /\ edges = [q \in AllRows \X AllRows |-> 0]
    BY DEF ArenaInit, PackFree
  <1>2. BlankRec \in EdgeRecs /\ BlankRec.live = FALSE
    BY DEF BlankRec, EdgeRecs, RowOrNone, LinkIds
  <1>3. \A i \in EdgeIds : recs[i].live = FALSE
    BY <1>1, <1>2
  <1>4. \A t \in Engines : eat[t].at = "idle" /\ ~Holding(t)
    BY <1>1, WaitingIs DEF Holding
  <1>5. ArenaTyped
    <2>1. recs \in [EdgeIds -> EdgeRecs]
      BY <1>1, <1>2
    <2>2. row \in [AllRows -> RowRecs]
      BY <1>1 DEF RowRecs, LinkIds
    <2>3. freeHead \in HeadRecs /\ nextId \in 1..(MaxEdges + 1)
      BY <1>1, ArenaAssumption DEF HeadRecs, LinkIds
    <2>4. eat \in [Engines -> AtRecs]
      BY <1>1, WaitingIs
    <2>5. edges \in [AllRows \X AllRows -> Int]
      BY <1>1
    <2> QED
      BY <2>1, <2>2, <2>3, <2>4, <2>5 DEF ArenaTyped
  <1>6. PICK z : z = << >>
    OBVIOUS
  <1>7. z \in Seq(EdgeIds) /\ Len(z) = 0 /\ Elems(z) = {} /\ Once(z)
    BY <1>6 DEF Elems, Once
  <1>8. \A succ : Spells(z, NoEdge, succ) /\ Backs(z, succ)
    BY <1>7 DEF Spells, Backs, Foremost
  <1>9. RecordsKept
    <2>1. \A t \in Engines : HandIsApart(t) /\ HeadIsKnown(t)
      BY <1>4 DEF HandIsApart, HeadIsKnown
    <2>2. \A i \in EdgeIds : LiveIsUsed(i)
      BY <1>3 DEF LiveIsUsed
    <2>3. \A i \in EdgeIds : ~IsFree(i)
      BY <1>1 DEF IsFree, EdgeIds
    <2>4. FreeSpelled
      BY <1>1, <1>7, <1>8, <2>3 DEF FreeSpelled
    <2> QED
      BY <2>1, <2>2, <2>4 DEF RecordsKept
  <1>10. RowsLinked
    <2>1. \A r \in AllRows : OutOf(r) = {} /\ InOf(r) = {}
      BY <1>3 DEF OutOf, InOf
    <2>2. \A r \in AllRows : /\ row[r].outHead = NoEdge /\ row[r].inHead = NoEdge
                            /\ row[r].outCount = 0 /\ row[r].inCount = 0
      BY <1>1
    <2>3. ASSUME NEW r \in AllRows PROVE OutThreaded(r) /\ InThreaded(r)
      <3>1. Threaded(z, row[r].outHead, NextOut, PrevOut, row[r].outCount, OutOf(r))
        BY <1>7, <1>8, <2>1, <2>2 DEF Threaded
      <3>2. Threaded(z, row[r].inHead, NextIn, PrevIn, row[r].inCount, InOf(r))
        BY <1>7, <1>8, <2>1, <2>2 DEF Threaded
      <3> QED
        BY <3>1, <3>2 DEF OutThreaded, InThreaded
    <2>4. ASSUME NEW s \in AllRows, NEW d \in AllRows PROVE edges[<<s, d>>] = Cardinality(Between(s, d))
      <3>1. Between(s, d) = {}
        BY <1>3 DEF Between
      <3>2. edges[<<s, d>>] = 0
        BY <1>1
      <3> QED
        BY <3>1, <3>2, FS_EmptySet
    <2> QED
      BY <2>3, <2>4 DEF RowsLinked
  <1> QED
    BY <1>5, <1>9, <1>10 DEF ArenaInv

\* Every step of an engine keeps the invariant of the arena.
LEMMA ArenaStepKeeps ==
  ASSUME ArenaInv, ArenaNext
  PROVE  ArenaInv'
  <1>1. PICK t \in Engines :
           \/ ReadNext(t) \/ PopCas(t) \/ FreshId(t) \/ Link(t) \/ WriteNext(t) \/ PushCas(t)
           \/ \E s, d \in Rows[t] : BeginAdd(t, s, d) \/ BeginRemove(t, s, d)
    BY DEF ArenaNext
  <1>2. CASE ReadNext(t)
    BY <1>2, ReadNextKeeps
  <1>3. CASE PopCas(t)
    <2>1. CASE freeHead = eat[t].head
      BY <1>3, <2>1, PopKeeps
    <2>2. CASE freeHead # eat[t].head
      <3>1. /\ eat[t].at = "popcas" /\ eat' = [eat EXCEPT ![t].at = "pop", ![t].head = freeHead]
            /\ UNCHANGED <<recs, row, freeHead, nextId, edges>>
        BY <1>3, <2>2 DEF PopCas
      <3> QED
        BY <3>1, MissKeeps
    <2> QED
      BY <2>1, <2>2
  <1>4. CASE FreshId(t)
    BY <1>4, FreshIdKeeps
  <1>5. CASE Link(t)
    BY <1>5, LinkKeeps
  <1>6. CASE WriteNext(t)
    BY <1>6, WriteNextKeeps
  <1>7. CASE PushCas(t)
    <2>1. CASE freeHead = eat[t].head
      BY <1>7, <2>1, PushKeeps
    <2>2. CASE freeHead # eat[t].head
      <3>1. /\ eat[t].at = "pushcas" /\ eat' = [eat EXCEPT ![t].at = "push", ![t].head = freeHead]
            /\ UNCHANGED <<recs, row, freeHead, nextId, edges>>
        BY <1>7, <2>2 DEF PushCas
      <3> QED
        BY <3>1, MissKeeps
    <2> QED
      BY <2>1, <2>2
  <1>8. ASSUME NEW s \in Rows[t], NEW d \in Rows[t], BeginAdd(t, s, d) PROVE ArenaInv'
    BY <1>8, BeginAddKeeps
  <1>9. ASSUME NEW s \in Rows[t], NEW d \in Rows[t], BeginRemove(t, s, d) PROVE ArenaInv'
    BY <1>9, BeginRemoveKeeps
  <1> QED
    BY <1>1, <1>2, <1>3, <1>4, <1>5, <1>6, <1>7, <1>8, <1>9

\* The invariant accounts for every record.
LEMMA RecordsAreAccounted ==
  ASSUME ArenaInv
  PROVE  RecordsAccounted
  <1>1. ArenaTyped /\ RecordsKept
    BY DEF ArenaInv
  <1>2. PICK z : Spells(z, freeHead.id, NextFree) /\ \A i \in EdgeIds : i \in Elems(z) <=> IsFree(i)
    BY <1>1 DEF RecordsKept, FreeSpelled
  <1>3. FreeList = z /\ z \in Seq(EdgeIds) /\ Once(z)
    BY <1>2, WalkIs DEF FreeList, Spells
  <1>4. Len(z) = Cardinality(Elems(z))
    BY <1>3, ListFits
  <1>5. \A i : i \in Elems(z) <=> i \in EdgeIds /\ IsFree(i)
    BY <1>2, <1>3, ListShape
  <1>6. PICK linked : linked = {i \in EdgeIds : recs[i].live}
    OBVIOUS
  <1>7. Elems(z) \cap linked = {}
    BY <1>5, <1>6 DEF IsFree
  <1>8. \A t \in Engines : HandIsApart(t)
    BY <1>1 DEF RecordsKept
  <1>9. \A t \in Engines : \A i : i \in InHand(t) <=> Holding(t) /\ i = eat[t].id
    BY DEF InHand, Holding
  <1>10. ASSUME NEW t \in Engines
         PROVE  /\ InHand(t) \cap (linked \cup Elems(z)) = {}
                /\ \A u \in Engines \ {t} : InHand(t) \cap InHand(u) = {}
    <2>1. ASSUME NEW i, i \in InHand(t) PROVE i \notin linked /\ i \notin Elems(z)
      <3>1. Holding(t) /\ i = eat[t].id
        BY <1>9, <2>1
      <3>2. ~recs[i].live
        BY <1>8, <3>1 DEF HandIsApart
      <3> QED
        BY <1>5, <1>6, <3>1, <3>2 DEF IsFree
    <2>2. ASSUME NEW u \in Engines \ {t}, NEW i, i \in InHand(t), i \in InHand(u) PROVE FALSE
      <3>1. Holding(t) /\ i = eat[t].id /\ Holding(u) /\ i = eat[u].id /\ u # t
        BY <1>9, <2>2
      <3> QED
        BY <1>8, <3>1 DEF HandIsApart
    <2> QED
      BY <2>1, <2>2
  <1>11. linked \cup Elems(z) \cup UNION {InHand(t) : t \in Engines} = 1..(nextId - 1)
    <2>1. nextId \in 1..(MaxEdges + 1) /\ MaxEdges \in Nat
      BY <1>1, ArenaAssumption DEF ArenaTyped
    <2>2. \A i : i \in 1..(nextId - 1) <=> i \in EdgeIds /\ i < nextId
      BY <2>1 DEF EdgeIds
    <2>3. ASSUME NEW i, i \in EdgeIds, i < nextId
          PROVE  i \in linked \cup Elems(z) \cup UNION {InHand(t) : t \in Engines}
      <3>1. CASE recs[i].live
        BY <1>6, <2>3, <3>1
      <3>2. CASE IsFree(i)
        BY <1>5, <2>3, <3>2
      <3>3. CASE ~recs[i].live /\ ~IsFree(i)
        <4>1. PICK t \in Engines : Holding(t) /\ eat[t].id = i
          BY <2>3, <3>3 DEF IsFree
        <4>2. i \in InHand(t)
          BY <1>9, <4>1
        <4> QED
          BY <4>2
      <3> QED
        BY <3>1, <3>2, <3>3
    <2>4. ASSUME NEW i, i \in linked PROVE i \in EdgeIds /\ i < nextId
      <3>1. i \in EdgeIds /\ recs[i].live
        BY <1>6, <2>4
      <3>2. LiveIsUsed(i)
        BY <1>1, <3>1 DEF RecordsKept
      <3> QED
        BY <3>1, <3>2 DEF LiveIsUsed
    <2>5. ASSUME NEW i, i \in Elems(z) PROVE i \in EdgeIds /\ i < nextId
      BY <1>5, <2>5 DEF IsFree
    <2>6. ASSUME NEW t \in Engines, NEW i, i \in InHand(t) PROVE i \in EdgeIds /\ i < nextId
      BY <1>8, <1>9, <2>6 DEF HandIsApart
    <2> QED
      BY <2>2, <2>3, <2>4, <2>5, <2>6
  <1> QED
    BY <1>3, <1>4, <1>6, <1>7, <1>10, <1>11 DEF RecordsAccounted

\* The records a list's members point at point back.
LEMMA LinksReturn ==
  ASSUME NEW z, NEW head, NEW succ, NEW pred, Spells(z, head, succ), Backs(z, pred),
         NEW i \in Elems(z), succ[i] # NoEdge
  PROVE  pred[succ[i]] = i
  <1>0. z \in Seq(EdgeIds)
    BY DEF Spells
  <1>1. PICK k \in 1..Len(z) : z[k] = i
    BY <1>0, ListShape
  <1>2. succ[i] = After(z, k)
    BY <1>1 DEF Spells
  <1>3. k # Len(z) /\ succ[i] = z[k + 1]
    BY <1>2 DEF After
  <1>4. Len(z) \in Nat
    BY <1>0, ListShape
  <1>5. PICK p \in 1..Len(z) : p = k + 1
    BY <1>3, <1>4
  <1>6. p # 1 /\ p - 1 = k
    BY <1>4, <1>5
  <1>7. pred[z[p]] = z[k]
    BY <1>6 DEF Backs, Before
  <1> QED
    BY <1>1, <1>3, <1>5, <1>7

\* The two lists of every row hold the edges.
LEMMA ListsAreExact ==
  ASSUME ArenaInv
  PROVE  AdjacencyExact
  <1>1. \A s, d \in AllRows : edges[<<s, d>>] = Cardinality(Between(s, d))
    BY DEF ArenaInv, RowsLinked
  <1>2. ASSUME NEW r \in AllRows
        PROVE  /\ Len(Outs(r)) = row[r].outCount /\ Cardinality(Elems(Outs(r))) = row[r].outCount
               /\ Len(Ins(r)) = row[r].inCount /\ Cardinality(Elems(Ins(r))) = row[r].inCount
               /\ \A d \in AllRows :
                    /\ edges[<<r, d>>] = Cardinality({i \in Elems(Outs(r)) : recs[i].dst = d /\ recs[i].src = r})
                    /\ edges[<<d, r>>] = Cardinality({i \in Elems(Ins(r)) : recs[i].src = d /\ recs[i].dst = r})
               /\ \A i \in Elems(Outs(r)) :
                    recs[i].nextOut # NoEdge => recs[recs[i].nextOut].prevOut = i
               /\ \A i \in Elems(Ins(r)) :
                    recs[i].nextIn # NoEdge => recs[recs[i].nextIn].prevIn = i
    <2>1. PICK z : z = Outs(r)
      OBVIOUS
    <2>2. PICK y : y = Ins(r)
      OBVIOUS
    <2>3. /\ z \in Seq(EdgeIds) /\ Once(z) /\ row[r].outCount = Len(z) /\ Elems(z) = OutOf(r)
          /\ Spells(z, row[r].outHead, NextOut)
          /\ Backs(z, PrevOut)
      BY <2>1, OutsAre
    <2>4. /\ y \in Seq(EdgeIds) /\ Once(y) /\ row[r].inCount = Len(y) /\ Elems(y) = InOf(r)
          /\ Spells(y, row[r].inHead, NextIn)
          /\ Backs(y, PrevIn)
      BY <2>2, InsAre
    <2>5. Cardinality(Elems(z)) = Len(z) /\ Cardinality(Elems(y)) = Len(y)
      BY <2>3, <2>4, ListFits
    <2>6. ASSUME NEW d \in AllRows
          PROVE  /\ edges[<<r, d>>] = Cardinality({i \in Elems(z) : recs[i].dst = d /\ recs[i].src = r})
                 /\ edges[<<d, r>>] = Cardinality({i \in Elems(y) : recs[i].src = d /\ recs[i].dst = r})
      <3>1. {i \in Elems(z) : recs[i].dst = d /\ recs[i].src = r} = Between(r, d)
        BY <2>3 DEF OutOf, Between
      <3>2. {i \in Elems(y) : recs[i].src = d /\ recs[i].dst = r} = Between(d, r)
        BY <2>4 DEF InOf, Between
      <3>3. edges[<<r, d>>] = Cardinality(Between(r, d)) /\ edges[<<d, r>>] = Cardinality(Between(d, r))
        BY <1>1
      <3> QED
        BY <3>1, <3>2, <3>3, Zenon
    <2>7. ASSUME NEW i \in Elems(z), recs[i].nextOut # NoEdge PROVE recs[recs[i].nextOut].prevOut = i
      <3>1. i \in EdgeIds /\ NextOut[i] = recs[i].nextOut /\ NextOut[i] # NoEdge
        BY <2>7, <2>3 DEF OutOf, NextOut
      <3>2. PrevOut[NextOut[i]] = i
        BY <2>3, <3>1, LinksReturn
      <3>3. NextOut[i] \in EdgeIds
        <4>1. recs[i] \in EdgeRecs
          BY <3>1 DEF ArenaInv, ArenaTyped
        <4> QED
          BY <2>7, <3>1, <4>1 DEF EdgeRecs, LinkIds
      <3> QED
        BY <3>1, <3>2, <3>3 DEF PrevOut
    <2>8. ASSUME NEW i \in Elems(y), recs[i].nextIn # NoEdge PROVE recs[recs[i].nextIn].prevIn = i
      <3>1. i \in EdgeIds /\ NextIn[i] = recs[i].nextIn /\ NextIn[i] # NoEdge
        BY <2>8, <2>4 DEF InOf, NextIn
      <3>2. PrevIn[NextIn[i]] = i
        BY <2>4, <3>1, LinksReturn
      <3>3. NextIn[i] \in EdgeIds
        <4>1. recs[i] \in EdgeRecs
          BY <3>1 DEF ArenaInv, ArenaTyped
        <4> QED
          BY <2>8, <3>1, <4>1 DEF EdgeRecs, LinkIds
      <3> QED
        BY <3>1, <3>2, <3>3 DEF PrevIn
    <2> QED
      BY <2>1, <2>2, <2>3, <2>4, <2>5, <2>6, <2>7, <2>8
  <1> QED
    BY <1>2 DEF AdjacencyExact

\* Nothing two engines do to the shared free list at the same time hands a record out
\* twice or loses one, and both adjacency lists of every row hold exactly the edges added
\* and not removed, whatever the number of engines, rows and records
\* (arc/ref_table_reverse.hpp: popFree, pushFree, addOut, removeOut, unlink).
THEOREM ArenaKeepsItsBooks ==
  ArenaSpec => []ArenaIsSound
  <1>1. ArenaInit => ArenaInv
    BY ArenaBegins
  <1>2. ArenaInv /\ [ArenaNext]_arenaVars => ArenaInv'
    <2> SUFFICES ASSUME ArenaInv, [ArenaNext]_arenaVars PROVE ArenaInv'
      OBVIOUS
    <2>1. CASE ArenaNext
      BY <2>1, ArenaStepKeeps
    <2>2. CASE UNCHANGED arenaVars
      <3>1. UNCHANGED <<recs, row, freeHead, nextId, eat, edges>>
        BY <2>2 DEF arenaVars
      <3>2. /\ ArenaTyped' /\ \A t \in Engines : HandIsApart(t)' /\ HeadIsKnown(t)'
            /\ \A i \in EdgeIds : LiveIsUsed(i)' /\ (IsFree(i)' <=> IsFree(i))
        BY <3>1 DEF ArenaInv, ArenaTyped, RecordsKept, HandIsApart, HeadIsKnown, LiveIsUsed, IsFree, Holding
      <3>3. FreeSpelled /\ RowsLinked
        BY DEF ArenaInv, RecordsKept
      <3>4. FreeSpelled'
        BY <3>1, <3>2, <3>3, FreeKept
      <3>5. RowsLinked'
        BY <3>1, <3>3, RowsKept
      <3> QED
        BY <3>2, <3>4, <3>5 DEF ArenaInv, RecordsKept
    <2> QED
      BY <2>1, <2>2
  <1>3. ArenaInv => ArenaIsSound
    BY RecordsAreAccounted, ListsAreExact DEF ArenaIsSound
  <1> QED
    BY <1>1, <1>2, <1>3, PTL DEF ArenaSpec

-----------------------------------------------------------------------------
(* The root bag: probing *)

\* Adding to a number goes round the remainders, one by one.
LEMMA GoesRound ==
  ASSUME NEW a \in Nat, NEW c \in Nat \ {0}
  PROVE  /\ \A n \in Nat : (a + n) % c \in 0..(c - 1)
         /\ \A m, n \in 0..(c - 1) : (a + m) % c = (a + n) % c => m = n
         /\ \A i \in 0..(c - 1) : \E n \in 0..(c - 1) : (a + n) % c = i
  <1> DEFINE q == a \div c
             r == a % c
  <1>1. q \in Nat /\ r \in 0..(c - 1) /\ a = c * q + r
    BY Division
  <1> HIDE DEF q, r
  <1>2. \A n \in Nat : (a + n) % c \in 0..(c - 1)
    <2> SUFFICES ASSUME NEW n \in Nat PROVE (a + n) % c \in 0..(c - 1)
      OBVIOUS
    <2>1. a + n \in Nat
      OBVIOUS
    <2> QED
      BY <2>1, Division
  <1>3. ASSUME NEW n \in 0..(c - 1)
        PROVE  (a + n) % c = IF r + n < c THEN r + n ELSE r + n - c
    <2>1. CASE r + n < c
      <3>1. r + n \in 0..(c - 1)
        BY <1>1, <2>1
      <3>2. a + n = c * q + (r + n)
        <4> DEFINE y == c * q
        <4>1. y \in Nat /\ a = y + r
          BY <1>1
        <4> HIDE DEF y
        <4>2. a + n = y + (r + n)
          BY <1>1, <4>1
        <4> QED
          BY <4>2 DEF y
      <3>3. (c * q + (r + n)) % c = r + n
        BY <1>1, <3>1, Remainder
      <3> QED
        BY <2>1, <3>2, <3>3
    <2>2. CASE ~(r + n < c)
      <3>1. r + n - c \in 0..(c - 1)
        BY <1>1, <2>2
      <3>2. a + n = c * (q + 1) + (r + n - c)
        <4> DEFINE y == c * q
                   z == c * (q + 1)
        <4>1. y \in Nat /\ a = y + r /\ z = y + c
          BY <1>1
        <4> HIDE DEF y, z
        <4>2. a + n = z + (r + n - c)
          BY <1>1, <4>1
        <4> QED
          BY <4>2, Zenon DEF z
      <3>3. (c * (q + 1) + (r + n - c)) % c = r + n - c
        <4>1. q + 1 \in Nat
          BY <1>1
        <4> QED
          BY <3>1, <4>1, Remainder
      <3> QED
        BY <2>2, <3>2, <3>3
    <2> QED
      BY <2>1, <2>2
  <1>4. \A m, n \in 0..(c - 1) : (a + m) % c = (a + n) % c => m = n
    BY <1>1, <1>3
  <1>5. ASSUME NEW i \in 0..(c - 1) PROVE \E n \in 0..(c - 1) : (a + n) % c = i
    <2>1. CASE i >= r
      <3>1. i - r \in 0..(c - 1) /\ r + (i - r) = i /\ i < c
        BY <1>1, <2>1
      <3> QED
        BY <1>3, <3>1
    <2>2. CASE ~(i >= r)
      <3>1. PICK n \in 0..(c - 1) : n = i - r + c
        <4>1. i - r + c \in 0..(c - 1)
          BY <1>1, <2>2
        <4> QED
          BY <4>1
      <3>2. ~(r + n < c) /\ r + n - c = i
        BY <1>1, <3>1
      <3>3. (a + n) % c = i
        BY <1>3, <3>2
      <3> QED
        BY <3>3
    <2> QED
      BY <2>1, <2>2
  <1> QED
    BY <1>2, <1>4, <1>5

\* The least of a set of numbers.
LEMMA MinIs ==
  ASSUME NEW S \in SUBSET Nat, S # {}
  PROVE  Min(S) \in S /\ \A k \in S : Min(S) <= k
  <1>1. \E n \in S : \A k \in S : n <= k
    BY LeastNumber
  <1> QED
    BY <1>1 DEF Min

Marks == Keys \cup {Empty, Tombstone}
Span(c) == 0..(c - 1)
Tables(c) == [Span(c) -> Marks]

\* A key a probe for it finds: no empty slot before its place.
Findable(t, c) ==
    /\ \A i, j \in Span(c) : t[i] \in Keys /\ t[i] = t[j] => i = j
    /\ \A i \in Span(c) : t[i] \in Keys =>
          \E n \in Span(c) : /\ Probed(t, t[i], n) = i
                             /\ \A m \in 0..(n - 1) : t[Probed(t, t[i], m)] # Empty

\* The number of slots of a table.
LEMMA CapacityIs ==
  ASSUME NEW c \in Nat, NEW S, NEW t \in [Span(c) -> S]
  PROVE  CapacityOf(t) = c
  <1>1. DOMAIN t = 0..(c - 1)
    BY DEF Span
  <1>2. 0 \in Int /\ c - 1 \in Int
    OBVIOUS
  <1>3. Cardinality(0..(c - 1)) = IF 0 > c - 1 THEN 0 ELSE c - 1 - 0 + 1
    BY <1>2, FS_Interval
  <1>4. Cardinality(0..(c - 1)) = c
    BY <1>3
  <1> QED
    BY <1>1, <1>4 DEF CapacityOf

\* The slots that a probe visits.
LEMMA ProbesVisit ==
  ASSUME NEW c \in Nat \ {0}, NEW t \in Tables(c), NEW key \in Keys
  PROVE  /\ \A n \in Nat : Probed(t, key, n) \in Span(c)
         /\ \A m, n \in Span(c) : Probed(t, key, m) = Probed(t, key, n) => m = n
         /\ \A i \in Span(c) : \E n \in Span(c) : Probed(t, key, n) = i
         /\ \A n : Probed(t, key, n) = (Mix[key] + n) % c
  <1>1. CapacityOf(t) = c
    BY CapacityIs DEF Tables
  <1>2. PICK a \in Nat : a = Mix[key]
    BY BagAssumption
  <1>3. \A n : Probed(t, key, n) = (a + n) % c
    BY <1>1, <1>2 DEF Probed
  <1>4. /\ \A n \in Nat : (a + n) % c \in Span(c)
        /\ \A m, n \in Span(c) : (a + m) % c = (a + n) % c => m = n
        /\ \A i \in Span(c) : \E n \in Span(c) : (a + n) % c = i
    BY GoesRound DEF Span
  <1>5. ASSUME NEW n \in Nat PROVE Probed(t, key, n) \in Span(c)
    <2>1. (a + n) % c \in Span(c) /\ Probed(t, key, n) = (a + n) % c
      BY <1>3, <1>4
    <2> QED
      BY <2>1, Zenon
  <1>6. ASSUME NEW m \in Span(c), NEW n \in Span(c), Probed(t, key, m) = Probed(t, key, n) PROVE m = n
    <2>1. (a + m) % c = (a + n) % c
      BY <1>3, <1>6, Zenon
    <2> QED
      BY <1>4, <2>1, Zenon
  <1>7. \A i \in Span(c) : \E n \in Span(c) : Probed(t, key, n) = i
    BY <1>3, <1>4, Zenon
  <1>8. \A n : Probed(t, key, n) = (Mix[key] + n) % c
    BY <1>2, <1>3, Zenon
  <1> QED
    BY <1>5, <1>6, <1>7, <1>8

\* Where a probe in a table with an empty slot stops.
LEMMA ProbeStops ==
  ASSUME NEW c \in Nat \ {0}, NEW t \in Tables(c), NEW key \in Keys,
         \E i \in Span(c) : t[i] = Empty
  PROVE  /\ ProbeLength(t, key) \in Span(c)
         /\ t[Probed(t, key, ProbeLength(t, key))] \in {key, Empty}
         /\ \A m \in 0..(ProbeLength(t, key) - 1) : t[Probed(t, key, m)] \notin {key, Empty}
  <1> DEFINE S == {k \in Span(c) : t[Probed(t, key, k)] \in {key, Empty}}
  <1>1. ProbeLength(t, key) = Min(S)
    <2>1. CapacityOf(t) = c
      BY CapacityIs DEF Tables
    <2> QED
      BY <2>1 DEF ProbeLength, Span
  <1>2. S \in SUBSET Nat
    BY DEF Span
  <1>3. S # {}
    <2>1. PICK i \in Span(c) : t[i] = Empty
      OBVIOUS
    <2>2. PICK n \in Span(c) : Probed(t, key, n) = i
      BY <2>1, ProbesVisit
    <2>3. n \in S
      BY <2>1, <2>2
    <2> QED
      BY <2>3
  <1>4. Min(S) \in S /\ \A k \in S : Min(S) <= k
    BY <1>2, <1>3, MinIs
  <1> DEFINE p == ProbeLength(t, key)
  <1>5. p \in Span(c) /\ t[Probed(t, key, p)] \in {key, Empty}
    BY <1>1, <1>4
  <1>6. \A k \in S : p <= k
    BY <1>1, <1>4
  <1> HIDE DEF p
  <1>7. ASSUME NEW m \in 0..(p - 1) PROVE t[Probed(t, key, m)] \notin {key, Empty}
    <2>1. m \in Span(c) /\ ~(p <= m)
      BY <1>5 DEF Span
    <2> QED
      BY <1>6, <2>1
  <1> QED
    BY <1>5, <1>7 DEF p

\* A probe finds a key that is in its place.
LEMMA ProbeFinds ==
  ASSUME NEW c \in Nat \ {0}, NEW t \in Tables(c), Findable(t, c),
         \E i \in Span(c) : t[i] = Empty, NEW i \in Span(c), t[i] \in Keys
  PROVE  ProbeEnd(t, t[i]) = i
  <1> DEFINE key == t[i]
             p == ProbeLength(t, key)
  <1>1. PICK n \in Span(c) : /\ Probed(t, key, n) = i
                             /\ \A m \in 0..(n - 1) : t[Probed(t, key, m)] # Empty
    BY DEF Findable
  <1>2. /\ p \in Span(c) /\ t[Probed(t, key, p)] \in {key, Empty}
        /\ \A m \in 0..(p - 1) : t[Probed(t, key, m)] \notin {key, Empty}
    BY ProbeStops
  <1>3. key \in Keys /\ t[Probed(t, key, n)] = key
    BY <1>1
  <1> HIDE DEF key, p
  <1>4. n \in Nat /\ p \in Nat
    BY <1>2 DEF Span
  <1>5. ~(n < p)
    <2>1. n < p => n \in 0..(p - 1)
      BY <1>4
    <2> QED
      BY <1>2, <1>3, <2>1
  <1>6. t[Probed(t, key, p)] = key
    <2>1. CASE p = n
      BY <1>3, <2>1
    <2>2. CASE p # n
      <3>1. p \in 0..(n - 1)
        BY <1>4, <1>5, <2>2
      <3> QED
        BY <1>1, <1>2, <3>1
    <2> QED
      BY <2>1, <2>2
  <1>7. Probed(t, key, p) \in Span(c)
    BY <1>3, <1>4, ProbesVisit
  <1>8. Probed(t, key, p) = i
    BY <1>3, <1>6, <1>7 DEF Findable, key
  <1> QED
    BY <1>8 DEF ProbeEnd, key, p

\* Tables of one size are probed in the same places.
LEMMA SameProbes ==
  ASSUME NEW c \in Nat, NEW t \in Tables(c), NEW u \in Tables(c)
  PROVE  \A key, n : Probed(u, key, n) = Probed(t, key, n)
  <1>1. CapacityOf(t) = c /\ CapacityOf(u) = c
    BY CapacityIs DEF Tables
  <1> QED
    BY <1>1 DEF Probed

\* A mark that is not empty in the place of one that is no key keeps every key findable.
LEMMA FindableOver ==
  ASSUME NEW c \in Nat \ {0}, NEW t \in Tables(c), Findable(t, c),
         NEW u \in Tables(c),
         \A i \in Span(c) : t[i] # Empty => u[i] # Empty,
         \A i \in Span(c) : u[i] \in Keys => u[i] = t[i]
  PROVE  Findable(u, c)
  <1>1. \A i, j \in Span(c) : u[i] \in Keys /\ u[i] = u[j] => i = j
    BY DEF Findable
  <1>2. ASSUME NEW i \in Span(c), u[i] \in Keys
        PROVE  \E n \in Span(c) : /\ Probed(u, u[i], n) = i
                                  /\ \A m \in 0..(n - 1) : u[Probed(u, u[i], m)] # Empty
    <2>1. u[i] = t[i]
      BY <1>2
    <2>2. PICK n \in Span(c) : /\ Probed(t, t[i], n) = i
                               /\ \A m \in 0..(n - 1) : t[Probed(t, t[i], m)] # Empty
      BY <1>2, <2>1 DEF Findable
    <2>3. \A m : Probed(u, u[i], m) = Probed(t, t[i], m)
      <3>1. \A k, m : Probed(u, k, m) = Probed(t, k, m)
        BY SameProbes
      <3> QED
        BY <2>1, <3>1
    <2>4. ASSUME NEW m \in 0..(n - 1) PROVE u[Probed(u, u[i], m)] # Empty
      <3>1. m \in Nat
        BY DEF Span
      <3>2. Probed(t, t[i], m) \in Span(c)
        BY <1>2, <2>1, <3>1, ProbesVisit
      <3>3. t[Probed(t, t[i], m)] # Empty
        BY <2>2
      <3>4. u[Probed(t, t[i], m)] # Empty
        BY <3>2, <3>3
      <3>5. Probed(u, u[i], m) = Probed(t, t[i], m)
        BY <2>3
      <3> QED
        BY <3>4, <3>5
    <2>5. Probed(u, u[i], n) = i
      BY <2>2, <2>3
    <2> QED
      BY <2>4, <2>5
  <1> QED
    BY <1>1, <1>2 DEF Findable

\* Where probeInsert puts a key.
LEMMA InsertPlace ==
  ASSUME NEW c \in Nat \ {0}, NEW t \in Tables(c), Findable(t, c),
         \E i \in Span(c) : t[i] = Empty, NEW key \in Keys
  PROVE  LET slot == ProbeInsert(t, key) IN
         /\ slot \in Span(c) /\ t[slot] \in {key, Empty, Tombstone}
         /\ t[slot] = key <=> \E i \in Span(c) : t[i] = key
         /\ Reclaims(t, key) <=> t[slot] = Tombstone
         /\ \E n \in Span(c) : /\ Probed(t, key, n) = slot
                               /\ \A m \in 0..(n - 1) : t[Probed(t, key, m)] # Empty
  <1> DEFINE p == ProbeLength(t, key)
             last == ProbeEnd(t, key)
             slot == ProbeInsert(t, key)
  <1>1. /\ p \in Span(c) /\ t[Probed(t, key, p)] \in {key, Empty}
        /\ \A m \in 0..(p - 1) : t[Probed(t, key, m)] \notin {key, Empty}
    BY ProbeStops
  <1>2. p \in Nat /\ \A n \in Nat : Probed(t, key, n) \in Span(c)
    BY <1>1, ProbesVisit DEF Span
  <1>3. last = Probed(t, key, p) /\ last \in Span(c) /\ t[last] \in {key, Empty}
    BY <1>1, <1>2 DEF ProbeEnd
  <1>4. key # Empty /\ key # Tombstone /\ Empty # Tombstone
    BY BagAssumption
  <1>5. ASSUME NEW i \in Span(c), t[i] = key PROVE last = i
    BY <1>5, ProbeFinds
  <1>6. Passed(t, key) = {k \in 0..(p - 1) : t[Probed(t, key, k)] = Tombstone}
    BY DEF Passed
  <1>7. Reclaims(t, key) <=> t[last] = Empty /\ Passed(t, key) # {}
    BY DEF Reclaims
  <1>8. CASE Reclaims(t, key)
    <2> DEFINE k == Min(Passed(t, key))
    <2>1. k \in Passed(t, key)
      <3>1. Passed(t, key) \in SUBSET Nat
        BY <1>2, <1>6
      <3> QED
        BY <1>7, <1>8, <3>1, MinIs
    <2>2. slot = Probed(t, key, k)
      BY <1>8 DEF ProbeInsert
    <2> HIDE DEF k
    <2>3. k \in 0..(p - 1) /\ t[slot] = Tombstone
      BY <1>6, <2>1, <2>2
    <2>4. k \in Nat /\ k \in Span(c) /\ slot \in Span(c)
      <3>1. k \in Nat /\ k \in Span(c)
        BY <1>1, <2>3 DEF Span
      <3> QED
        BY <1>2, <2>2, <3>1
    <2>5. ~ \E i \in Span(c) : t[i] = key
      BY <1>4, <1>5, <1>7, <1>8
    <2>6. \A m \in 0..(k - 1) : t[Probed(t, key, m)] # Empty
      <3>1. \A m \in 0..(k - 1) : m \in 0..(p - 1)
        BY <1>2, <2>3
      <3> QED
        BY <1>1, <3>1
    <2> QED
      BY <1>4, <1>8, <2>2, <2>3, <2>4, <2>5, <2>6
  <1>9. CASE ~Reclaims(t, key)
    <2>1. slot = last
      BY <1>9 DEF ProbeInsert
    <2>2. t[slot] = key <=> \E i \in Span(c) : t[i] = key
      BY <1>3, <1>5, <2>1
    <2>3. t[slot] # Tombstone
      BY <1>3, <1>4, <2>1
    <2> QED
      BY <1>1, <1>3, <1>9, <2>1, <2>2, <2>3
  <1> QED
    BY <1>8, <1>9

\* A table with a key inserted keeps every key findable.
LEMMA InsertFindable ==
  ASSUME NEW c \in Nat \ {0}, NEW t \in Tables(c), Findable(t, c),
         \E i \in Span(c) : t[i] = Empty, NEW key \in Keys,
         NEW u, u = [t EXCEPT ![ProbeInsert(t, key)] = key]
  PROVE  u \in Tables(c) /\ Findable(u, c)
  <1> DEFINE slot == ProbeInsert(t, key)
  <1>1. /\ slot \in Span(c) /\ t[slot] \in {key, Empty, Tombstone}
        /\ t[slot] = key <=> \E i \in Span(c) : t[i] = key
    BY InsertPlace
  <1>2. PICK n \in Span(c) : /\ Probed(t, key, n) = slot
                             /\ \A m \in 0..(n - 1) : t[Probed(t, key, m)] # Empty
    BY InsertPlace
  <1>3. u = [t EXCEPT ![slot] = key]
    OBVIOUS
  <1> HIDE DEF slot
  <1>4. /\ u \in Tables(c) /\ u[slot] = key
        /\ \A i \in Span(c) : i # slot => u[i] = t[i]
    BY <1>1, <1>3 DEF Tables, Marks
  <1>5. key # Empty /\ \A i \in Span(c) : t[i] # Empty => u[i] # Empty
    BY <1>4, BagAssumption
  <1>6. \A i \in Span(c) : i # slot => t[i] # key
    BY <1>1 DEF Findable
  <1>7. \A i, j \in Span(c) : u[i] \in Keys /\ u[i] = u[j] => i = j
    BY <1>4, <1>6 DEF Findable
  <1>8. ASSUME NEW i \in Span(c), u[i] \in Keys
        PROVE  \E k \in Span(c) : /\ Probed(u, u[i], k) = i
                                  /\ \A m \in 0..(k - 1) : u[Probed(u, u[i], m)] # Empty
    <2>1. PICK k \in Span(c) : /\ Probed(t, u[i], k) = i
                               /\ \A m \in 0..(k - 1) : t[Probed(t, u[i], m)] # Empty
      <3>1. CASE i = slot
        BY <1>2, <1>4, <3>1
      <3>2. CASE i # slot
        <4>1. u[i] = t[i]
          BY <1>4, <3>2
        <4> QED
          BY <1>8, <4>1 DEF Findable
      <3> QED
        BY <3>1, <3>2
    <2>2. \A m : Probed(u, u[i], m) = Probed(t, u[i], m)
      <3>1. \A key2, m : Probed(u, key2, m) = Probed(t, key2, m)
        BY <1>4, SameProbes
      <3> QED
        BY <3>1
    <2>3. ASSUME NEW m \in 0..(k - 1) PROVE u[Probed(u, u[i], m)] # Empty
      <3>1. m \in Nat
        BY DEF Span
      <3>2. Probed(t, u[i], m) \in Span(c)
        BY <1>8, <3>1, ProbesVisit
      <3>3. t[Probed(t, u[i], m)] # Empty
        BY <2>1
      <3>4. u[Probed(t, u[i], m)] # Empty
        BY <1>5, <3>2, <3>3
      <3>5. Probed(u, u[i], m) = Probed(t, u[i], m)
        BY <2>2
      <3> QED
        BY <3>4, <3>5
    <2>4. Probed(u, u[i], k) = i
      BY <2>1, <2>2
    <2> QED
      BY <2>3, <2>4
  <1> QED
    BY <1>4, <1>7, <1>8 DEF Findable

-----------------------------------------------------------------------------
(* The root bag: growing *)

Tombs(t, c) == {i \in Span(c) : t[i] = Tombstone}

\* The indices of a table.
LEMMA SpanIs ==
  ASSUME NEW c \in Nat
  PROVE  IsFiniteSet(Span(c)) /\ Cardinality(Span(c)) = c
  <1>1. 0 \in Int /\ c - 1 \in Int
    OBVIOUS
  <1>2. IsFiniteSet(0..(c - 1)) /\ Cardinality(0..(c - 1)) = IF 0 > c - 1 THEN 0 ELSE c - 1 - 0 + 1
    BY <1>1, FS_Interval
  <1>3. (IF 0 > c - 1 THEN 0 ELSE c - 1 - 0 + 1) = c
    OBVIOUS
  <1> QED
    BY <1>2, <1>3 DEF Span

\* A table with fewer keys and tombstones than slots has an empty slot.
LEMMA EmptyLeft ==
  ASSUME NEW c \in Nat, NEW t \in Tables(c), Findable(t, c),
         NEW S, IsFiniteSet(S), \A i \in Span(c) : t[i] \in Keys => t[i] \in S,
         Cardinality(S) + Cardinality(Tombs(t, c)) < c
  PROVE  \E i \in Span(c) : t[i] = Empty
  <1> SUFFICES ASSUME ~ \E i \in Span(c) : t[i] = Empty PROVE FALSE
    OBVIOUS
  <1> DEFINE L == {i \in Span(c) : t[i] \in Keys}
             T == Tombs(t, c)
             f == [i \in L |-> t[i]]
  <1>1. IsFiniteSet(Span(c)) /\ Cardinality(Span(c)) = c
    BY SpanIs
  <1>2. IsFiniteSet(L) /\ IsFiniteSet(T)
    <2>1. L \in SUBSET Span(c) /\ T \in SUBSET Span(c)
      BY DEF Tombs
    <2> QED
      BY <1>1, <2>1, FS_Subset
  <1>3. f \in Injection(L, S)
    <2>1. f \in [L -> S]
      OBVIOUS
    <2>2. \A i, j \in L : f[i] = f[j] => i = j
      BY DEF Findable
    <2> QED
      BY <2>1, <2>2 DEF Injection, IsInjective
  <1>4. Cardinality(L) <= Cardinality(S)
    BY <1>3, FS_Injection
  <1>5. Span(c) = L \cup T
    BY DEF Tables, Marks, Tombs
  <1>6. Cardinality(L \cup T) = Cardinality(L) + Cardinality(T) - Cardinality(L \cap T)
    BY <1>2, FS_Union
  <1>7. Cardinality(L) \in Nat /\ Cardinality(T) \in Nat /\ Cardinality(S) \in Nat
    BY <1>2, FS_CardinalityType
  <1>8. Cardinality(L \cap T) \in Nat
    BY <1>2, FS_Intersection, FS_CardinalityType
  <1> DEFINE cl == Cardinality(L)
             ct == Cardinality(T)
             cs == Cardinality(S)
             ci == Cardinality(L \cap T)
  <1>9. /\ cl \in Nat /\ ct \in Nat /\ cs \in Nat /\ ci \in Nat /\ cl <= cs
        /\ c = cl + ct - ci /\ cs + ct < c
    <2>1. c = Cardinality(L \cup T)
      BY <1>1, <1>5
    <2> HIDE DEF L, T
    <2>2. c = cl + ct - ci
      BY <1>6, <2>1
    <2> QED
      BY <1>4, <1>7, <1>8, <2>2 DEF T
  <1> HIDE DEF cl, ct, cs, ci
  <1> QED
    BY <1>9

\* The capacity a table grows to.
LEMMA PowerIs ==
  ASSUME NEW n \in Nat
  PROVE  NextPow2(n) \in Nat /\ NextPow2(n) >= n
  <1> DEFINE Step(f, e) == IF e = 0 THEN 1 ELSE 2 * f[e - 1]
             Runs(f, m) == f = [e \in 0..m |-> Step(f, e)]
             Built == {m \in 0..n : \E f : Runs(f, m)}
  <1>1. n \in Built
    <2> DEFINE Bad == (0..n) \ Built
    <2> SUFFICES ASSUME n \notin Built PROVE FALSE
      OBVIOUS
    <2>1. Bad \in SUBSET Nat /\ Bad # {}
      <3> HIDE DEF Built
      <3> QED
        OBVIOUS
    <2>2. PICK m \in Bad : \A k \in Bad : m <= k
      <3> HIDE DEF Bad
      <3> QED
        BY <2>1, LeastNumber
    <2>3. 0 \in Built
      <3> DEFINE f == [e \in 0..0 |-> 1]
      <3>1. f = [e \in 0..0 |-> Step(f, e)]
        OBVIOUS
      <3> HIDE DEF f, Step
      <3>2. Runs(f, 0)
        BY <3>1
      <3> HIDE DEF Runs
      <3> QED
        BY <3>2
    <2>4. m \in 0..n /\ m # 0 /\ m - 1 \in 0..n
      <3> HIDE DEF Built
      <3> QED
        BY <2>2, <2>3
    <2>5. m - 1 \in Built
      <3> HIDE DEF Built
      <3>1. m - 1 \notin Bad
        BY <2>2, <2>4
      <3> QED
        BY <2>4, <3>1
    <2>6. PICK f : f = [e \in 0..(m - 1) |-> Step(f, e)]
      BY <2>5
    <2> DEFINE g == [e \in 0..m |-> IF e = m THEN 2 * f[m - 1] ELSE f[e]]
    <2>7. ASSUME NEW e \in 0..m PROVE g[e] = Step(g, e)
      <3>1. CASE e = m
        BY <2>4, <3>1
      <3>2. CASE e # m
        <4>1. e \in 0..(m - 1) /\ (e # 0 => e - 1 \in 0..m /\ e - 1 # m)
          BY <2>4, <3>2
        <4>2. f[e] = Step(f, e)
          BY <2>6, <4>1
        <4> QED
          BY <3>2, <4>1, <4>2
      <3> QED
        BY <3>1, <3>2
    <2>8. g = [e \in 0..m |-> g[e]]
      OBVIOUS
    <2> HIDE DEF g
    <2>9. g = [e \in 0..m |-> Step(g, e)]
      BY <2>7, <2>8
    <2>10. m \in Built
      BY <2>4, <2>9
    <2> QED
      BY <2>2, <2>10
  <1>2. \E f : f = [e \in 0..n |-> Step(f, e)]
    BY <1>1
  <1>3. PICK f : /\ f = [e \in 0..n |-> Step(f, e)]
                 /\ NextPow2(n) = f[Min({e \in 0..n : f[e] >= n})]
    BY <1>2 DEF NextPow2
  <1>4. ASSUME NEW k \in 0..n PROVE f[k] \in Nat /\ f[k] >= k + 1
    <2> DEFINE Bad == {e \in 0..n : ~(f[e] \in Nat /\ f[e] >= e + 1)}
    <2> SUFFICES ASSUME Bad # {} PROVE FALSE
      OBVIOUS
    <2>1. PICK m \in Bad : \A e \in Bad : m <= e
      <3>1. Bad \in SUBSET Nat
        OBVIOUS
      <3> HIDE DEF Bad
      <3> QED
        BY <3>1, LeastNumber
    <2>2. \A e \in 0..n : f[e] = Step(f, e)
      BY <1>3
    <2>3. m # 0
      BY <2>1, <2>2
    <2>4. m - 1 \in 0..n /\ m - 1 \notin Bad
      BY <2>1, <2>3
    <2>5. f[m - 1] \in Nat /\ f[m - 1] >= m
      BY <2>1, <2>4
    <2>6. f[m] = 2 * f[m - 1]
      BY <2>1, <2>2, <2>3
    <2> QED
      BY <2>1, <2>3, <2>5, <2>6
  <1> DEFINE E == {e \in 0..n : f[e] >= n}
  <1>5. n \in E
    BY <1>4
  <1>6. Min(E) \in E
    <2>1. E \in SUBSET Nat /\ E # {}
      BY <1>5
    <2> HIDE DEF E
    <2> QED
      BY <2>1, MinIs
  <1> QED
    BY <1>3, <1>4, <1>6

\* grow's table has twice the room it needs.
LEMMA GrownIs ==
  ASSUME size \in Nat
  PROVE  GrownCapacity \in Nat \ {0} /\ GrownCapacity > 2 * (size + 1)
  <1> DEFINE need == (size + 1) * 2 + 1
             n == IF need < MinCapacity THEN MinCapacity ELSE need
  <1>1. n \in Nat /\ n > 2 * (size + 1)
    BY BagAssumption
  <1>2. GrownCapacity = NextPow2(n)
    BY DEF GrownCapacity
  <1> HIDE DEF n
  <1>3. NextPow2(n) \in Nat /\ NextPow2(n) >= n
    BY <1>1, PowerIs
  <1> QED
    BY <1>1, <1>2, <1>3

\* grow moves every live key, and nothing else, into a table where it can be found.
LEMMA RehashedIs ==
  ASSUME NEW c \in Nat, CapacityOf(keys) = c, \A i \in Span(c) : keys[i] \in Marks,
         size \in Nat, NEW S, IsFiniteSet(S), Cardinality(S) <= size,
         \A i \in Span(c) : keys[i] \in Keys => keys[i] \in S
  PROVE  LET t == Rehashed
             g == GrownCapacity
         IN /\ t \in Tables(g) /\ Findable(t, g)
            /\ \A i \in Span(g) : t[i] # Tombstone
            /\ \A k \in Keys : (\E i \in Span(g) : t[i] = k) <=> \E i \in Span(c) : keys[i] = k
  <1> DEFINE g == GrownCapacity
             blank == [i \in 0..GrownCapacity - 1 |-> Empty]
             Put(table, key) == IF key \in Keys THEN [table EXCEPT ![ProbeInsert(table, key)] = key] ELSE table
             Step(f, n) == IF n = 0 THEN blank ELSE Put(f[n - 1], keys[n - 1])
             Runs(f, m) == f = [n \in 0..m |-> Step(f, n)]
             Built == {m \in 0..c : \E f : Runs(f, m)}
             Fits(t, n) == /\ t \in Tables(g) /\ Findable(t, g)
                           /\ \A i \in Span(g) : t[i] # Tombstone
                           /\ \A k \in Keys : (\E i \in Span(g) : t[i] = k) <=> \E i \in 0..(n - 1) : keys[i] = k
  <1>0. g \in Nat \ {0} /\ g > 2 * (size + 1)
    BY GrownIs
  <1>1. c \in Built
    <2> HIDE DEF Put, blank
    <2> DEFINE Bad == (0..c) \ Built
    <2> SUFFICES ASSUME c \notin Built PROVE FALSE
      OBVIOUS
    <2>1. Bad \in SUBSET Nat /\ Bad # {}
      <3> HIDE DEF Built
      <3> QED
        OBVIOUS
    <2>2. PICK m \in Bad : \A k \in Bad : m <= k
      <3> HIDE DEF Bad
      <3> QED
        BY <2>1, LeastNumber
    <2>3. 0 \in Built
      <3> DEFINE f == [e \in 0..0 |-> blank]
      <3>1. f = [e \in 0..0 |-> Step(f, e)]
        OBVIOUS
      <3> HIDE DEF f, Step
      <3>2. Runs(f, 0)
        BY <3>1
      <3> HIDE DEF Runs
      <3> QED
        BY <3>2
    <2>4. m \in 0..c /\ m # 0 /\ m - 1 \in 0..c
      <3> HIDE DEF Built
      <3> QED
        BY <2>2, <2>3
    <2>5. m - 1 \in Built
      <3> HIDE DEF Built
      <3>1. m - 1 \notin Bad
        BY <2>2, <2>4
      <3> QED
        BY <2>4, <3>1
    <2>6. PICK f : f = [e \in 0..(m - 1) |-> Step(f, e)]
      BY <2>5
    <2> DEFINE h == [e \in 0..m |-> IF e = m THEN Put(f[m - 1], keys[m - 1]) ELSE f[e]]
    <2>7. ASSUME NEW e \in 0..m PROVE h[e] = Step(h, e)
      <3>1. CASE e = m
        <4>1. m - 1 \in 0..m /\ m - 1 # m
          BY <2>4
        <4>2. h[m - 1] = f[m - 1] /\ h[m] = Put(f[m - 1], keys[m - 1])
          BY <2>4, <4>1
        <4> QED
          BY <2>4, <3>1, <4>2
      <3>2. CASE e # m
        <4>1. e \in 0..(m - 1) /\ (e # 0 => e - 1 \in 0..m /\ e - 1 # m)
          BY <2>4, <3>2
        <4>2. f[e] = Step(f, e)
          BY <2>6, <4>1
        <4>3. h[e] = f[e] /\ (e # 0 => h[e - 1] = f[e - 1])
          BY <3>2, <4>1
        <4> HIDE DEF h
        <4> QED
          BY <4>2, <4>3
      <3> QED
        BY <3>1, <3>2
    <2>8. h = [e \in 0..m |-> h[e]]
      OBVIOUS
    <2> HIDE DEF h
    <2>9. h = [e \in 0..m |-> Step(h, e)]
      BY <2>7, <2>8
    <2>10. m \in Built
      BY <2>4, <2>9
    <2> QED
      BY <2>2, <2>10
  <1>2. \E f : f = [n \in 0..c |-> Step(f, n)]
    BY <1>1
  <1>3. PICK f : f = [n \in 0..c |-> Step(f, n)] /\ Rehashed = f[c]
    BY <1>2 DEF Rehashed
  <1>4. \A n \in 0..c : f[n] = Step(f, n)
    BY <1>3
  <1>5. Fits(blank, 0)
    <2>1. blank \in Tables(g) /\ \A i \in Span(g) : blank[i] = Empty
      BY DEF Tables, Span, Marks
    <2> HIDE DEF blank
    <2> QED
      BY <2>1, BagAssumption DEF Findable
  <1>6. ASSUME NEW n \in 1..c, NEW t, Fits(t, n - 1) PROVE Fits(Put(t, keys[n - 1]), n)
    <2> DEFINE key == keys[n - 1]
    <2>1. n - 1 \in Span(c) /\ \A i : i \in 0..(n - 1) <=> i \in 0..(n - 2) \/ i = n - 1
      BY DEF Span
    <2>2. n - 1 - 1 = n - 2
      OBVIOUS
    <2>3. t \in Tables(g) /\ Findable(t, g) /\ \A i \in Span(g) : t[i] # Tombstone
      BY <1>6
    <2>4. \A k \in Keys : (\E i \in Span(g) : t[i] = k) <=> \E i \in 0..(n - 2) : keys[i] = k
      BY <1>6, <2>2
    <2>5. CASE key \notin Keys
      BY <2>1, <2>3, <2>4, <2>5
    <2>6. CASE key \in Keys
      <3> DEFINE u == [t EXCEPT ![ProbeInsert(t, key)] = key]
      <3>1. \A i \in Span(g) : t[i] \in Keys => t[i] \in S
        <4> SUFFICES ASSUME NEW i \in Span(g), t[i] \in Keys PROVE t[i] \in S
          OBVIOUS
        <4>1. PICK j \in 0..(n - 2) : keys[j] = t[i]
          BY <2>4
        <4>2. j \in Span(c)
          BY <4>1 DEF Span
        <4> QED
          BY <4>1, <4>2
      <3>2. Tombs(t, g) = {}
        BY <2>3 DEF Tombs
      <3>3. Cardinality(S) + Cardinality(Tombs(t, g)) < g
        <4>1. Cardinality(Tombs(t, g)) = 0 /\ Cardinality(S) \in Nat
          BY <3>2, FS_EmptySet, FS_CardinalityType
        <4> QED
          BY <1>0, <4>1
      <3>4. \E i \in Span(g) : t[i] = Empty
        BY <1>0, <2>3, <3>1, <3>3, EmptyLeft
      <3>5. u \in Tables(g) /\ Findable(u, g)
        BY <1>0, <2>3, <2>6, <3>4, InsertFindable
      <3>6. ProbeInsert(t, key) \in Span(g) /\ t[ProbeInsert(t, key)] \in {key, Empty, Tombstone}
        BY <1>0, <2>3, <2>6, <3>4, InsertPlace
      <3> DEFINE slot == ProbeInsert(t, key)
      <3>7. /\ slot \in Span(g) /\ u[slot] = key /\ \A i \in Span(g) : i # slot => u[i] = t[i]
            /\ t[slot] \in {key, Empty}
        BY <2>3, <3>6 DEF Tables
      <3>8. Put(t, key) = u
        BY <2>6
      <3> HIDE DEF u, slot, Put, key
      <3>9. key # Tombstone /\ Empty \notin Keys
        BY <2>6, BagAssumption
      <3>10. \A i \in Span(g) : u[i] # Tombstone
        BY <2>3, <3>7, <3>9
      <3>11. \A k \in Keys : (\E i \in Span(g) : u[i] = k) <=> (k = key \/ \E i \in Span(g) : t[i] = k)
        BY <3>7, <3>9
      <3>12. \A k \in Keys : (\E i \in Span(g) : u[i] = k) <=> \E i \in 0..(n - 1) : keys[i] = k
        BY <2>1, <2>4, <3>11 DEF key
      <3>13. Fits(u, n)
        BY <3>5, <3>10, <3>12
      <3> HIDE DEF Fits
      <3> QED
        BY <3>8, <3>13 DEF key
    <2> QED
      BY <2>5, <2>6
  <1> HIDE DEF Fits, Put, blank
  <1>7. ASSUME NEW k \in 0..c PROVE Fits(f[k], k)
    <2> DEFINE Bad == {n \in 0..c : ~Fits(f[n], n)}
    <2> SUFFICES ASSUME Bad # {} PROVE FALSE
      OBVIOUS
    <2>1. PICK n \in Bad : \A e \in Bad : n <= e
      <3>1. Bad \in SUBSET Nat
        OBVIOUS
      <3> HIDE DEF Bad
      <3> QED
        BY <3>1, LeastNumber
    <2>2. n # 0
      BY <1>4, <1>5, <2>1
    <2>3. n - 1 \in 0..c /\ n - 1 \notin Bad /\ n \in 1..c
      BY <2>1, <2>2
    <2>4. Fits(f[n - 1], n - 1)
      BY <2>3
    <2>5. f[n] = Put(f[n - 1], keys[n - 1])
      BY <1>4, <2>2, <2>3
    <2>6. Fits(f[n], n)
      BY <1>6, <2>3, <2>4, <2>5
    <2> QED
      BY <2>1, <2>6
  <1>8. Fits(Rehashed, c)
    BY <1>3, <1>7
  <1> QED
    BY <1>8 DEF Fits, Span

-----------------------------------------------------------------------------
(* The root bag: its invariant *)

Rooted == {k \in Keys : held[k] > 0}

\* A table of c slots that holds the roots.
Filled(c) ==
    /\ keys \in Tables(c) /\ vals \in [Span(c) -> Nat] /\ Findable(keys, c)
    /\ \A i \in Span(c) : keys[i] \in Keys => held[keys[i]] > 0 /\ vals[i] = held[keys[i]]
    /\ \A k \in Rooted : \E i \in Span(c) : keys[i] = k
    /\ tombstones = Cardinality(Tombs(keys, c)) /\ size + tombstones < c

Unfilled == keys = << >> /\ vals = << >> /\ Rooted = {} /\ tombstones = 0

BagTyped ==
    /\ held \in [Keys -> Nat] /\ size \in Nat /\ tombstones \in Nat
    /\ IsFiniteSet(Rooted) /\ size = Cardinality(Rooted)

BagInv == BagTyped /\ (Unfilled \/ \E c \in Nat \ {0} : Filled(c))

\* A table that is not there has no slot.
LEMMA NoTable ==
  DOMAIN << >> = {} /\ CapacityOf(<< >>) = 0
  BY FS_EmptySet DEF CapacityOf

\* An empty bag.
LEMMA BagEmptyInv ==
  ASSUME keys = << >>, vals = << >>, size = 0, tombstones = 0, held = [k \in Keys |-> 0]
  PROVE  BagInv
  <1>1. Rooted = {}
    BY DEF Rooted
  <1> QED
    BY <1>1, FS_EmptySet DEF BagInv, BagTyped, Unfilled

\* The tombstones of a table.
LEMMA TombsFinite ==
  ASSUME NEW c \in Nat, NEW t
  PROVE  IsFiniteSet(Tombs(t, c)) /\ Cardinality(Tombs(t, c)) \in Nat
  <1>1. Tombs(t, c) \in SUBSET Span(c)
    BY DEF Tombs
  <1> QED
    BY <1>1, SpanIs, FS_Subset, FS_CardinalityType

\* add into a table with room keeps the bag's books.
LEMMA InsertInv ==
  ASSUME BagTyped, NEW key \in Keys,
         NEW c \in Nat \ {0}, NEW t \in Tables(c), NEW v \in [Span(c) -> Nat], Findable(t, c),
         \A i \in Span(c) : t[i] \in Keys => held[t[i]] > 0 /\ v[i] = held[t[i]],
         \A k \in Rooted : \E i \in Span(c) : t[i] = k,
         NEW d, d = Cardinality(Tombs(t, c)), size + 1 + d < c,
         Insert(t, v, d, key), held' = [held EXCEPT ![key] = @ + 1]
  PROVE  BagInv'
  <1> DEFINE slot == ProbeInsert(t, key)
  <1>1. d \in Nat /\ IsFiniteSet(Tombs(t, c))
    BY TombsFinite
  <1>2. held \in [Keys -> Nat] /\ size \in Nat /\ IsFiniteSet(Rooted) /\ size = Cardinality(Rooted)
    BY DEF BagTyped
  <1>3. \E i \in Span(c) : t[i] = Empty
    <2>1. \A i \in Span(c) : t[i] \in Keys => t[i] \in Rooted
      BY DEF Rooted
    <2>2. Cardinality(Rooted) + Cardinality(Tombs(t, c)) < c
      BY <1>1, <1>2
    <2> QED
      BY <1>2, <2>1, <2>2, EmptyLeft
  <1>4. /\ slot \in Span(c) /\ t[slot] \in {key, Empty, Tombstone}
        /\ t[slot] = key <=> \E i \in Span(c) : t[i] = key
        /\ Reclaims(t, key) <=> t[slot] = Tombstone
    BY <1>3, InsertPlace
  <1>5. /\ keys' = [t EXCEPT ![slot] = key]
        /\ vals' = [v EXCEPT ![slot] = IF t[slot] = key THEN @ + 1 ELSE 1]
        /\ size' = IF t[slot] = key THEN size ELSE size + 1
        /\ tombstones' = IF Reclaims(t, key) THEN d - 1 ELSE d
    BY DEF Insert
  <1>6. keys' \in Tables(c) /\ Findable(keys', c)
    BY <1>3, <1>5, InsertFindable
  <1> HIDE DEF slot
  <1>7. keys'[slot] = key /\ \A i \in Span(c) : i # slot => keys'[i] = t[i]
    BY <1>4, <1>5 DEF Tables
  <1>8. /\ vals' \in [Span(c) -> Nat] /\ \A i \in Span(c) : i # slot => vals'[i] = v[i]
        /\ vals'[slot] = IF t[slot] = key THEN v[slot] + 1 ELSE 1
    BY <1>4, <1>5
  <1>9. /\ held' \in [Keys -> Nat] /\ held'[key] = held[key] + 1
        /\ \A k \in Keys : k # key => held'[k] = held[k]
    BY <1>2
  <1>10. t[slot] = key <=> key \in Rooted
    BY <1>4 DEF Rooted
  <1>11. Rooted' = Rooted \cup {key}
    BY <1>2, <1>9 DEF Rooted
  <1>12. IsFiniteSet(Rooted') /\ Cardinality(Rooted') = size' /\ size' \in Nat
    <2>1. /\ IsFiniteSet(Rooted \cup {key})
          /\ Cardinality(Rooted \cup {key}) = IF key \in Rooted THEN Cardinality(Rooted) ELSE Cardinality(Rooted) + 1
      BY <1>2, FS_AddElement
    <2> QED
      BY <1>2, <1>5, <1>10, <1>11, <2>1
  <1>13. key # Tombstone /\ key # Empty /\ Empty # Tombstone
    BY BagAssumption
  <1>14. tombstones' = Cardinality(Tombs(keys', c)) /\ tombstones' \in Nat /\ size' + tombstones' < c
    <2>1. CASE t[slot] = Tombstone
      <3>1. Tombs(keys', c) = Tombs(t, c) \ {slot} /\ slot \in Tombs(t, c)
        BY <1>4, <1>7, <1>13, <2>1 DEF Tombs
      <3>2. Cardinality(Tombs(keys', c)) = Cardinality(Tombs(t, c)) - 1
        BY ZenonT(30), <1>1, <3>1, FS_RemoveElement
      <3>3. Cardinality(Tombs(keys', c)) \in Nat
        BY TombsFinite
      <3> QED
        BY <1>1, <1>2, <1>4, <1>5, <1>13, <2>1, <3>2, <3>3
    <2>2. CASE t[slot] # Tombstone
      <3>1. Tombs(keys', c) = Tombs(t, c)
        BY <1>4, <1>7, <1>13, <2>2 DEF Tombs
      <3> QED
        BY <1>1, <1>2, <1>4, <1>5, <2>2, <3>1
    <2> QED
      BY <2>1, <2>2
  <1>15. \A i \in Span(c) : keys'[i] \in Keys => held'[keys'[i]] > 0 /\ vals'[i] = held'[keys'[i]]
    <2> SUFFICES ASSUME NEW i \in Span(c), keys'[i] \in Keys
                 PROVE  held'[keys'[i]] > 0 /\ vals'[i] = held'[keys'[i]]
      OBVIOUS
    <2>1. CASE i = slot /\ t[slot] = key
      <3>1. held[key] > 0 /\ v[slot] = held[key]
        BY <1>4, <2>1
      <3> QED
        BY <1>2, <1>7, <1>8, <1>9, <2>1, <3>1
    <2>2. CASE i = slot /\ t[slot] # key
      <3>1. held[key] = 0
        BY <1>2, <1>10, <2>2 DEF Rooted
      <3> QED
        BY <1>7, <1>8, <1>9, <2>2, <3>1
    <2>3. CASE i # slot
      <3>1. keys'[i] = t[i] /\ vals'[i] = v[i]
        BY <1>7, <1>8, <2>3
      <3>2. t[i] # key
        <4> SUFFICES ASSUME t[i] = key PROVE FALSE
          OBVIOUS
        <4>1. t[slot] = key
          BY <1>4
        <4> QED
          BY <1>4, <2>3, <4>1 DEF Findable
      <3> QED
        BY <1>9, <3>1, <3>2
    <2> QED
      BY <2>1, <2>2, <2>3
  <1>16. \A k \in Rooted' : \E i \in Span(c) : keys'[i] = k
    <2> SUFFICES ASSUME NEW k \in Rooted' PROVE \E i \in Span(c) : keys'[i] = k
      OBVIOUS
    <2>1. CASE k = key
      BY <1>4, <1>7, <2>1
    <2>2. CASE k # key
      <3>1. PICK i \in Span(c) : t[i] = k
        BY <1>11, <2>2
      <3>2. i # slot
        BY <1>4, <1>13, <2>2, <3>1, <1>11, BagAssumption DEF Rooted
      <3> QED
        BY <1>7, <3>1, <3>2
    <2> QED
      BY <2>1, <2>2
  <1>17. Filled(c)'
    BY <1>6, <1>8, <1>14, <1>15, <1>16 DEF Filled
  <1> QED
    BY <1>9, <1>12, <1>14, <1>17 DEF BagInv, BagTyped

\* Whether or not it grows first, add has room.
LEMMA AddInv ==
  ASSUME BagInv, NEW key \in Keys, Add(key)
  PROVE  BagInv'
  <1>1. BagTyped /\ held' = [held EXCEPT ![key] = @ + 1] /\ size \in Nat
    BY DEF BagInv, BagTyped, Add
  <1>2. PICK c \in Nat : /\ CapacityOf(keys) = c /\ \A i \in Span(c) : keys[i] \in Marks
                         /\ \A i \in Span(c) : keys[i] \in Keys => keys[i] \in Rooted
                         /\ \A k \in Rooted : \E i \in Span(c) : keys[i] = k
                         /\ c # 0 => Filled(c)
                         /\ \A i, j \in Span(c) : keys[i] \in Keys /\ keys[i] = keys[j] => i = j
                         /\ \A i \in Span(c) : keys[i] \in Keys => vals[i] = held[keys[i]]
                         /\ DOMAIN keys = Span(c)
    <2>1. CASE Unfilled
      <3>1. CapacityOf(keys) = 0 /\ Span(0) = {} /\ Rooted = {} /\ DOMAIN keys = {}
        BY <2>1, NoTable DEF Unfilled, Span
      <3> QED
        BY <3>1
    <2>2. CASE ~Unfilled
      <3>1. PICK c \in Nat \ {0} : Filled(c)
        BY <2>2 DEF BagInv
      <3>2. CapacityOf(keys) = c /\ DOMAIN keys = Span(c)
        BY <3>1, CapacityIs DEF Filled, Tables
      <3>3. \A i \in Span(c) : keys[i] \in Keys => keys[i] \in Rooted /\ vals[i] = held[keys[i]]
        BY <3>1 DEF Filled, Rooted
      <3>4. \A i \in Span(c) : keys[i] \in Marks
        BY <3>1 DEF Filled, Tables
      <3>5. \A i, j \in Span(c) : keys[i] \in Keys /\ keys[i] = keys[j] => i = j
        BY <3>1 DEF Filled, Findable
      <3>6. \A k \in Rooted : \E i \in Span(c) : keys[i] = k
        BY <3>1 DEF Filled
      <3> QED
        BY <3>1, <3>2, <3>3, <3>4, <3>5, <3>6
    <2> QED
      BY <2>1, <2>2
  <1>3. CASE NeedsGrow(CapacityOf(keys))
    <2> DEFINE g == GrownCapacity
               t == Rehashed
               v == CountsFor(t)
    <2>1. g \in Nat \ {0} /\ g > 2 * (size + 1)
      BY <1>1, GrownIs
    <2>2. IsFiniteSet(Rooted) /\ Cardinality(Rooted) <= size
      BY <1>1 DEF BagTyped
    <2>3. /\ t \in Tables(g) /\ Findable(t, g) /\ \A i \in Span(g) : t[i] # Tombstone
          /\ \A k \in Keys : (\E i \in Span(g) : t[i] = k) <=> \E i \in Span(c) : keys[i] = k
      BY <1>1, <1>2, <2>2, RehashedIs
    <2>4. Insert(t, v, 0, key)
      BY <1>3 DEF Add
    <2> HIDE DEF g, t
    <2>5. Tombs(t, g) = {} /\ 0 = Cardinality(Tombs(t, g))
      BY <2>3, FS_EmptySet DEF Tombs
    <2>6. v = [i \in Span(g) |-> IF t[i] \in Keys THEN CountOf(t[i]) ELSE 0]
      BY <2>3 DEF CountsFor, Tables
    <2> HIDE DEF v
    <2>7. ASSUME NEW i \in Span(g), t[i] \in Keys
          PROVE  held[t[i]] > 0 /\ v[i] = held[t[i]]
      <3>1. PICK j \in Span(c) : keys[j] = t[i]
        BY <2>3, <2>7
      <3>2. \A n \in DOMAIN keys : keys[n] = t[i] => n = j
        BY <1>2, <2>7, <3>1
      <3>3. CountOf(t[i]) = vals[j]
        BY <1>2, <3>1, <3>2 DEF CountOf
      <3>4. vals[j] = held[t[i]] /\ t[i] \in Rooted
        BY <1>2, <2>7, <3>1
      <3> QED
        BY <2>6, <2>7, <3>3, <3>4 DEF Rooted
    <2>8. v \in [Span(g) -> Nat]
      <3>1. \A i \in Span(g) : v[i] \in Nat
        BY <1>1, <2>6, <2>7 DEF BagTyped
      <3> QED
        BY <2>6, <3>1
    <2>9. \A k \in Rooted : \E i \in Span(g) : t[i] = k
      BY <1>2, <2>3 DEF Rooted
    <2>10. size + 1 + 0 < g
      BY <1>1, <2>1
    <2> QED
      BY <1>1, <2>1, <2>3, <2>4, <2>5, <2>7, <2>8, <2>9, <2>10, InsertInv
  <1>4. CASE ~NeedsGrow(CapacityOf(keys))
    <2>1. c # 0 /\ ~((size + 1) * 2 >= c) /\ ~(tombstones * 2 >= c)
      BY <1>2, <1>4 DEF NeedsGrow
    <2>2. Filled(c) /\ tombstones \in Nat
      BY <1>1, <1>2, <2>1 DEF BagTyped
    <2>3. size + 1 + tombstones < c
      BY <1>1, <2>1, <2>2
    <2>4. Insert(keys, vals, tombstones, key)
      BY <1>4 DEF Add
    <2>5. /\ keys \in Tables(c) /\ vals \in [Span(c) -> Nat] /\ Findable(keys, c)
          /\ \A i \in Span(c) : keys[i] \in Keys => held[keys[i]] > 0 /\ vals[i] = held[keys[i]]
          /\ \A k \in Rooted : \E i \in Span(c) : keys[i] = k
          /\ tombstones = Cardinality(Tombs(keys, c))
      BY <2>2 DEF Filled
    <2>6. c \in Nat \ {0}
      BY <2>1
    <2> QED
      BY <1>1, <2>3, <2>4, <2>5, <2>6, InsertInv
  <1> QED
    BY <1>3, <1>4

\* removeOne drops one root of a key that is there.
LEMMA RemoveInv ==
  ASSUME BagInv, NEW key \in Keys, RemoveOne(key)
  PROVE  BagInv'
  <1> DEFINE slot == ProbeEnd(keys, key)
             last == vals[slot] = 1
  <1>1. /\ CapacityOf(keys) > 0 /\ keys[slot] = key
        /\ vals' = [vals EXCEPT ![slot] = @ - 1]
        /\ keys' = IF last THEN [keys EXCEPT ![slot] = Tombstone] ELSE keys
        /\ tombstones' = IF last THEN tombstones + 1 ELSE tombstones
        /\ size' = IF last THEN size - 1 ELSE size
        /\ held' = [held EXCEPT ![key] = IF @ > 0 THEN @ - 1 ELSE 0]
    BY DEF RemoveOne
  <1>2. /\ held \in [Keys -> Nat] /\ size \in Nat /\ tombstones \in Nat
        /\ IsFiniteSet(Rooted) /\ size = Cardinality(Rooted)
    BY DEF BagInv, BagTyped
  <1>3. PICK c \in Nat \ {0} : Filled(c)
    <2>1. ~Unfilled
      BY <1>1, NoTable DEF Unfilled
    <2> QED
      BY <2>1 DEF BagInv
  <1>4. /\ keys \in Tables(c) /\ vals \in [Span(c) -> Nat] /\ Findable(keys, c)
        /\ \A i \in Span(c) : keys[i] \in Keys => held[keys[i]] > 0 /\ vals[i] = held[keys[i]]
        /\ \A k \in Rooted : \E i \in Span(c) : keys[i] = k
        /\ tombstones = Cardinality(Tombs(keys, c)) /\ size + tombstones < c
    BY <1>3 DEF Filled
  <1>5. \E i \in Span(c) : keys[i] = Empty
    <2>1. \A i \in Span(c) : keys[i] \in Keys => keys[i] \in Rooted
      BY <1>4 DEF Rooted
    <2>2. Cardinality(Rooted) + Cardinality(Tombs(keys, c)) < c
      BY <1>2, <1>4
    <2> QED
      BY <1>2, <1>4, <2>1, <2>2, EmptyLeft
  <1>6. slot \in Span(c)
    <2>1. ProbeLength(keys, key) \in Span(c)
      BY <1>4, <1>5, ProbeStops
    <2>2. ProbeLength(keys, key) \in Nat
      BY <2>1 DEF Span
    <2> QED
      BY <1>4, <2>2, ProbesVisit DEF ProbeEnd
  <1> HIDE DEF slot
  <1>7. held[key] > 0 /\ vals[slot] = held[key] /\ key \in Rooted
    BY <1>1, <1>4, <1>6 DEF Rooted
  <1>8. /\ held' \in [Keys -> Nat] /\ held'[key] = held[key] - 1
        /\ \A k \in Keys : k # key => held'[k] = held[k]
    BY <1>1, <1>2, <1>7
  <1>9. /\ vals' \in [Span(c) -> Nat] /\ vals'[slot] = held'[key]
        /\ \A i \in Span(c) : i # slot => vals'[i] = vals[i]
    <2>1. held[key] \in Nat
      BY <1>2
    <2> QED
      BY <1>1, <1>4, <1>6, <1>7, <1>8, <2>1
  <1>10. \A i \in Span(c) : i # slot => keys[i] # key
    BY <1>1, <1>4, <1>6 DEF Findable
  <1>11. key # Tombstone /\ key # Empty /\ Empty # Tombstone /\ Tombstone \notin Keys
    BY BagAssumption
  <1>12. CASE last
    <2>1. keys' \in Tables(c) /\ keys'[slot] = Tombstone /\ \A i \in Span(c) : i # slot => keys'[i] = keys[i]
      BY <1>1, <1>4, <1>6, <1>12 DEF Tables, Marks
    <2>2. Findable(keys', c)
      <3>1. \A i \in Span(c) : keys[i] # Empty => keys'[i] # Empty
        BY <1>11, <2>1
      <3>2. \A i \in Span(c) : keys'[i] \in Keys => keys'[i] = keys[i]
        BY <1>11, <2>1
      <3> QED
        BY <1>4, <2>1, <3>1, <3>2, FindableOver
    <2>3. Rooted' = Rooted \ {key}
      BY <1>2, <1>7, <1>8, <1>12 DEF Rooted
    <2>4. IsFiniteSet(Rooted') /\ Cardinality(Rooted') = size' /\ size' = size - 1 /\ size' \in Nat
      <3>1. IsFiniteSet(Rooted \ {key}) /\ Cardinality(Rooted \ {key}) = Cardinality(Rooted) - 1
        BY <1>2, <1>7, FS_RemoveElement
      <3>2. Cardinality(Rooted \ {key}) \in Nat
        BY <3>1, FS_CardinalityType
      <3> QED
        BY <1>1, <1>2, <1>12, <2>3, <3>1, <3>2
    <2>5. tombstones' = Cardinality(Tombs(keys', c)) /\ tombstones' = tombstones + 1
      <3>1. Tombs(keys', c) = Tombs(keys, c) \cup {slot} /\ slot \notin Tombs(keys, c)
        BY <1>1, <1>6, <1>11, <2>1 DEF Tombs
      <3>2. Cardinality(Tombs(keys, c) \cup {slot}) = Cardinality(Tombs(keys, c)) + 1
        BY <3>1, TombsFinite, FS_AddElement
      <3> QED
        BY <1>1, <1>4, <1>12, <3>1, <3>2
    <2>6. \A i \in Span(c) : keys'[i] \in Keys => held'[keys'[i]] > 0 /\ vals'[i] = held'[keys'[i]]
      <3> SUFFICES ASSUME NEW i \in Span(c), keys'[i] \in Keys
                   PROVE  held'[keys'[i]] > 0 /\ vals'[i] = held'[keys'[i]]
        OBVIOUS
      <3>1. i # slot
        BY <1>11, <2>1
      <3> QED
        BY <1>4, <1>8, <1>9, <1>10, <2>1, <3>1
    <2>7. \A k \in Rooted' : \E i \in Span(c) : keys'[i] = k
      <3> SUFFICES ASSUME NEW k \in Rooted' PROVE \E i \in Span(c) : keys'[i] = k
        OBVIOUS
      <3>1. k \in Rooted /\ k # key
        BY <2>3
      <3>2. PICK i \in Span(c) : keys[i] = k
        BY <1>4, <3>1
      <3> QED
        BY <1>1, <2>1, <3>1, <3>2
    <2>8. Filled(c)'
      BY <1>2, <1>4, <1>9, <2>1, <2>2, <2>4, <2>5, <2>6, <2>7 DEF Filled
    <2> QED
      BY <1>2, <1>8, <2>4, <2>5, <2>8 DEF BagInv, BagTyped
  <1>13. CASE ~last
    <2>1. keys' = keys /\ tombstones' = tombstones /\ size' = size
      BY <1>1, <1>13
    <2>2. held'[key] > 0
      <3>1. held[key] \in Nat /\ held[key] # 1
        BY <1>2, <1>7, <1>13
      <3> QED
        BY <1>7, <1>8, <3>1
    <2>3. Rooted' = Rooted
      BY <1>7, <1>8, <2>2 DEF Rooted
    <2>4. \A i \in Span(c) : keys[i] \in Keys => held'[keys[i]] > 0 /\ vals'[i] = held'[keys[i]]
      <3> SUFFICES ASSUME NEW i \in Span(c), keys[i] \in Keys
                   PROVE  held'[keys[i]] > 0 /\ vals'[i] = held'[keys[i]]
        OBVIOUS
      <3>1. CASE i = slot
        BY <1>1, <1>9, <2>2, <3>1
      <3>2. CASE i # slot
        BY <1>4, <1>8, <1>9, <1>10, <3>2
      <3> QED
        BY <3>1, <3>2
    <2>5. Filled(c)'
      BY <1>4, <1>9, <2>1, <2>3, <2>4 DEF Filled
    <2> QED
      BY <1>2, <1>8, <2>1, <2>3, <2>5 DEF BagInv, BagTyped
  <1> QED
    BY <1>12, <1>13

\* The books of the bag say what the property says.
LEMMA BagInvSound ==
  BagInv => BagIsSound
  <1> SUFFICES ASSUME BagInv PROVE ProbesEnd /\ BagIsExact
    BY DEF BagIsSound
  <1>1. /\ held \in [Keys -> Nat] /\ IsFiniteSet(Rooted) /\ size = Cardinality(Rooted)
    BY DEF BagInv, BagTyped
  <1>2. size = Cardinality({k \in Keys : held[k] > 0})
    BY <1>1 DEF Rooted
  <1>3. CASE Unfilled
    <2>1. DOMAIN keys = {} /\ Rooted = {} /\ tombstones = 0 /\ keys = << >>
      BY <1>3, NoTable DEF Unfilled
    <2>2. \A k \in Keys : held[k] = 0
      BY <1>1, <2>1 DEF Rooted
    <2>3. {i \in DOMAIN keys : keys[i] = Tombstone} = {}
      BY <2>1
    <2> QED
      BY <1>2, <2>1, <2>2, <2>3, FS_EmptySet DEF ProbesEnd, BagIsExact
  <1>4. CASE ~Unfilled
    <2>1. PICK c \in Nat \ {0} : Filled(c)
      BY <1>4 DEF BagInv
    <2>2. /\ keys \in Tables(c) /\ Findable(keys, c)
          /\ \A i \in Span(c) : keys[i] \in Keys => held[keys[i]] > 0 /\ vals[i] = held[keys[i]]
          /\ \A k \in Rooted : \E i \in Span(c) : keys[i] = k
          /\ tombstones = Cardinality(Tombs(keys, c)) /\ size + tombstones < c
      BY <2>1 DEF Filled
    <2>3. DOMAIN keys = Span(c)
      BY <2>2 DEF Tables
    <2>4. \E i \in Span(c) : keys[i] = Empty
      <3>1. \A i \in Span(c) : keys[i] \in Keys => keys[i] \in Rooted
        BY <2>2 DEF Rooted
      <3>2. Cardinality(Rooted) + Cardinality(Tombs(keys, c)) < c
        BY <1>1, <2>2
      <3> QED
        BY <1>1, <2>2, <3>1, <3>2, EmptyLeft
    <2>5. ProbesEnd
      BY <2>3, <2>4 DEF ProbesEnd
    <2>6. ASSUME NEW k \in Keys, held[k] = 0 PROVE \A i \in DOMAIN keys : keys[i] # k
      <3>1. ~(held[k] > 0)
        BY <2>6
      <3> QED
        BY <2>2, <2>3, <3>1
    <2>7. ASSUME NEW k \in Keys, held[k] # 0
          PROVE  /\ Cardinality({i \in DOMAIN keys : keys[i] = k}) = 1
                 /\ CountOf(k) = held[k] /\ keys[ProbeEnd(keys, k)] = k
      <3>1. k \in Rooted
        BY <1>1, <2>7 DEF Rooted
      <3>2. PICK i \in Span(c) : keys[i] = k
        BY <2>2, <3>1
      <3>3. \A j \in DOMAIN keys : keys[j] = k <=> j = i
        BY <2>2, <2>3, <3>2 DEF Findable
      <3>4. {j \in DOMAIN keys : keys[j] = k} = {i}
        BY <2>3, <3>3
      <3>5. Cardinality({i}) = 1
        BY FS_Singleton
      <3>6. CountOf(k) = vals[i]
        BY <2>3, <3>3 DEF CountOf
      <3>7. vals[i] = held[k]
        BY <2>2, <3>2
      <3>8. ProbeEnd(keys, k) = i
        BY <2>2, <2>4, <3>2, ProbeFinds
      <3> QED
        BY <3>2, <3>4, <3>5, <3>6, <3>7, <3>8
    <2>8. tombstones = Cardinality({i \in DOMAIN keys : keys[i] = Tombstone})
      BY <2>2, <2>3 DEF Tombs
    <2>9. BagIsExact
      BY <1>2, <2>6, <2>7, <2>8 DEF BagIsExact
    <2> QED
      BY <2>5, <2>9
  <1> QED
    BY <1>3, <1>4

\* However roots come and go (RootBag::add, removeOne, grow, reset), every probe ends, every
\* root is found with its exact count, and size and tombstones count the slots.
THEOREM BagCountsExactly ==
  BagSpec => []BagIsSound
  <1>1. BagInit => BagInv
    <2> SUFFICES ASSUME BagInit PROVE BagInv
      OBVIOUS
    <2> QED
      BY BagEmptyInv DEF BagInit
  <1>2. BagInv /\ [BagNext]_bagVars => BagInv'
    <2> SUFFICES ASSUME BagInv, [BagNext]_bagVars PROVE BagInv'
      OBVIOUS
    <2>1. CASE Reset
      <3>1. keys' = << >> /\ vals' = << >> /\ size' = 0 /\ tombstones' = 0 /\ held' = [k \in Keys |-> 0]
        BY <2>1 DEF Reset
      <3>2. Rooted' = {}
        BY <3>1 DEF Rooted
      <3> QED
        BY <3>1, <3>2, FS_EmptySet DEF BagInv, BagTyped, Unfilled
    <2>2. ASSUME NEW key \in Keys, Add(key) PROVE BagInv'
      BY <2>2, AddInv
    <2>3. ASSUME NEW key \in Keys, RemoveOne(key) PROVE BagInv'
      BY <2>3, RemoveInv
    <2>4. CASE UNCHANGED bagVars
      BY <2>4 DEF bagVars, BagInv, BagTyped, Unfilled, Filled, Rooted
    <2> QED
      BY <2>1, <2>2, <2>3, <2>4 DEF BagNext
  <1>3. BagInv => BagIsSound
    BY BagInvSound
  <1> QED
    BY <1>1, <1>2, <1>3, PTL DEF BagSpec

-----------------------------------------------------------------------------
(* The components: linked rows of slots *)

\* s is a row of n slots, linked in both directions.
Chained(n, s, nx, pv) ==
    /\ s \in [1..n -> Cslots] /\ \A i, j \in 1..n : s[i] = s[j] => i = j
    /\ \A k \in 1..n : nx[s[k]] = IF k = n THEN NoComp ELSE s[k + 1]
    /\ \A k \in 1..n : pv[s[k]] = IF k = 1 THEN NoComp ELSE s[k - 1]

\* A header keeps a row that visits exactly the slots in mem.
Listed(h, nx, pv, mem) ==
    \E n \in Nat \ {0} : \E s :
        /\ Chained(n, s, nx, pv) /\ h.head = s[1] /\ h.tail = s[n] /\ h.live = n
        /\ \A x : x \in mem <=> \E k \in 1..n : s[k] = x

\* A row is no longer than there are slots.
LEMMA RowFits ==
  ASSUME NEW n \in Nat, NEW s \in [1..n -> Cslots], \A i, j \in 1..n : s[i] = s[j] => i = j
  PROVE  Cardinality(Cslots) \in Nat /\ n <= Cardinality(Cslots)
  <1>1. IsFiniteSet(Cslots)
    BY ComponentsAssumption
  <1>2. s \in Injection(1..n, Cslots)
    BY DEF Injection, IsInjective
  <1>3. Cardinality(1..n) = n
    <2>1. 1 \in Int /\ n \in Int
      OBVIOUS
    <2>2. Cardinality(1..n) = IF 1 > n THEN 0 ELSE n - 1 + 1
      BY <2>1, FS_Interval
    <2> QED
      BY <2>2
  <1> QED
    BY <1>1, <1>2, <1>3, FS_Injection, FS_CardinalityType

\* Following a row's links from its head gives the row.
LEMMA RowIs ==
  ASSUME NEW c, NEW n \in Nat \ {0}, NEW s, Chained(n, s, next, prev), headers[c].head = s[1]
  PROVE  MembersOf(c) = s
  <1> DEFINE m == Cardinality(Cslots)
             Step(f, k) == IF k = 0 THEN headers[c].head
                           ELSE IF f[k - 1] = NoComp THEN NoComp ELSE next[f[k - 1]]
             g == [k \in 0..m |-> IF k < n THEN s[k + 1] ELSE NoComp]
  <1>1. /\ s \in [1..n -> Cslots] /\ \A i, j \in 1..n : s[i] = s[j] => i = j
        /\ \A k \in 1..n : next[s[k]] = IF k = n THEN NoComp ELSE s[k + 1]
    BY DEF Chained
  <1>2. m \in Nat /\ n <= m
    BY <1>1, RowFits
  <1>3. \A k \in 1..n : s[k] # NoComp
    BY <1>1, ComponentsAssumption
  <1> HIDE DEF m
  <1>4. ASSUME NEW k \in 0..m PROVE g[k] = Step(g, k)
    <2>1. CASE k = 0
      BY <1>2, <2>1
    <2>2. CASE k # 0 /\ k - 1 < n
      <3>1. k - 1 \in 0..m /\ k \in 1..n /\ k - 1 + 1 = k
        BY <1>2, <2>2
      <3>2. g[k - 1] = s[k] /\ s[k] # NoComp
        BY <1>3, <2>2, <3>1
      <3>3. g[k] = IF k = n THEN NoComp ELSE s[k + 1]
        BY <3>1
      <3> QED
        BY <1>1, <2>2, <3>1, <3>2, <3>3
    <2>3. CASE k # 0 /\ ~(k - 1 < n)
      <3>1. k - 1 \in 0..m /\ ~(k < n)
        BY <1>2, <2>3
      <3> QED
        BY <2>3, <3>1
    <2> QED
      BY <2>1, <2>2, <2>3
  <1>5. \E f : f = [k \in 0..m |-> Step(f, k)]
    <2>1. g = [k \in 0..m |-> g[k]]
      OBVIOUS
    <2> HIDE DEF g
    <2>2. g = [k \in 0..m |-> Step(g, k)]
      BY <1>4, <2>1
    <2> QED
      BY <2>2
  <1>6. PICK f : /\ f = [k \in 0..m |-> Step(f, k)]
                 /\ MembersOf(c) = [k \in 1..Cardinality({j \in 0..m : f[j] # NoComp}) |-> f[k - 1]]
    BY <1>5 DEF MembersOf, m
  <1>7. \A k \in 0..m : f[k] = g[k]
    <2> DEFINE Bad == {k \in Nat : k <= m /\ f[k] # g[k]}
    <2>1. \A k \in 0..m : f[k] = Step(f, k)
      BY <1>6
    <2> HIDE DEF g
    <2>2. CASE Bad = {}
      BY <1>2, <2>2
    <2>3. CASE Bad # {}
      <3>1. PICK k \in Bad : \A j \in Bad : k <= j
        BY <2>3, LeastNumber
      <3>2. k # 0
        BY <1>2, <1>4, <2>1, <3>1
      <3>3. k - 1 \in Nat /\ k - 1 \notin Bad /\ k - 1 <= m /\ k \in 0..m
        BY <1>2, <3>1, <3>2
      <3>4. f[k - 1] = g[k - 1]
        BY <3>3
      <3> QED
        BY <1>4, <2>1, <3>1, <3>3, <3>4
    <2> QED
      BY <2>2, <2>3
  <1>8. {j \in 0..m : f[j] # NoComp} = 0..(n - 1)
    <2>1. ASSUME NEW j \in 0..m PROVE f[j] # NoComp <=> j < n
      <3>1. j < n => j + 1 \in 1..n
        BY <1>2
      <3> QED
        BY <1>3, <1>7, <3>1
    <2> QED
      BY <1>2, <2>1
  <1>9. Cardinality(0..(n - 1)) = n
    <2>1. 0 \in Int /\ n - 1 \in Int
      OBVIOUS
    <2>2. Cardinality(0..(n - 1)) = IF 0 > n - 1 THEN 0 ELSE n - 1 - 0 + 1
      BY <2>1, FS_Interval
    <2> QED
      BY <2>2
  <1>10. MembersOf(c) = [k \in 1..n |-> f[k - 1]]
    BY <1>6, <1>8, <1>9
  <1>11. \A k \in 1..n : f[k - 1] = s[k]
    <2> SUFFICES ASSUME NEW k \in 1..n PROVE f[k - 1] = s[k]
      OBVIOUS
    <2>1. k - 1 \in 0..m /\ k - 1 < n /\ k - 1 + 1 = k
      BY <1>2
    <2> QED
      BY <1>7, <2>1
  <1>12. s = [k \in 1..n |-> s[k]]
    BY <1>1
  <1> QED
    BY <1>10, <1>11, <1>12

\* A row whose links are left alone.
LEMMA RowSame ==
  ASSUME NEW h, NEW nx, NEW pv, NEW mem, Listed(h, nx, pv, mem),
         NEW nx2, NEW pv2, \A x \in mem : nx2[x] = nx[x] /\ pv2[x] = pv[x]
  PROVE  Listed(h, nx2, pv2, mem)
  <1>1. PICK n \in Nat \ {0} : \E s :
              /\ Chained(n, s, nx, pv) /\ h.head = s[1] /\ h.tail = s[n] /\ h.live = n
              /\ \A x : x \in mem <=> \E k \in 1..n : s[k] = x
    BY DEF Listed
  <1>2. PICK s : /\ Chained(n, s, nx, pv) /\ h.head = s[1] /\ h.tail = s[n] /\ h.live = n
                 /\ \A x : x \in mem <=> \E k \in 1..n : s[k] = x
    BY <1>1
  <1>3. Chained(n, s, nx2, pv2)
    BY <1>2 DEF Chained
  <1> QED
    BY <1>2, <1>3 DEF Listed

\* A row of one slot.
LEMMA RowOne ==
  ASSUME NEW x \in Cslots, NEW nx, NEW pv, nx[x] = NoComp, pv[x] = NoComp,
         NEW h, h.head = x, h.tail = x, h.live = 1
  PROVE  Listed(h, nx, pv, {x})
  <1> DEFINE s == [k \in 1..1 |-> x]
  <1>1. Chained(1, s, nx, pv)
    BY DEF Chained
  <1>2. h.head = s[1] /\ h.tail = s[1] /\ h.live = 1 /\ \A y : y \in {x} <=> \E k \in 1..1 : s[k] = y
    OBVIOUS
  <1> HIDE DEF s
  <1>3. 1 \in Nat \ {0}
    OBVIOUS
  <1> QED
    BY <1>1, <1>2, <1>3 DEF Listed

\* Two rows, one behind the other.
LEMMA RowJoin ==
  ASSUME NEW ha, NEW hb, NEW nx, NEW pv, NEW A, NEW B,
         Listed(ha, nx, pv, A), Listed(hb, nx, pv, B), A \cap B = {},
         NEW nx2, \A x \in Cslots : nx2[x] = IF x = ha.tail THEN hb.head ELSE nx[x],
         NEW pv2, \A x \in Cslots : pv2[x] = IF x = hb.head THEN ha.tail ELSE pv[x],
         NEW h, h.head = ha.head, h.tail = hb.tail, h.live = ha.live + hb.live
  PROVE  Listed(h, nx2, pv2, A \cup B)
  <1>1. PICK n \in Nat \ {0} : \E s :
              /\ Chained(n, s, nx, pv) /\ ha.head = s[1] /\ ha.tail = s[n] /\ ha.live = n
              /\ \A x : x \in A <=> \E k \in 1..n : s[k] = x
    BY DEF Listed
  <1>2. PICK s : /\ Chained(n, s, nx, pv) /\ ha.head = s[1] /\ ha.tail = s[n] /\ ha.live = n
                 /\ \A x : x \in A <=> \E k \in 1..n : s[k] = x
    BY <1>1
  <1>3. PICK m \in Nat \ {0} : \E t :
              /\ Chained(m, t, nx, pv) /\ hb.head = t[1] /\ hb.tail = t[m] /\ hb.live = m
              /\ \A x : x \in B <=> \E k \in 1..m : t[k] = x
    BY DEF Listed
  <1>4. PICK t : /\ Chained(m, t, nx, pv) /\ hb.head = t[1] /\ hb.tail = t[m] /\ hb.live = m
                 /\ \A x : x \in B <=> \E k \in 1..m : t[k] = x
    BY <1>3
  <1>5. /\ s \in [1..n -> Cslots] /\ \A i, j \in 1..n : s[i] = s[j] => i = j
        /\ \A k \in 1..n : nx[s[k]] = IF k = n THEN NoComp ELSE s[k + 1]
        /\ \A k \in 1..n : pv[s[k]] = IF k = 1 THEN NoComp ELSE s[k - 1]
    BY <1>2 DEF Chained
  <1>6. /\ t \in [1..m -> Cslots] /\ \A i, j \in 1..m : t[i] = t[j] => i = j
        /\ \A k \in 1..m : nx[t[k]] = IF k = m THEN NoComp ELSE t[k + 1]
        /\ \A k \in 1..m : pv[t[k]] = IF k = 1 THEN NoComp ELSE t[k - 1]
    BY <1>4 DEF Chained
  <1>7. \A i \in 1..n, j \in 1..m : s[i] # t[j]
    BY <1>2, <1>4
  <1> DEFINE u == [k \in 1..(n + m) |-> IF k <= n THEN s[k] ELSE t[k - n]]
  <1>8. n + m \in Nat \ {0} /\ 1 \in 1..n /\ n \in 1..n /\ 1 \in 1..m /\ m \in 1..m
    OBVIOUS
  <1>9. /\ \A k \in 1..n : k \in 1..(n + m) /\ u[k] = s[k]
        /\ \A j \in 1..m : n + j \in 1..(n + m) /\ u[n + j] = t[j]
        /\ \A k \in 1..(n + m) : k \in 1..n \/ \E j \in 1..m : k = n + j
    <2>1. \A k \in 1..n : k \in 1..(n + m) /\ u[k] = s[k]
      OBVIOUS
    <2>2. ASSUME NEW j \in 1..m PROVE n + j \in 1..(n + m) /\ u[n + j] = t[j]
      <3>1. n + j \in 1..(n + m) /\ ~(n + j <= n) /\ n + j - n = j
        OBVIOUS
      <3> QED
        BY <3>1
    <2>3. ASSUME NEW k \in 1..(n + m), k \notin 1..n PROVE \E j \in 1..m : k = n + j
      <3>1. k - n \in 1..m /\ k = n + (k - n)
        BY <2>3
      <3> QED
        BY <3>1
    <2> QED
      BY <2>1, <2>2, <2>3
  <1>10. u \in [1..(n + m) -> Cslots]
    <2>1. \A k \in 1..(n + m) : u[k] \in Cslots
      BY <1>5, <1>6, <1>9
    <2> QED
      BY <2>1
  <1> HIDE DEF u
  <1>11. \A i, j \in 1..(n + m) : u[i] = u[j] => i = j
    <2> SUFFICES ASSUME NEW i \in 1..(n + m), NEW j \in 1..(n + m), u[i] = u[j] PROVE i = j
      OBVIOUS
    <2>1. CASE i \in 1..n
      <3>1. j \in 1..n
        BY <1>7, <1>9, <2>1
      <3> QED
        BY <1>5, <1>9, <2>1, <3>1
    <2>2. CASE i \notin 1..n
      <3>1. PICK k \in 1..m : i = n + k
        BY <1>9, <2>2
      <3>2. j \notin 1..n
        BY <1>7, <1>9, <3>1
      <3>3. PICK l \in 1..m : j = n + l
        BY <1>9, <3>2
      <3>4. t[k] = t[l]
        BY <1>9, <3>1, <3>3
      <3> QED
        BY <1>6, <3>1, <3>3, <3>4
    <2> QED
      BY <2>1, <2>2
  <1>12. ASSUME NEW k \in 1..(n + m)
         PROVE  nx2[u[k]] = IF k = n + m THEN NoComp ELSE u[k + 1]
    <2>1. CASE k \in 1..n
      <3>1. u[k] = s[k] /\ s[k] \in Cslots /\ k # n + m
        BY <1>5, <1>9, <2>1
      <3>2. CASE k = n
        <4>1. s[k] = ha.tail /\ u[n + 1] = t[1]
          BY <1>2, <1>8, <1>9, <3>2
        <4> QED
          BY <1>4, <3>1, <3>2, <4>1
      <3>3. CASE k # n
        <4>1. s[k] # ha.tail
          BY <1>2, <1>5, <1>8, <2>1, <3>3
        <4>2. k + 1 \in 1..n
          BY <2>1, <3>3
        <4> QED
          BY <1>5, <1>9, <2>1, <3>1, <3>3, <4>1, <4>2
      <3> QED
        BY <3>2, <3>3
    <2>2. CASE k \notin 1..n
      <3>1. PICK j \in 1..m : k = n + j
        BY <1>9, <2>2
      <3>2. u[k] = t[j] /\ t[j] \in Cslots /\ t[j] # ha.tail
        BY <1>2, <1>6, <1>7, <1>8, <1>9, <3>1
      <3>3. nx2[u[k]] = IF j = m THEN NoComp ELSE t[j + 1]
        BY <1>6, <3>2
      <3>4. CASE j = m
        BY <3>1, <3>3, <3>4
      <3>5. CASE j # m
        <4>1. j + 1 \in 1..m /\ k + 1 = n + (j + 1) /\ k # n + m
          BY <3>1, <3>5
        <4> QED
          BY <1>9, <3>3, <3>5, <4>1
      <3> QED
        BY <3>4, <3>5
    <2> QED
      BY <2>1, <2>2
  <1>13. ASSUME NEW k \in 1..(n + m)
         PROVE  pv2[u[k]] = IF k = 1 THEN NoComp ELSE u[k - 1]
    <2>1. CASE k \in 1..n
      <3>1. u[k] = s[k] /\ s[k] \in Cslots /\ s[k] # hb.head
        BY <1>4, <1>5, <1>7, <1>8, <1>9, <2>1
      <3>2. pv2[u[k]] = IF k = 1 THEN NoComp ELSE s[k - 1]
        BY <1>5, <2>1, <3>1
      <3>3. k # 1 => k - 1 \in 1..n
        BY <2>1
      <3> QED
        BY <1>9, <3>2, <3>3
    <2>2. CASE k \notin 1..n
      <3>1. PICK j \in 1..m : k = n + j
        BY <1>9, <2>2
      <3>2. u[k] = t[j] /\ t[j] \in Cslots /\ k # 1
        BY <1>6, <1>9, <3>1
      <3>3. CASE j = 1
        <4>1. t[j] = hb.head /\ k - 1 = n
          BY <1>4, <3>1, <3>3
        <4> QED
          BY <1>2, <1>8, <1>9, <3>2, <4>1
      <3>4. CASE j # 1
        <4>1. t[j] # hb.head
          BY <1>4, <1>6, <1>8, <3>1, <3>4
        <4>2. j - 1 \in 1..m /\ k - 1 = n + (j - 1)
          BY <3>1, <3>4
        <4> QED
          BY <1>6, <1>9, <3>2, <3>4, <4>1, <4>2
      <3> QED
        BY <3>3, <3>4
    <2> QED
      BY <2>1, <2>2
  <1>14. Chained(n + m, u, nx2, pv2)
    BY <1>10, <1>11, <1>12, <1>13 DEF Chained
  <1>15. h.head = u[1] /\ h.tail = u[n + m] /\ h.live = n + m
    BY <1>2, <1>4, <1>8, <1>9
  <1>16. \A x : x \in A \cup B <=> \E k \in 1..(n + m) : u[k] = x
    BY <1>2, <1>4, <1>9
  <1> QED
    BY <1>8, <1>14, <1>15, <1>16 DEF Listed

\* A row of more than one slot without one of them.
LEMMA RowWithout ==
  ASSUME NEW h, NEW nx, NEW pv, NEW mem, Listed(h, nx, pv, mem),
         NEW x \in mem, h.live # 1, NEW p, p = pv[x], NEW q, q = nx[x],
         NEW nx2, \A y \in Cslots : y # x => nx2[y] = IF y = p THEN q ELSE nx[y],
         NEW pv2, \A y \in Cslots : y # x => pv2[y] = IF y = q THEN p ELSE pv[y],
         NEW h2, h2.head = IF p = NoComp THEN q ELSE h.head,
         h2.tail = IF q = NoComp THEN p ELSE h.tail, h2.live = h.live - 1
  PROVE  Listed(h2, nx2, pv2, mem \ {x}) /\ h2.live # 0
  <1>1. PICK n \in Nat \ {0} : \E s :
              /\ Chained(n, s, nx, pv) /\ h.head = s[1] /\ h.tail = s[n] /\ h.live = n
              /\ \A y : y \in mem <=> \E k \in 1..n : s[k] = y
    BY DEF Listed
  <1>2. PICK s : /\ Chained(n, s, nx, pv) /\ h.head = s[1] /\ h.tail = s[n] /\ h.live = n
                 /\ \A y : y \in mem <=> \E k \in 1..n : s[k] = y
    BY <1>1
  <1>3. /\ s \in [1..n -> Cslots] /\ \A i, j \in 1..n : s[i] = s[j] => i = j
        /\ \A k \in 1..n : nx[s[k]] = IF k = n THEN NoComp ELSE s[k + 1]
        /\ \A k \in 1..n : pv[s[k]] = IF k = 1 THEN NoComp ELSE s[k - 1]
    BY <1>2 DEF Chained
  <1>4. PICK k \in 1..n : s[k] = x
    BY <1>2
  <1>5. PICK m \in Nat \ {0} : n = m + 1
    <2>1. n - 1 \in Nat \ {0} /\ n = (n - 1) + 1
      BY <1>2
    <2> QED
      BY <2>1
  <1>6. /\ q = IF k = n THEN NoComp ELSE s[k + 1]
        /\ p = IF k = 1 THEN NoComp ELSE s[k - 1]
    BY <1>3, <1>4
  <1>7. \A j \in 1..n : s[j] \in Cslots /\ s[j] # NoComp
    BY <1>3, ComponentsAssumption
  <1> DEFINE u == [j \in 1..m |-> IF j < k THEN s[j] ELSE s[j + 1]]
  <1>8. /\ \A j \in 1..m : j \in 1..n /\ j + 1 \in 1..n
        /\ \A j \in 1..m : u[j] = IF j < k THEN s[j] ELSE s[j + 1]
    BY <1>5
  <1>9. u \in [1..m -> Cslots]
    BY <1>7, <1>8
  <1> HIDE DEF u
  <1>10. \A i, j \in 1..m : u[i] = u[j] => i = j
    <2> SUFFICES ASSUME NEW i \in 1..m, NEW j \in 1..m, u[i] = u[j] PROVE i = j
      OBVIOUS
    <2>1. i \in 1..n /\ i + 1 \in 1..n /\ j \in 1..n /\ j + 1 \in 1..n
      BY <1>8
    <2>2. CASE i < k /\ j < k
      BY <1>3, <1>8, <2>1, <2>2
    <2>3. CASE i < k /\ ~(j < k)
      <3>1. s[i] = s[j + 1]
        BY <1>8, <2>3
      <3>2. i = j + 1
        BY <1>3, <2>1, <3>1
      <3> QED
        BY <2>3, <3>2
    <2>4. CASE ~(i < k) /\ j < k
      <3>1. s[i + 1] = s[j]
        BY <1>8, <2>4
      <3>2. i + 1 = j
        BY <1>3, <2>1, <3>1
      <3> QED
        BY <2>4, <3>2
    <2>5. CASE ~(i < k) /\ ~(j < k)
      <3>1. s[i + 1] = s[j + 1]
        BY <1>8, <2>5
      <3>2. i + 1 = j + 1
        BY <1>3, <2>1, <3>1
      <3> QED
        BY <3>2
    <2> QED
      BY <2>2, <2>3, <2>4, <2>5
  <1>11. \A j \in 1..n : s[j] = x <=> j = k
    BY <1>3, <1>4
  <1>12. ASSUME NEW j \in 1..m PROVE nx2[u[j]] = IF j = m THEN NoComp ELSE u[j + 1]
    <2>0. j \in 1..n /\ j + 1 \in 1..n /\ (j # m => j + 1 \in 1..m /\ j + 1 + 1 \in 1..n)
      BY <1>5
    <2>1. CASE j + 1 < k
      <3>1. u[j] = s[j] /\ s[j] # x /\ j # m /\ u[j + 1] = s[j + 1]
        BY <1>5, <1>8, <1>11, <2>0, <2>1
      <3>2. s[j] # p
        <4>1. k # 1 /\ k - 1 \in 1..n /\ j # k - 1
          BY <2>1
        <4> QED
          BY <1>3, <1>6, <2>0, <4>1
      <3>3. nx2[s[j]] = nx[s[j]]
        BY <1>7, <2>0, <3>1, <3>2
      <3>4. nx[s[j]] = s[j + 1]
        BY <1>3, <1>5, <2>0, <2>1
      <3> QED
        BY <3>1, <3>3, <3>4
    <2>2. CASE j + 1 = k
      <3>1. u[j] = s[j] /\ s[j] # x /\ s[j] = p
        BY <1>6, <1>8, <1>11, <2>0, <2>2
      <3>2. nx2[s[j]] = q
        BY <1>7, <2>0, <3>1
      <3>3. CASE j = m
        BY <1>5, <1>6, <2>2, <3>1, <3>2, <3>3
      <3>4. CASE j # m
        <4>1. u[j + 1] = s[j + 1 + 1] /\ k # n
          BY <1>5, <1>8, <2>0, <2>2, <3>4
        <4> QED
          BY <1>6, <2>2, <3>1, <3>2, <3>4, <4>1
      <3> QED
        BY <3>3, <3>4
    <2>3. CASE ~(j + 1 < k) /\ j + 1 # k
      <3>1. u[j] = s[j + 1] /\ ~(j < k) /\ j + 1 # k
        BY <1>8, <2>3
      <3>2. s[j + 1] # x
        BY <1>11, <2>0, <3>1
      <3>3. s[j + 1] # p
        <4>1. k # 1 => k - 1 \in 1..n /\ j + 1 # k - 1
          BY <3>1
        <4> QED
          BY <1>3, <1>6, <1>7, <2>0, <4>1
      <3>4. nx2[s[j + 1]] = nx[s[j + 1]]
        BY <1>7, <2>0, <3>2, <3>3
      <3>5. nx[s[j + 1]] = IF j + 1 = n THEN NoComp ELSE s[j + 1 + 1]
        BY <1>3, <2>0
      <3>6. j = m <=> j + 1 = n
        BY <1>5
      <3>7. j # m => u[j + 1] = s[j + 1 + 1]
        BY <1>8, <2>0, <3>1
      <3> QED
        BY <3>1, <3>4, <3>5, <3>6, <3>7
    <2> QED
      BY <2>1, <2>2, <2>3
  <1>13. ASSUME NEW j \in 1..m PROVE pv2[u[j]] = IF j = 1 THEN NoComp ELSE u[j - 1]
    <2>0. j \in 1..n /\ j + 1 \in 1..n /\ (j # 1 => j - 1 \in 1..m /\ j - 1 \in 1..n /\ j - 1 + 1 = j)
      BY <1>5
    <2>1. CASE j < k
      <3>1. u[j] = s[j] /\ s[j] # x
        BY <1>8, <1>11, <2>0, <2>1
      <3>2. s[j] # q
        <4>1. k # n => k + 1 \in 1..n /\ j # k + 1
          BY <2>1
        <4> QED
          BY <1>3, <1>6, <1>7, <2>0, <4>1
      <3>3. pv2[s[j]] = pv[s[j]]
        BY <1>7, <2>0, <3>1, <3>2
      <3>4. pv[s[j]] = IF j = 1 THEN NoComp ELSE s[j - 1]
        BY <1>3, <2>0
      <3>5. j # 1 => u[j - 1] = s[j - 1]
        BY <1>8, <2>0, <2>1
      <3> QED
        BY <3>1, <3>3, <3>4, <3>5
    <2>2. CASE j = k
      <3>1. u[j] = s[j + 1] /\ s[j + 1] # x /\ k # n /\ s[j + 1] = q
        BY <1>5, <1>6, <1>8, <1>11, <2>0, <2>2
      <3>2. pv2[s[j + 1]] = p
        BY <1>7, <2>0, <3>1
      <3>3. j # 1 => u[j - 1] = s[j - 1]
        BY <1>8, <2>0, <2>2
      <3> QED
        BY <1>6, <2>2, <3>1, <3>2, <3>3
    <2>3. CASE ~(j < k) /\ j # k
      <3>1. u[j] = s[j + 1] /\ s[j + 1] # x /\ j # 1
        BY <1>8, <1>11, <2>0, <2>3
      <3>2. s[j + 1] # q
        <4>1. k # n => k + 1 \in 1..n /\ j + 1 # k + 1
          BY <2>3
        <4> QED
          BY <1>3, <1>6, <1>7, <2>0, <4>1
      <3>3. pv2[s[j + 1]] = pv[s[j + 1]]
        BY <1>7, <2>0, <3>1, <3>2
      <3>4. pv[s[j + 1]] = s[j]
        <4>1. j + 1 # 1 /\ j + 1 - 1 = j
          OBVIOUS
        <4> QED
          BY <1>3, <2>0, <4>1
      <3>5. u[j - 1] = s[j]
        <4>1. ~(j - 1 < k)
          BY <2>3
        <4> QED
          BY <1>8, <2>0, <3>1, <4>1
      <3> QED
        BY <3>1, <3>3, <3>4, <3>5
    <2> QED
      BY <2>1, <2>2, <2>3
  <1>14. Chained(m, u, nx2, pv2)
    BY <1>9, <1>10, <1>12, <1>13 DEF Chained
  <1>15. h2.head = u[1]
    <2>0. 1 \in 1..m /\ 1 \in 1..n /\ 1 + 1 \in 1..n
      BY <1>5
    <2>1. CASE k = 1
      BY <1>5, <1>6, <1>8, <2>0, <2>1
    <2>2. CASE k # 1
      <3>1. 1 < k /\ k - 1 \in 1..n
        BY <2>2
      <3> QED
        BY <1>2, <1>6, <1>7, <1>8, <2>0, <2>2, <3>1
    <2> QED
      BY <2>1, <2>2
  <1>16. h2.tail = u[m]
    <2>0. m \in 1..m /\ m \in 1..n /\ m + 1 = n /\ n \in 1..n
      BY <1>5
    <2>1. CASE k = n
      <3>1. k # 1 /\ k - 1 = m /\ m < k
        BY <1>5, <2>1
      <3> QED
        BY <1>6, <1>8, <2>0, <2>1, <3>1
    <2>2. CASE k # n
      <3>1. ~(m < k) /\ k + 1 \in 1..n
        BY <1>5, <2>2
      <3> QED
        BY <1>2, <1>6, <1>7, <1>8, <2>0, <2>2, <3>1
    <2> QED
      BY <2>1, <2>2
  <1>17. h2.live = m
    BY <1>2, <1>5
  <1>18. ASSUME NEW y PROVE y \in mem \ {x} <=> \E j \in 1..m : u[j] = y
    <2>1. ASSUME NEW j \in 1..m PROVE u[j] \in mem \ {x}
      <3>1. CASE j < k
        BY <1>2, <1>8, <1>11, <3>1
      <3>2. CASE ~(j < k)
        <4>1. u[j] = s[j + 1] /\ j + 1 \in 1..n /\ j + 1 # k
          BY <1>8, <3>2
        <4> QED
          BY <1>2, <1>11, <4>1
      <3> QED
        BY <3>1, <3>2
    <2>2. ASSUME y \in mem \ {x} PROVE \E j \in 1..m : u[j] = y
      <3>1. PICK j \in 1..n : s[j] = y
        BY <1>2, <2>2
      <3>2. j # k
        BY <1>4, <2>2, <3>1
      <3>3. CASE j < k
        <4>1. j \in 1..m
          BY <1>5, <3>3
        <4> QED
          BY <1>8, <3>1, <3>3, <4>1
      <3>4. CASE ~(j < k)
        <4>1. j - 1 \in 1..m /\ ~(j - 1 < k) /\ j - 1 + 1 = j
          BY <1>5, <3>2, <3>4
        <4> QED
          BY <1>8, <3>1, <4>1
      <3> QED
        BY <3>3, <3>4
    <2> QED
      BY <2>1, <2>2
  <1> QED
    BY <1>5, <1>14, <1>15, <1>16, <1>17, <1>18 DEF Listed


-----------------------------------------------------------------------------
(* The components: the invariant of their steps *)

HeaderRecords == [owned : BOOLEAN, head : Cslots \cup {NoComp}, tail : Cslots \cup {NoComp}, live : Nat]

CompTyped ==
    /\ alive \subseteq Cslots /\ compOf \in [Cslots -> Nat \cup {NoComp}]
    /\ prev \in [Cslots -> Cslots \cup {NoComp}] /\ next \in [Cslots -> Cslots \cup {NoComp}]
    /\ headers \in Seq(HeaderRecords) /\ freeHeaders \in Seq(Nat) /\ outs \in [Cslots -> Seq(Cslots)]

CompIds == 1..Len(headers)

LabelledWith(c) == {x \in alive : compOf[x] = c}

\* Every owned header keeps the row of the slots labelled with it.
RowsKeep == \A c \in CompIds : headers[c].owned => Listed(headers[c], next, prev, LabelledWith(c))

\* The free list names every header that is not owned, once.
FreeNamed ==
    /\ \A k \in 1..Len(freeHeaders) : freeHeaders[k] \in CompIds /\ ~headers[freeHeaders[k]].owned
    /\ \A k, l \in 1..Len(freeHeaders) : freeHeaders[k] = freeHeaders[l] => k = l
    /\ \A c \in CompIds : ~headers[c].owned => \E k \in 1..Len(freeHeaders) : freeHeaders[k] = c

LabelsOwned ==
    /\ \A x \in alive : compOf[x] \in CompIds /\ headers[compOf[x]].owned
    /\ \A x \in Cslots \ alive : compOf[x] = NoComp /\ outs[x] = << >>

CompInv == CompTyped /\ RowsKeep /\ FreeNamed /\ LabelsOwned /\ ClosedUnderEdges

\* The headers and the free list, entry by entry.
LEMMA CompSeqs ==
  ASSUME CompTyped
  PROVE  /\ Len(headers) \in Nat /\ \A c \in CompIds : headers[c] \in HeaderRecords
         /\ Len(freeHeaders) \in Nat /\ \A k \in 1..Len(freeHeaders) : freeHeaders[k] \in Nat
         /\ DOMAIN headers = CompIds
  <1>1. headers \in Seq(HeaderRecords) /\ freeHeaders \in Seq(Nat)
    BY DEF CompTyped
  <1>2. Len(headers) \in Nat /\ DOMAIN headers = 1..Len(headers)
    BY <1>1, LenProperties
  <1>3. Len(freeHeaders) \in Nat
    BY <1>1, LenProperties
  <1>4. \A c \in 1..Len(headers) : headers[c] \in HeaderRecords
    BY <1>1, ElementOfSeq
  <1>5. \A k \in 1..Len(freeHeaders) : freeHeaders[k] \in Nat
    BY <1>1, ElementOfSeq
  <1> QED
    BY <1>2, <1>3, <1>4, <1>5 DEF CompIds

\* A sequence made from a function.
LEMMA MadeSeq ==
  ASSUME NEW T, NEW n \in Nat, NEW f, f = [k \in 1..n |-> f[k]], \A k \in 1..n : f[k] \in T
  PROVE  f \in Seq(T) /\ Len(f) = n
  <1>1. f \in [1..n -> T]
    OBVIOUS
  <1> QED
    BY <1>1, SeqDef, LenProperties

\* No component.
LEMMA CompInitInv ==
  ComponentsInit => CompInv
  <1> SUFFICES ASSUME ComponentsInit PROVE CompInv
    OBVIOUS
  <1>1. /\ compOf = [s \in Cslots |-> NoComp] /\ prev = [s \in Cslots |-> NoComp]
        /\ next = [s \in Cslots |-> NoComp] /\ headers = << >> /\ freeHeaders = << >>
        /\ outs = [s \in Cslots |-> << >>] /\ alive = {}
    BY DEF ComponentsInit
  <1>2. << >> \in Seq(HeaderRecords) /\ << >> \in Seq(Nat) /\ << >> \in Seq(Cslots) /\ Len(<< >>) = 0
    OBVIOUS
  <1>3. CompTyped
    BY <1>1, <1>2 DEF CompTyped
  <1>4. CompIds = {} /\ 1..Len(freeHeaders) = {}
    BY <1>1, <1>2 DEF CompIds
  <1> QED
    BY <1>1, <1>3, <1>4 DEF CompInv, RowsKeep, FreeNamed, LabelsOwned, ClosedUnderEdges

\* newHeader takes a header nobody owns.
LEMMA NewHeaderIs ==
  ASSUME CompTyped, FreeNamed, NEW s, AddLocal(s)
  PROVE  LET c == NewHeader
             hdr == [owned |-> TRUE, head |-> s, tail |-> s, live |-> 1]
         IN /\ c \in Nat \ {0}
            /\ c \in CompIds => ~headers[c].owned
            /\ CompIds' = CompIds \cup {c} /\ headers'[c] = hdr
            /\ \A k \in CompIds : k # c => headers'[k] = headers[k]
            /\ s \in Cslots => headers' \in Seq(HeaderRecords)
            /\ freeHeaders' \in Seq(Nat) /\ FreeNamed'
  <1> DEFINE c == NewHeader
             hdr == [owned |-> TRUE, head |-> s, tail |-> s, live |-> 1]
             H == Len(headers)
             F == Len(freeHeaders)
             N == IF c > H THEN c ELSE H
  <1>1. /\ headers' = [k \in 1..N |-> IF k = c THEN hdr ELSE headers[k]]
        /\ freeHeaders' = SubSeq(freeHeaders, 1, F - (IF freeHeaders = << >> THEN 0 ELSE 1))
    BY DEF AddLocal, SetHeader
  <1>2. /\ H \in Nat /\ F \in Nat /\ CompIds = 1..H /\ \A k \in CompIds : headers[k] \in HeaderRecords
        /\ \A k \in 1..F : freeHeaders[k] \in Nat
    BY CompSeqs DEF CompIds
  <1>3. /\ \A k \in 1..F : freeHeaders[k] \in CompIds /\ ~headers[freeHeaders[k]].owned
        /\ \A k, l \in 1..F : freeHeaders[k] = freeHeaders[l] => k = l
        /\ \A k \in CompIds : ~headers[k].owned => \E l \in 1..F : freeHeaders[l] = k
    BY DEF FreeNamed
  <1>4. freeHeaders \in Seq(Nat)
    BY DEF CompTyped
  <1>5. CASE freeHeaders = << >>
    <2>1. F = 0 /\ c = H + 1 /\ N = H + 1
      BY <1>2, <1>5 DEF NewHeader
    <2>2. freeHeaders' = << >>
      BY <1>1, <1>5, <2>1
    <2>3. freeHeaders' \in Seq(Nat) /\ Len(freeHeaders') = 0
      BY <2>2
    <2>4. headers' = [k \in 1..(H + 1) |-> headers'[k]]
      BY <1>1, <2>1
    <2>5. headers'[c] = hdr /\ \A k \in CompIds : k # c /\ headers'[k] = headers[k]
      BY <1>1, <1>2, <2>1
    <2>6. s \in Cslots => headers' \in Seq(HeaderRecords)
      <3>1. s \in Cslots => hdr \in HeaderRecords
        BY DEF HeaderRecords
      <3>2. s \in Cslots => \A k \in 1..(H + 1) : headers'[k] \in HeaderRecords
        BY <1>1, <1>2, <2>1, <3>1
      <3> QED
        BY <1>2, <2>4, <3>2, MadeSeq
    <2>7. Len(headers') = H + 1
      <3>1. \A k \in 1..(H + 1) : headers'[k] \in {headers'[l] : l \in 1..(H + 1)}
        OBVIOUS
      <3> QED
        BY <1>2, <2>4, <3>1, MadeSeq
    <2>8. CompIds' = CompIds \cup {c}
      BY <1>2, <2>1, <2>7 DEF CompIds
    <2>9. FreeNamed'
      <3>1. \A k \in CompIds' : headers'[k].owned
        <4>1. \A k \in CompIds : headers[k].owned
          BY <1>3, <2>1
        <4> QED
          BY <2>5, <2>8, <4>1
      <3>2. 1..Len(freeHeaders') = {}
        BY <2>3
      <3> QED
        BY <3>1, <3>2 DEF FreeNamed
    <2>10. c \notin CompIds /\ c \in Nat \ {0}
      BY <1>2, <2>1
    <2> QED
      BY <2>3, <2>5, <2>6, <2>8, <2>9, <2>10
  <1>6. CASE freeHeaders # << >>
    <2>1. F # 0
      BY <1>4, <1>6, EmptySeq
    <2>2. c = freeHeaders[F] /\ F \in 1..F
      BY <1>2, <1>6, <2>1 DEF NewHeader
    <2>3. c \in CompIds /\ ~headers[c].owned /\ N = H
      BY <1>2, <1>3, <2>2
    <2>4. /\ freeHeaders' \in Seq(Nat) /\ Len(freeHeaders') = F - 1
          /\ \A k \in 1..(F - 1) : freeHeaders'[k] = freeHeaders[k]
      <3>1. freeHeaders' = SubSeq(freeHeaders, 1, F - 1)
        BY <1>1, <1>6
      <3>2. F - 1 \in 0..F /\ F - 1 \in Nat
        BY <1>2, <2>1
      <3>3. /\ SubSeq(freeHeaders, 1, F - 1) = [k \in 1..(F - 1) |-> freeHeaders[k]]
        BY <1>2, <1>4, <3>2
      <3>4. freeHeaders' = [k \in 1..(F - 1) |-> freeHeaders[k]]
        BY <3>1, <3>3
      <3>5. freeHeaders' = [k \in 1..(F - 1) |-> freeHeaders'[k]] /\ \A k \in 1..(F - 1) : freeHeaders'[k] = freeHeaders[k]
        BY <3>4
      <3>6. \A k \in 1..(F - 1) : freeHeaders'[k] \in Nat
        BY <1>2, <3>5
      <3> QED
        BY <3>2, <3>5, <3>6, MadeSeq
    <2>5. headers' = [k \in 1..H |-> IF k = c THEN hdr ELSE headers[k]]
      BY <1>1, <2>3
    <2>6. headers'[c] = hdr /\ \A k \in CompIds : k # c => headers'[k] = headers[k]
      BY <1>2, <2>3, <2>5
    <2>7. headers' = [k \in 1..H |-> headers'[k]]
      BY <2>5
    <2>8. Len(headers') = H
      <3>1. \A k \in 1..H : headers'[k] \in {headers'[l] : l \in 1..H}
        OBVIOUS
      <3> QED
        BY <1>2, <2>7, <3>1, MadeSeq
    <2>9. s \in Cslots => headers' \in Seq(HeaderRecords)
      <3>1. s \in Cslots => hdr \in HeaderRecords
        BY DEF HeaderRecords
      <3>2. s \in Cslots => \A k \in 1..H : headers'[k] \in HeaderRecords
        BY <1>2, <2>6, <3>1
      <3> QED
        BY <1>2, <2>7, <3>2, MadeSeq
    <2>10. CompIds' = CompIds
      BY <2>8 DEF CompIds
    <2>11. FreeNamed'
      <3>1. \A k \in 1..(F - 1) : k \in 1..F /\ k # F
        BY <1>2
      <3>2. \A k \in 1..(F - 1) : freeHeaders'[k] \in CompIds /\ freeHeaders'[k] # c /\ ~headers[freeHeaders'[k]].owned
        BY <1>3, <2>2, <2>4, <3>1
      <3>3. \A k \in 1..(F - 1) : freeHeaders'[k] \in CompIds' /\ ~headers'[freeHeaders'[k]].owned
        BY <2>6, <2>10, <3>2
      <3>4. \A k, l \in 1..(F - 1) : freeHeaders'[k] = freeHeaders'[l] => k = l
        BY <1>3, <2>4, <3>1
      <3>5. ASSUME NEW k \in CompIds', ~headers'[k].owned PROVE \E l \in 1..(F - 1) : freeHeaders'[l] = k
        <4>1. k # c /\ ~headers[k].owned
          BY <2>6, <2>10, <3>5
        <4>2. PICK l \in 1..F : freeHeaders[l] = k
          BY <1>3, <2>10, <4>1
        <4>3. l \in 1..(F - 1)
          BY <1>2, <2>2, <4>1, <4>2
        <4> QED
          BY <2>4, <4>2, <4>3
      <3> QED
        BY <2>4, <3>3, <3>4, <3>5 DEF FreeNamed
    <2>12. c \in Nat \ {0} /\ CompIds' = CompIds \cup {c}
      BY <1>2, <2>3, <2>10
    <2> QED
      BY <2>3, <2>4, <2>6, <2>9, <2>11, <2>12
  <1> QED
    BY <1>5, <1>6

\* freeHeader puts an owned header on the free list.
LEMMA HeaderFreed ==
  ASSUME CompTyped, FreeNamed, NEW c \in CompIds, headers[c].owned,
         CompIds' = CompIds, ~headers'[c].owned,
         \A k \in CompIds : k # c => headers'[k].owned = headers[k].owned,
         freeHeaders' = Append(freeHeaders, c)
  PROVE  freeHeaders' \in Seq(Nat) /\ FreeNamed'
  <1> DEFINE F == Len(freeHeaders)
  <1>1. F \in Nat /\ freeHeaders \in Seq(Nat) /\ c \in Nat
    BY CompSeqs DEF CompTyped, CompIds
  <1>2. /\ freeHeaders' \in Seq(Nat) /\ Len(freeHeaders') = F + 1
        /\ freeHeaders'[F + 1] = c /\ \A k \in 1..F : freeHeaders'[k] = freeHeaders[k]
    BY <1>1, AppendProperties
  <1>3. /\ \A k \in 1..F : freeHeaders[k] \in CompIds /\ ~headers[freeHeaders[k]].owned
        /\ \A k, l \in 1..F : freeHeaders[k] = freeHeaders[l] => k = l
        /\ \A k \in CompIds : ~headers[k].owned => \E l \in 1..F : freeHeaders[l] = k
    BY DEF FreeNamed
  <1>4. \A k \in 1..(F + 1) : k \in 1..F \/ k = F + 1
    BY <1>1
  <1>5. \A k \in 1..F : freeHeaders'[k] \in CompIds /\ freeHeaders'[k] # c /\ ~headers'[freeHeaders'[k]].owned
    BY <1>2, <1>3
  <1>6. \A k \in 1..(F + 1) : freeHeaders'[k] \in CompIds' /\ ~headers'[freeHeaders'[k]].owned
    BY <1>2, <1>4, <1>5
  <1>7. \A k, l \in 1..(F + 1) : freeHeaders'[k] = freeHeaders'[l] => k = l
    BY <1>2, <1>3, <1>4, <1>5
  <1>8. ASSUME NEW k \in CompIds', ~headers'[k].owned PROVE \E l \in 1..(F + 1) : freeHeaders'[l] = k
    <2>1. CASE k = c
      <3>1. F + 1 \in 1..(F + 1)
        BY <1>1
      <3> QED
        BY <1>2, <2>1, <3>1
    <2>2. CASE k # c
      <3>1. PICK l \in 1..F : freeHeaders[l] = k
        BY <1>3, <1>8, <2>2
      <3>2. l \in 1..(F + 1)
        BY <1>1
      <3> QED
        BY <1>2, <3>1, <3>2
    <2> QED
      BY <2>1, <2>2
  <1> QED
    BY <1>2, <1>6, <1>7, <1>8 DEF FreeNamed

\* The rows keep to slots.
LEMMA RowsAre ==
  ASSUME CompInv, NEW c \in CompIds, headers[c].owned
  PROVE  /\ Listed(headers[c], next, prev, LabelledWith(c))
         /\ headers[c].head \in LabelledWith(c) /\ headers[c].tail \in LabelledWith(c)
         /\ headers[c].live \in Nat \ {0}
         /\ Range(MembersOf(c)) = LabelledWith(c)
  <1>1. Listed(headers[c], next, prev, LabelledWith(c))
    BY DEF CompInv, RowsKeep
  <1>2. PICK n \in Nat \ {0} : \E s :
              /\ Chained(n, s, next, prev) /\ headers[c].head = s[1] /\ headers[c].tail = s[n]
              /\ headers[c].live = n /\ \A x : x \in LabelledWith(c) <=> \E k \in 1..n : s[k] = x
    BY <1>1 DEF Listed
  <1>3. PICK s : /\ Chained(n, s, next, prev) /\ headers[c].head = s[1] /\ headers[c].tail = s[n]
                 /\ headers[c].live = n /\ \A x : x \in LabelledWith(c) <=> \E k \in 1..n : s[k] = x
    BY <1>2
  <1>4. MembersOf(c) = s
    BY <1>3, RowIs
  <1>5. Range(s) = LabelledWith(c)
    <2>1. DOMAIN s = 1..n
      BY <1>3 DEF Chained
    <2> QED
      BY <1>3, <2>1 DEF Range
  <1>6. 1 \in 1..n /\ n \in 1..n
    OBVIOUS
  <1> QED
    BY <1>1, <1>3, <1>4, <1>5, <1>6


-----------------------------------------------------------------------------
(* The components: their steps *)

\* addLocal: a component of one slot.
LEMMA AddLocalInv ==
  ASSUME CompInv, NEW s \in Cslots, AddLocal(s)
  PROVE  CompInv'
  <1> DEFINE hdr == [owned |-> TRUE, head |-> s, tail |-> s, live |-> 1]
  <1>0. PICK c : c = NewHeader
    OBVIOUS
  <1>1. /\ s \notin alive /\ alive' = alive \cup {s} /\ compOf' = [compOf EXCEPT ![s] = c]
        /\ prev' = [prev EXCEPT ![s] = NoComp] /\ next' = [next EXCEPT ![s] = NoComp] /\ outs' = outs
    BY <1>0 DEF AddLocal
  <1>2. CompTyped /\ RowsKeep /\ FreeNamed /\ LabelsOwned /\ ClosedUnderEdges
    BY DEF CompInv
  <1>3. /\ c \in Nat \ {0}
        /\ c \in CompIds => ~headers[c].owned
        /\ CompIds' = CompIds \cup {c} /\ headers'[c] = hdr
        /\ \A k \in CompIds : k # c => headers'[k] = headers[k]
        /\ headers' \in Seq(HeaderRecords)
        /\ freeHeaders' \in Seq(Nat) /\ FreeNamed'
    BY <1>0, <1>2, NewHeaderIs
  <1>4. /\ alive \subseteq Cslots /\ compOf \in [Cslots -> Nat \cup {NoComp}]
        /\ prev \in [Cslots -> Cslots \cup {NoComp}] /\ next \in [Cslots -> Cslots \cup {NoComp}]
        /\ outs \in [Cslots -> Seq(Cslots)]
    BY <1>2 DEF CompTyped
  <1>5. /\ compOf'[s] = c /\ next'[s] = NoComp /\ prev'[s] = NoComp
        /\ \A x \in Cslots : x # s => compOf'[x] = compOf[x] /\ next'[x] = next[x] /\ prev'[x] = prev[x]
    BY <1>1, <1>4
  <1>6. CompTyped'
    <2>1. compOf' \in [Cslots -> Nat \cup {NoComp}]
      BY <1>1, <1>3, <1>4
    <2>2. prev' \in [Cslots -> Cslots \cup {NoComp}] /\ next' \in [Cslots -> Cslots \cup {NoComp}]
      BY <1>1, <1>4
    <2> QED
      BY <1>1, <1>3, <1>4, <2>1, <2>2 DEF CompTyped
  <1>7. \A x \in alive : compOf[x] \in CompIds /\ headers[compOf[x]].owned /\ compOf[x] # c /\ x # s
    BY <1>1, <1>2, <1>3 DEF LabelsOwned
  <1>8. LabelledWith(c)' = {s} /\ \A k \in CompIds : k # c => LabelledWith(k)' = LabelledWith(k)
    BY <1>1, <1>4, <1>5, <1>7 DEF LabelledWith
  <1>9. RowsKeep'
    <2> SUFFICES ASSUME NEW k \in CompIds', headers'[k].owned
                 PROVE  Listed(headers'[k], next', prev', LabelledWith(k)')
      BY DEF RowsKeep
    <2>1. CASE k = c
      <3>1. headers'[c].head = s /\ headers'[c].tail = s /\ headers'[c].live = 1
        BY <1>3
      <3>2. Listed(headers'[c], next', prev', {s})
        BY <1>5, <3>1, RowOne
      <3>3. {x \in alive' : compOf'[x] = k} = {s}
        BY <1>1, <1>4, <1>5, <1>7, <2>1
      <3> QED
        BY <2>1, <3>2, <3>3 DEF LabelledWith
    <2>2. CASE k # c
      <3>1. k \in CompIds /\ headers'[k] = headers[k] /\ headers[k].owned
        BY <1>3, <2>2
      <3>2. Listed(headers[k], next, prev, LabelledWith(k))
        BY <1>2, <3>1 DEF RowsKeep
      <3>3. \A x \in LabelledWith(k) : next'[x] = next[x] /\ prev'[x] = prev[x]
        BY <1>4, <1>5, <1>7 DEF LabelledWith
      <3> QED
        BY <1>8, <2>2, <3>1, <3>2, <3>3, RowSame
    <2> QED
      BY <2>1, <2>2
  <1>10. LabelsOwned'
    <2>1. headers'[c].owned /\ c \in CompIds'
      BY <1>3
    <2>2. \A x \in alive : compOf'[x] = compOf[x]
      BY <1>4, <1>5, <1>7
    <2>3. ASSUME NEW x \in alive' PROVE compOf'[x] \in CompIds' /\ headers'[compOf'[x]].owned
      <3>1. CASE x = s
        BY <1>5, <2>1, <3>1
      <3>2. CASE x # s
        <4>1. x \in alive /\ compOf'[x] = compOf[x]
          BY <1>1, <2>2, <3>2
        <4>2. compOf[x] \in CompIds /\ headers[compOf[x]].owned /\ compOf[x] # c
          BY <1>7, <4>1
        <4> QED
          BY <1>3, <4>1, <4>2
      <3> QED
        BY <3>1, <3>2
    <2>4. ASSUME NEW x \in Cslots \ alive' PROVE compOf'[x] = NoComp /\ outs'[x] = << >>
      <3>1. x \in Cslots \ alive /\ x # s
        BY <1>1
      <3>2. compOf[x] = NoComp /\ outs[x] = << >>
        BY <1>2, <3>1 DEF LabelsOwned
      <3> QED
        BY <1>1, <1>5, <3>1, <3>2
    <2> QED
      BY <2>3, <2>4 DEF LabelsOwned
  <1>11. ClosedUnderEdges'
    <2> SUFFICES ASSUME NEW x \in alive', NEW d \in Range(outs'[x])
                 PROVE  d \in alive' /\ compOf'[x] = compOf'[d]
      BY DEF ClosedUnderEdges
    <2>1. CASE x = s
      <3>1. outs'[x] = << >>
        BY <1>1, <1>2, <2>1 DEF LabelsOwned
      <3>2. DOMAIN << >> = {}
        OBVIOUS
      <3> QED
        BY <3>1, <3>2 DEF Range
    <2>2. CASE x # s
      <3>1. x \in alive /\ d \in Range(outs[x])
        BY <1>1, <2>2
      <3>2. d \in alive /\ compOf[x] = compOf[d] /\ d # s
        BY <1>2, <1>7, <3>1 DEF ClosedUnderEdges
      <3> QED
        BY <1>1, <1>4, <1>5, <2>2, <3>2
    <2> QED
      BY <2>1, <2>2
  <1> QED
    BY <1>3, <1>6, <1>9, <1>10, <1>11 DEF CompInv

\* What every header keeps, spelled out.
LEMMA CompFacts ==
  ASSUME CompInv
  PROVE  /\ alive \subseteq Cslots /\ compOf \in [Cslots -> Nat \cup {NoComp}]
         /\ prev \in [Cslots -> Cslots \cup {NoComp}] /\ next \in [Cslots -> Cslots \cup {NoComp}]
         /\ outs \in [Cslots -> Seq(Cslots)] /\ headers \in Seq(HeaderRecords)
         /\ \A x \in alive : compOf[x] \in CompIds /\ headers[compOf[x]].owned
         /\ \A x \in Cslots \ alive : compOf[x] = NoComp /\ outs[x] = << >>
         /\ \A x \in alive : \A d \in Range(outs[x]) : d \in alive /\ compOf[x] = compOf[d]
         /\ \A k \in CompIds : headers[k] \in HeaderRecords
         /\ CompTyped /\ RowsKeep /\ FreeNamed /\ LabelsOwned
  BY CompSeqs DEF CompInv, CompTyped, LabelsOwned, ClosedUnderEdges

\* The members of an updated sequence.
LEMMA PutSeq ==
  ASSUME NEW T, NEW q \in Seq(T), NEW c \in 1..Len(q), NEW v \in T
  PROVE  /\ [q EXCEPT ![c] = v] \in Seq(T) /\ Len([q EXCEPT ![c] = v]) = Len(q)
         /\ [q EXCEPT ![c] = v][c] = v
         /\ \A k \in 1..Len(q) : k # c => [q EXCEPT ![c] = v][k] = q[k]
  BY ExceptSeq, LenProperties

\* merge: two components become one.
LEMMA MergeInv ==
  ASSUME CompInv, NEW a \in alive, NEW b \in alive, Merge(a, b), alive' = alive,
         outs' \in [Cslots -> Seq(Cslots)],
         \A x \in Cslots : x # a => outs'[x] = outs[x],
         \A d \in Range(outs'[a]) : d \in Range(outs[a]) \/ d = b
  PROVE  CompInv'
  <1>1. /\ alive \subseteq Cslots /\ compOf \in [Cslots -> Nat \cup {NoComp}]
        /\ prev \in [Cslots -> Cslots \cup {NoComp}] /\ next \in [Cslots -> Cslots \cup {NoComp}]
        /\ \A x \in alive : compOf[x] \in CompIds /\ headers[compOf[x]].owned
        /\ \A x \in Cslots \ alive : compOf[x] = NoComp /\ outs[x] = << >>
        /\ \A x \in alive : \A d \in Range(outs[x]) : d \in alive /\ compOf[x] = compOf[d]
        /\ CompTyped /\ RowsKeep /\ FreeNamed /\ LabelsOwned
    BY CompFacts
  <1>0. PICK ca : ca = compOf[a]
    OBVIOUS
  <1>b. PICK cb : cb = compOf[b]
    OBVIOUS
  <1>2. CASE ca = cb
    <2>1. compOf' = compOf /\ prev' = prev /\ next' = next /\ headers' = headers /\ freeHeaders' = freeHeaders
      BY <1>0, <1>b, <1>2 DEF Merge
    <2>2. CompTyped'
      BY <1>1, <2>1 DEF CompTyped
    <2>5. FreeNamed'
      BY <1>1, <2>1 DEF FreeNamed, CompIds
    <2>6. RowsKeep'
      <3> SUFFICES ASSUME NEW k \in CompIds', headers'[k].owned
                   PROVE  Listed(headers'[k], next', prev', LabelledWith(k)')
        BY DEF RowsKeep
      <3>1. LabelledWith(k)' = LabelledWith(k)
        BY <2>1 DEF LabelledWith
      <3>2. Listed(headers[k], next, prev, LabelledWith(k))
        BY <1>1, <2>1 DEF RowsKeep, CompIds
      <3> QED
        BY <2>1, <3>1, <3>2
    <2>3. LabelsOwned'
      BY <1>1, <2>1 DEF LabelsOwned, CompIds
    <2>4. ClosedUnderEdges'
      BY ZenonT(30), <1>0, <1>b, <1>1, <1>2, <2>1 DEF ClosedUnderEdges
    <2> QED
      BY <2>2, <2>3, <2>4, <2>5, <2>6 DEF CompInv
  <1>3. CASE ca # cb
    <2>1. /\ next' = [next EXCEPT ![headers[ca].tail] = headers[cb].head]
          /\ prev' = [prev EXCEPT ![headers[cb].head] = headers[ca].tail]
          /\ headers' = [headers EXCEPT ![ca].tail = headers[cb].tail,
                                        ![ca].live = @ + headers[cb].live, ![cb] = BlankHeader]
          /\ compOf' = Relabel(ca, cb)
          /\ freeHeaders' = Append(freeHeaders, cb)
      BY <1>0, <1>b, <1>3 DEF Merge
    <2>2. ca \in CompIds /\ cb \in CompIds /\ headers[ca].owned /\ headers[cb].owned
      BY <1>0, <1>b, <1>1
    <2>3. /\ Listed(headers[ca], next, prev, LabelledWith(ca))
          /\ headers[ca].head \in LabelledWith(ca) /\ headers[ca].tail \in LabelledWith(ca)
          /\ headers[ca].live \in Nat \ {0}
      BY <2>2, RowsAre
    <2>4. /\ Listed(headers[cb], next, prev, LabelledWith(cb))
          /\ headers[cb].head \in LabelledWith(cb) /\ headers[cb].tail \in LabelledWith(cb)
          /\ headers[cb].live \in Nat \ {0} /\ Range(MembersOf(cb)) = LabelledWith(cb)
      BY <2>2, RowsAre
    <2>5. /\ Len(headers) \in Nat /\ \A k \in CompIds : headers[k] \in HeaderRecords
          /\ headers \in Seq(HeaderRecords)
      BY <1>1, CompSeqs DEF CompTyped
    <2>6. \A k : LabelledWith(k) \subseteq alive
      BY DEF LabelledWith
    <2>7. /\ \A x \in Cslots : compOf'[x] = IF x \in LabelledWith(cb) THEN ca ELSE compOf[x]
          /\ compOf' \in [Cslots -> Nat \cup {NoComp}]
      <3>1. ca \in Nat
        BY <2>2, <2>5 DEF CompIds
      <3> QED
        BY <1>1, <2>1, <2>4, <3>1 DEF Relabel
    <2>8. /\ \A x \in Cslots : next'[x] = IF x = headers[ca].tail THEN headers[cb].head ELSE next[x]
          /\ \A x \in Cslots : prev'[x] = IF x = headers[cb].head THEN headers[ca].tail ELSE prev[x]
          /\ prev' \in [Cslots -> Cslots \cup {NoComp}] /\ next' \in [Cslots -> Cslots \cup {NoComp}]
      <3>1. /\ headers[ca].tail \in Cslots /\ headers[cb].head \in Cslots
        BY <1>1, <2>3, <2>4, <2>6
      <3> QED
        BY <1>1, <2>1, <3>1
    <2> DEFINE ha == [owned |-> TRUE, head |-> headers[ca].head, tail |-> headers[cb].tail,
                      live |-> headers[ca].live + headers[cb].live]
    <2>9. /\ headers' \in Seq(HeaderRecords) /\ Len(headers') = Len(headers)
          /\ headers'[cb] = BlankHeader /\ headers'[ca].owned
          /\ headers'[ca].head = headers[ca].head /\ headers'[ca].tail = headers[cb].tail
          /\ headers'[ca].live = headers[ca].live + headers[cb].live
          /\ \A k \in CompIds : k # ca /\ k # cb => headers'[k] = headers[k]
      <3>1. PICK r : r = [headers[ca] EXCEPT !.tail = headers[cb].tail, !.live = @ + headers[cb].live]
        OBVIOUS
      <3>2. headers[ca] \in HeaderRecords /\ headers[cb] \in HeaderRecords
        BY <2>2, <2>5
      <3>3. /\ r \in HeaderRecords /\ r.owned /\ r.head = headers[ca].head /\ r.tail = headers[cb].tail
            /\ r.live = headers[ca].live + headers[cb].live
        <4>1. headers[cb].tail \in Cslots \cup {NoComp} /\ headers[ca].live + headers[cb].live \in Nat
          BY <2>3, <2>4, <3>2 DEF HeaderRecords
        <4>2. PICK h : h = headers[ca]
          OBVIOUS
        <4>3. h \in HeaderRecords /\ h.owned /\ r = [h EXCEPT !.tail = headers[cb].tail, !.live = @ + headers[cb].live]
          BY <2>2, <3>1, <3>2, <4>2
        <4>4. h = [owned |-> h.owned, head |-> h.head, tail |-> h.tail, live |-> h.live]
              /\ h.owned \in BOOLEAN /\ h.head \in Cslots \cup {NoComp}
          BY <4>3 DEF HeaderRecords
        <4>5. r = [owned |-> h.owned, head |-> h.head, tail |-> headers[cb].tail, live |-> h.live + headers[cb].live]
          BY <4>3, <4>4
        <4>6. r \in HeaderRecords
          BY <4>1, <4>2, <4>4, <4>5 DEF HeaderRecords
        <4> QED
          BY <4>2, <4>3, <4>5, <4>6
      <3>4. BlankHeader \in HeaderRecords
        BY DEF BlankHeader, HeaderRecords
      <3>5. DOMAIN headers = CompIds
        BY <1>1, CompSeqs
      <3>6. headers' = [[headers EXCEPT ![ca] = r] EXCEPT ![cb] = BlankHeader]
        <4>1. headers' = [headers EXCEPT ![ca] = r, ![cb] = BlankHeader]
          BY <1>3, <2>1, <2>2, <3>1, <3>2, <3>5 DEF HeaderRecords
        <4> QED
          BY <4>1
      <3>7. PICK m : m = [headers EXCEPT ![ca] = r]
        OBVIOUS
      <3>8. m \in Seq(HeaderRecords) /\ Len(m) = Len(headers) /\ m[ca] = r
            /\ \A k \in 1..Len(headers) : k # ca => m[k] = headers[k]
        BY <2>2, <2>5, <3>3, <3>7, PutSeq DEF CompIds
      <3>9. headers' = [m EXCEPT ![cb] = BlankHeader] /\ cb \in 1..Len(m)
        BY <2>2, <3>6, <3>7, <3>8 DEF CompIds
      <3>10. headers' \in Seq(HeaderRecords) /\ Len(headers') = Len(m) /\ headers'[cb] = BlankHeader
             /\ \A k \in 1..Len(m) : k # cb => headers'[k] = m[k]
        BY <3>4, <3>8, <3>9, PutSeq
      <3>11. ca \in 1..Len(m) /\ ca # cb
        BY <1>3, <2>2, <3>8 DEF CompIds
      <3> QED
        BY <3>3, <3>8, <3>10, <3>11 DEF CompIds
    <2>10. CompIds' = CompIds
      BY <2>9 DEF CompIds
    <2>11. freeHeaders' \in Seq(Nat) /\ FreeNamed'
      <3>1. ~headers'[cb].owned
        BY <2>9 DEF BlankHeader
      <3>2. \A k \in CompIds : k # cb => headers'[k].owned = headers[k].owned
        <4> SUFFICES ASSUME NEW k \in CompIds, k # cb PROVE headers'[k].owned = headers[k].owned
          OBVIOUS
        <4>1. CASE k = ca
          <5>1. headers'[ca] \in HeaderRecords /\ headers[ca] \in HeaderRecords
            BY <2>2, <2>5, <2>9, ElementOfSeq DEF CompIds
          <5>2. headers'[ca].owned \in BOOLEAN /\ headers[ca].owned \in BOOLEAN
            BY <5>1 DEF HeaderRecords
          <5> QED
            BY <2>2, <2>9, <4>1, <5>2
        <4>2. CASE k # ca
          BY <2>9, <4>2
        <4> QED
          BY <4>1, <4>2
      <3> QED
        BY <1>1, <2>1, <2>2, <2>10, <3>1, <3>2, HeaderFreed
    <2>12. CompTyped'
      BY <1>1, <2>7, <2>8, <2>9, <2>11 DEF CompTyped
    <2>13. /\ LabelledWith(ca)' = LabelledWith(ca) \cup LabelledWith(cb)
           /\ \A k \in CompIds : k # ca /\ k # cb => LabelledWith(k)' = LabelledWith(k)
      <3>1. LabelledWith(ca)' = {x \in alive : compOf'[x] = ca}
        BY DEF LabelledWith
      <3>2. \A x \in alive : compOf'[x] = ca <=> x \in LabelledWith(ca) \/ x \in LabelledWith(cb)
        BY <1>1, <2>7 DEF LabelledWith
      <3>3. LabelledWith(ca)' = LabelledWith(ca) \cup LabelledWith(cb)
        BY <2>6, <3>1, <3>2
      <3>4. ASSUME NEW k \in CompIds, k # ca, k # cb PROVE LabelledWith(k)' = LabelledWith(k)
        <4>1. \A x \in alive : compOf'[x] = k <=> compOf[x] = k
          BY <1>1, <2>7, <3>4 DEF LabelledWith
        <4> QED
          BY <4>1 DEF LabelledWith
      <3> QED
        BY <3>3, <3>4
    <2>14. LabelledWith(ca) \cap LabelledWith(cb) = {}
      BY <1>3 DEF LabelledWith
    <2>15. RowsKeep'
      <3> SUFFICES ASSUME NEW k \in CompIds, headers'[k].owned
                   PROVE  Listed(headers'[k], next', prev', LabelledWith(k)')
        BY <2>10 DEF RowsKeep
      <3>1. k # cb
        BY <2>9 DEF BlankHeader
      <3>2. CASE k = ca
        <4>1. Listed(headers'[ca], next', prev', LabelledWith(ca) \cup LabelledWith(cb))
          <5>1. PICK A, B : A = LabelledWith(ca) /\ B = LabelledWith(cb)
            OBVIOUS
          <5>2. PICK ga, gb, h : ga = headers[ca] /\ gb = headers[cb] /\ h = headers'[ca]
            OBVIOUS
          <5>3. Listed(ga, next, prev, A) /\ Listed(gb, next, prev, B) /\ A \cap B = {}
            BY <2>3, <2>4, <2>14, <5>1, <5>2
          <5>4. /\ \A x \in Cslots : next'[x] = IF x = ga.tail THEN gb.head ELSE next[x]
                /\ \A x \in Cslots : prev'[x] = IF x = gb.head THEN ga.tail ELSE prev[x]
            BY <2>8, <5>2
          <5>5. h.head = ga.head /\ h.tail = gb.tail /\ h.live = ga.live + gb.live
            BY <2>9, <5>2
          <5>6. Listed(h, next', prev', A \cup B)
            BY <5>3, <5>4, <5>5, RowJoin
          <5> QED
            BY <5>1, <5>2, <5>6
        <4>2. LabelledWith(k)' = LabelledWith(ca) \cup LabelledWith(cb)
          BY <2>13, <3>2 DEF LabelledWith
        <4>3. PICK mem : mem = LabelledWith(ca) \cup LabelledWith(cb)
          OBVIOUS
        <4>4. Listed(headers'[k], next', prev', mem)
          BY <3>2, <4>1, <4>3
        <4>5. LabelledWith(k)' = mem
          BY <4>2, <4>3
        <4> QED
          BY <4>4, <4>5
      <3>3. CASE k # ca
        <4>1. headers'[k] = headers[k] /\ Listed(headers[k], next, prev, LabelledWith(k))
          BY <1>1, <2>9, <3>1, <3>3 DEF RowsKeep
        <4>2. \A x \in LabelledWith(k) : x \in Cslots /\ x # headers[ca].tail /\ x # headers[cb].head
          BY <1>1, <2>3, <2>4, <3>1, <3>3 DEF LabelledWith
        <4>3. \A x \in LabelledWith(k) : next'[x] = next[x] /\ prev'[x] = prev[x]
          BY <2>8, <4>2
        <4>4. Listed(headers[k], next', prev', LabelledWith(k))
          BY <4>1, <4>3, RowSame
        <4> QED
          BY <2>13, <3>1, <3>3, <4>1, <4>4
      <3> QED
        BY <3>2, <3>3
    <2>16. LabelsOwned'
      <3>1. ASSUME NEW x \in alive PROVE compOf'[x] \in CompIds /\ headers'[compOf'[x]].owned
        <4>1. CASE x \in LabelledWith(cb)
          BY <1>1, <2>2, <2>7, <2>9, <4>1
        <4>2. CASE x \notin LabelledWith(cb)
          <5>1. compOf'[x] = compOf[x] /\ compOf[x] # cb
            BY <1>1, <2>7, <4>2 DEF LabelledWith
          <5>2. compOf[x] \in CompIds /\ headers[compOf[x]].owned
            BY <1>1
          <5> QED
            BY <2>9, <5>1, <5>2
        <4> QED
          BY <4>1, <4>2
      <3>2. \A x \in Cslots \ alive : x \notin LabelledWith(cb) /\ x # a
        BY <2>6
      <3> QED
        BY ZenonT(30), <1>1, <2>7, <2>10, <3>1, <3>2 DEF LabelsOwned
    <2>17. ClosedUnderEdges'
      <3> SUFFICES ASSUME NEW x \in alive, NEW d \in Range(outs'[x])
                   PROVE  d \in alive /\ compOf'[x] = compOf'[d]
        BY DEF ClosedUnderEdges
      <3>1. CASE d \in Range(outs[x])
        <4>1. d \in alive /\ compOf[x] = compOf[d]
          BY <1>1, <3>1
        <4> QED
          BY ZenonT(30), <1>1, <2>7, <4>1 DEF LabelledWith
      <3>2. CASE d \notin Range(outs[x])
        <4>1. x = a /\ d = b
          BY <1>1, <3>2
        <4>2. a \notin LabelledWith(cb) /\ b \in LabelledWith(cb) /\ compOf[a] = ca
          BY <1>0, <1>b, <1>3 DEF LabelledWith
        <4> QED
          BY <1>1, <2>7, <4>1, <4>2
      <3> QED
        BY <3>1, <3>2
    <2> QED
      BY <2>11, <2>12, <2>15, <2>16, <2>17 DEF CompInv
  <1> QED
    BY <1>2, <1>3


\* What two sequences hold together.
LEMMA JoinedSeq ==
  ASSUME NEW T, NEW u \in Seq(T), NEW v \in Seq(T)
  PROVE  u \o v \in Seq(T) /\ Range(u \o v) \subseteq Range(u) \cup Range(v)
  <1>1. PICK r : r = u \o v
    OBVIOUS
  <1>2. PICK m, n : m = Len(u) /\ n = Len(v)
    OBVIOUS
  <1>3. r \in Seq(T) /\ Len(r) = m + n
    BY <1>1, <1>2, ConcatProperties
  <1>4. \A i \in 1..(m + n) : r[i] = IF i <= m THEN u[i] ELSE v[i - m]
    BY <1>1, <1>2, ConcatProperties
  <1>5. m \in Nat /\ n \in Nat /\ DOMAIN u = 1..m /\ DOMAIN v = 1..n
    BY <1>2, LenProperties
  <1>6. DOMAIN r = 1..(m + n)
    BY <1>3, LenProperties
  <1>7. ASSUME NEW i \in 1..(m + n) PROVE r[i] \in Range(u) \cup Range(v)
    <2>1. CASE i <= m
      <3>1. i \in DOMAIN u
        BY <1>5, <2>1
      <3>2. r[i] = u[i]
        BY <1>4, <2>1
      <3> QED
        BY <3>1, <3>2 DEF Range
    <2>2. CASE ~(i <= m)
      <3>1. i - m \in DOMAIN v
        BY <1>5, <2>2
      <3>2. r[i] = v[i - m]
        BY <1>4, <2>2
      <3> QED
        BY <3>1, <3>2 DEF Range
    <2> QED
      BY <2>1, <2>2
  <1>8. \A x \in Range(r) : x \in Range(u) \cup Range(v)
    BY <1>6, <1>7 DEF Range
  <1> QED
    BY <1>1, <1>3, <1>8

\* A part of a sequence.
LEMMA PartOfSeq ==
  ASSUME NEW T, NEW q \in Seq(T), NEW a \in Nat, 0 < a, NEW b \in Nat, b <= Len(q), a <= b + 1
  PROVE  SubSeq(q, a, b) \in Seq(T) /\ Range(SubSeq(q, a, b)) \subseteq Range(q)
  <1>1. PICK n : n = Len(q)
    OBVIOUS
  <1>2. n \in Nat /\ DOMAIN q = 1..n /\ \A i \in 1..n : q[i] \in T
    BY <1>1, LenProperties, ElementOfSeq
  <1>3. PICK r : r = SubSeq(q, a, b)
    OBVIOUS
  <1>4. PICK m : m = b - a + 1
    OBVIOUS
  <1>5. m \in Nat /\ \A i \in 1..m : i + a - 1 \in 1..n
    BY <1>1, <1>2, <1>4
  <1>6. r = [i \in 1..m |-> q[i + a - 1]]
    BY <1>3, <1>4
  <1>7. r = [i \in 1..m |-> r[i]] /\ \A i \in 1..m : r[i] = q[i + a - 1]
    BY <1>6
  <1>8. \A i \in 1..m : r[i] \in T /\ r[i] \in Range(q)
    BY <1>2, <1>5, <1>7 DEF Range
  <1>9. r \in Seq(T) /\ DOMAIN r = 1..m
    BY <1>5, <1>6, <1>7, <1>8, MadeSeq
  <1>10. \A x \in Range(r) : x \in Range(q)
    BY <1>8, <1>9 DEF Range
  <1> QED
    BY <1>3, <1>9, <1>10

\* A sequence without its k-th entry.
LEMMA ErasedSeq ==
  ASSUME NEW T, NEW q \in Seq(T), NEW k \in 1..Len(q)
  PROVE  /\ SubSeq(q, 1, k - 1) \o SubSeq(q, k + 1, Len(q)) \in Seq(T)
         /\ Range(SubSeq(q, 1, k - 1) \o SubSeq(q, k + 1, Len(q))) \subseteq Range(q)
  <1>1. Len(q) \in Nat
    BY LenProperties
  <1>2. PICK a, b, n : a = k - 1 /\ b = k + 1 /\ n = Len(q)
    OBVIOUS
  <1>3. a \in Nat /\ b \in Nat /\ n \in Nat /\ 0 < b /\ a <= n /\ b <= n + 1 /\ 1 <= a + 1
    BY <1>1, <1>2
  <1>4. SubSeq(q, 1, a) \in Seq(T) /\ Range(SubSeq(q, 1, a)) \subseteq Range(q)
    <2>1. a <= Len(q) /\ 1 \in Nat /\ 0 < 1
      BY <1>2, <1>3
    <2> QED
      BY <1>3, <2>1, PartOfSeq
  <1>5. SubSeq(q, b, n) \in Seq(T) /\ Range(SubSeq(q, b, n)) \subseteq Range(q)
    <2>1. n <= Len(q)
      BY <1>2, <1>3
    <2> QED
      BY <1>3, <2>1, PartOfSeq
  <1>6. PICK u, v : u = SubSeq(q, 1, a) /\ v = SubSeq(q, b, n)
    OBVIOUS
  <1>7. u \o v \in Seq(T) /\ Range(u \o v) \subseteq Range(u) \cup Range(v)
    BY <1>4, <1>5, <1>6, JoinedSeq
  <1>8. Range(u \o v) \subseteq Range(q)
    BY <1>4, <1>5, <1>6, <1>7
  <1> QED
    BY <1>2, <1>6, <1>7, <1>8

\* Fewer edges, and the components as they were.
LEMMA FewerEdgesInv ==
  ASSUME CompInv, UNCHANGED <<compOf, prev, next, headers, freeHeaders, alive>>,
         outs' \in [Cslots -> Seq(Cslots)],
         \A x \in Cslots : Range(outs'[x]) \subseteq Range(outs[x]),
         \A x \in Cslots \ alive : outs'[x] = outs[x]
  PROVE  CompInv'
  <1>1. /\ compOf' = compOf /\ prev' = prev /\ next' = next /\ headers' = headers
        /\ freeHeaders' = freeHeaders /\ alive' = alive
    OBVIOUS
  <1>2. /\ alive \subseteq Cslots /\ CompTyped /\ RowsKeep /\ FreeNamed /\ LabelsOwned
        /\ \A x \in alive : \A d \in Range(outs[x]) : d \in alive /\ compOf[x] = compOf[d]
    BY CompFacts
  <1>3. CompTyped'
    BY <1>1, <1>2 DEF CompTyped
  <1>4. RowsKeep'
    <2> SUFFICES ASSUME NEW k \in CompIds', headers'[k].owned
                 PROVE  Listed(headers'[k], next', prev', LabelledWith(k)')
      BY DEF RowsKeep
    <2>1. LabelledWith(k)' = LabelledWith(k)
      BY <1>1 DEF LabelledWith
    <2>2. Listed(headers[k], next, prev, LabelledWith(k))
      BY <1>1, <1>2 DEF RowsKeep, CompIds
    <2> QED
      BY <1>1, <2>1, <2>2
  <1>5. FreeNamed'
    BY <1>1, <1>2 DEF FreeNamed, CompIds
  <1>6. LabelsOwned'
    BY <1>1, <1>2 DEF LabelsOwned, CompIds
  <1>7. ClosedUnderEdges'
    BY <1>1, <1>2 DEF ClosedUnderEdges
  <1> QED
    BY <1>3, <1>4, <1>5, <1>6, <1>7 DEF CompInv

\* removeOut
LEMMA RemoveEdgeInv ==
  ASSUME CompInv, NEW s \in Cslots, NEW d \in Cslots, RemoveEdge(s, d)
  PROVE  CompInv'
  <1>1. PICK k : k = CHOOSE j \in 1..Len(outs[s]) : outs[s][j] = d
    OBVIOUS
  <1>2. /\ s \in alive /\ d \in Range(outs[s])
        /\ outs' = [outs EXCEPT ![s] = SubSeq(@, 1, k - 1) \o SubSeq(@, k + 1, Len(@))]
        /\ UNCHANGED <<compOf, prev, next, headers, freeHeaders, alive>>
    BY <1>1 DEF RemoveEdge
  <1>3. outs \in [Cslots -> Seq(Cslots)]
    BY CompFacts
  <1>4. outs[s] \in Seq(Cslots)
    BY <1>3
  <1>5. k \in 1..Len(outs[s])
    <2>1. DOMAIN outs[s] = 1..Len(outs[s])
      BY <1>4, LenProperties
    <2>2. \E j \in 1..Len(outs[s]) : outs[s][j] = d
      BY <1>2, <2>1 DEF Range
    <2> QED
      BY <1>1, <2>2
  <1>6. PICK r : r = SubSeq(outs[s], 1, k - 1) \o SubSeq(outs[s], k + 1, Len(outs[s]))
    OBVIOUS
  <1>7. r \in Seq(Cslots) /\ Range(r) \subseteq Range(outs[s])
    BY <1>4, <1>5, <1>6, ErasedSeq
  <1>8. outs' = [outs EXCEPT ![s] = r]
    BY <1>2, <1>6
  <1>9. outs' \in [Cslots -> Seq(Cslots)] /\ outs'[s] = r /\ \A x \in Cslots : x # s => outs'[x] = outs[x]
    BY <1>3, <1>7, <1>8
  <1>10. \A x \in Cslots : Range(outs'[x]) \subseteq Range(outs[x])
    BY <1>7, <1>9
  <1>11. \A x \in Cslots \ alive : outs'[x] = outs[x]
    BY <1>2, <1>9
  <1> QED
    BY <1>2, <1>9, <1>10, <1>11, FewerEdgesInv

\* addOut and merge
LEMMA AddEdgeInv ==
  ASSUME CompInv, NEW s \in Cslots, NEW d \in Cslots, AddEdge(s, d)
  PROVE  CompInv'
  <1>1. s \in alive /\ d \in alive /\ outs' = [outs EXCEPT ![s] = Append(@, d)] /\ Merge(s, d) /\ alive' = alive
    BY DEF AddEdge
  <1>2. outs \in [Cslots -> Seq(Cslots)]
    BY CompFacts
  <1>3. PICK q : q = outs[s]
    OBVIOUS
  <1>4. PICK r : r = Append(q, d)
    OBVIOUS
  <1>5. q \in Seq(Cslots)
    BY <1>2, <1>3
  <1>6. /\ r \in Seq(Cslots) /\ Len(r) = Len(q) + 1
        /\ r[Len(q) + 1] = d /\ \A k \in 1..Len(q) : r[k] = q[k]
    BY <1>4, <1>5, AppendProperties
  <1>7. \A x \in Range(r) : x \in Range(q) \/ x = d
    <2>1. DOMAIN r = 1..(Len(q) + 1) /\ DOMAIN q = 1..Len(q) /\ Len(q) \in Nat
      BY <1>5, <1>6, LenProperties
    <2>2. \A k \in 1..(Len(q) + 1) : k \in 1..Len(q) \/ k = Len(q) + 1
      BY <2>1
    <2> QED
      BY <1>6, <2>1, <2>2 DEF Range
  <1>8. outs' \in [Cslots -> Seq(Cslots)] /\ outs'[s] = r /\ \A x \in Cslots : x # s => outs'[x] = outs[x]
    BY <1>1, <1>2, <1>3, <1>4, <1>6
  <1> QED
    BY <1>1, <1>3, <1>7, <1>8, MergeInv

\* The neighbours of a slot belong to its row.
LEMMA RowNeighbours ==
  ASSUME NEW h, NEW nx, NEW pv, NEW mem, Listed(h, nx, pv, mem), NEW x \in mem
  PROVE  /\ nx[x] \in mem \cup {NoComp} /\ pv[x] \in mem \cup {NoComp}
         /\ h.live = 1 => mem = {x}
         /\ h.live \in Nat \ {0}
  <1>1. PICK n \in Nat \ {0} : \E s :
              /\ Chained(n, s, nx, pv) /\ h.head = s[1] /\ h.tail = s[n] /\ h.live = n
              /\ \A y : y \in mem <=> \E k \in 1..n : s[k] = y
    BY DEF Listed
  <1>2. PICK s : /\ Chained(n, s, nx, pv) /\ h.head = s[1] /\ h.tail = s[n] /\ h.live = n
                 /\ \A y : y \in mem <=> \E k \in 1..n : s[k] = y
    BY <1>1
  <1>3. PICK k \in 1..n : s[k] = x
    BY <1>2
  <1>4. nx[s[k]] = (IF k = n THEN NoComp ELSE s[k + 1]) /\ pv[s[k]] = (IF k = 1 THEN NoComp ELSE s[k - 1])
    BY <1>2 DEF Chained
  <1>5. (k # n => k + 1 \in 1..n) /\ (k # 1 => k - 1 \in 1..n)
    OBVIOUS
  <1>6. (k # n => s[k + 1] \in mem) /\ (k # 1 => s[k - 1] \in mem)
    BY <1>2, <1>5
  <1>7. nx[x] \in mem \cup {NoComp} /\ pv[x] \in mem \cup {NoComp}
    BY <1>3, <1>4, <1>6
  <1>8. ASSUME h.live = 1 PROVE mem = {x}
    <2>1. n = 1 /\ k = 1
      BY <1>2, <1>8
    <2>2. \A j \in 1..n : j = 1
      BY <2>1
    <2>3. \A y : y \in mem <=> y = x
      BY <1>2, <1>3, <2>1, <2>2
    <2> QED
      BY <2>3
  <1> QED
    BY <1>2, <1>7, <1>8


\* unlink and freeHeader: what happens to the header of the slot's component.
LEMMA UnlinkedIs ==
  ASSUME CompInv, NEW s \in alive, Unlink(s), NEW c, c = compOf[s]
  PROVE  /\ c \in CompIds /\ headers[c].owned /\ s \in LabelledWith(c)
         /\ headers' \in Seq(HeaderRecords) /\ CompIds' = CompIds
         /\ \A k \in CompIds : k # c => headers'[k] = headers[k]
         /\ IF headers[c].live = 1
            THEN headers'[c] = BlankHeader /\ freeHeaders' = Append(freeHeaders, c)
            ELSE headers'[c] = UnlinkedFrom(headers[c], prev[s], next[s]) /\ freeHeaders' = freeHeaders
         /\ headers[c].live # 1 => headers'[c].owned
  <1>1. /\ alive \subseteq Cslots /\ CompTyped /\ headers \in Seq(HeaderRecords)
        /\ prev \in [Cslots -> Cslots \cup {NoComp}] /\ next \in [Cslots -> Cslots \cup {NoComp}]
        /\ c \in CompIds /\ headers[c].owned /\ \A k \in CompIds : headers[k] \in HeaderRecords
    BY CompFacts
  <1>2. s \in LabelledWith(c)
    BY DEF LabelledWith
  <1>3. headers[c].live \in Nat \ {0}
    BY <1>1, RowsAre
  <1>4. PICK p, q, h : p = prev[s] /\ q = next[s] /\ h = headers[c]
    OBVIOUS
  <1>5. PICK g : g = UnlinkedFrom(h, p, q)
    OBVIOUS
  <1>6. /\ headers' = [headers EXCEPT ![c] = IF g.live = 0 THEN BlankHeader ELSE g]
        /\ freeHeaders' = IF g.live = 0 THEN Append(freeHeaders, c) ELSE freeHeaders
    BY <1>4, <1>5 DEF Unlink
  <1>7. /\ h \in HeaderRecords /\ h.owned /\ p \in Cslots \cup {NoComp} /\ q \in Cslots \cup {NoComp}
        /\ h.live \in Nat \ {0}
    BY <1>1, <1>3, <1>4
  <1>8. g = [owned |-> h.owned, head |-> IF p = NoComp THEN q ELSE h.head,
             tail |-> IF q = NoComp THEN p ELSE h.tail, live |-> h.live - 1]
    <2>1. h = [owned |-> h.owned, head |-> h.head, tail |-> h.tail, live |-> h.live]
      BY <1>7 DEF HeaderRecords
    <2> QED
      BY <1>5, <2>1 DEF UnlinkedFrom
  <1>9. g \in HeaderRecords /\ g.live = h.live - 1 /\ g.owned
    BY <1>7, <1>8 DEF HeaderRecords
  <1>10. g.live = 0 <=> h.live = 1
    BY <1>7, <1>9
  <1>11. PICK v : v = IF g.live = 0 THEN BlankHeader ELSE g
    OBVIOUS
  <1>12. v \in HeaderRecords
    BY <1>9, <1>11 DEF BlankHeader, HeaderRecords
  <1>13. headers' = [headers EXCEPT ![c] = v]
    BY <1>6, <1>11
  <1>14. c \in 1..Len(headers)
    BY <1>1 DEF CompIds
  <1>15. /\ headers' \in Seq(HeaderRecords) /\ Len(headers') = Len(headers) /\ headers'[c] = v
         /\ \A k \in 1..Len(headers) : k # c => headers'[k] = headers[k]
    BY <1>1, <1>12, <1>13, <1>14, PutSeq
  <1>16. CompIds' = CompIds
    BY <1>15 DEF CompIds
  <1>17. \A k \in CompIds : k # c => headers'[k] = headers[k]
    BY <1>15 DEF CompIds
  <1>18. CASE h.live = 1
    BY <1>1, <1>2, <1>4, <1>6, <1>10, <1>11, <1>15, <1>16, <1>17, <1>18
  <1>19. CASE h.live # 1
    BY <1>1, <1>2, <1>4, <1>5, <1>6, <1>9, <1>10, <1>11, <1>15, <1>16, <1>17, <1>19
  <1> QED
    BY <1>18, <1>19

\* unlink: one slot leaves its row.
LEMMA UnlinkInv ==
  ASSUME CompInv, NEW s \in Cslots, Unlink(s)
  PROVE  CompInv'
  <1>1. /\ s \in alive /\ \A q \in alive \ {s} : s \notin Range(outs[q])
        /\ compOf' = [compOf EXCEPT ![s] = NoComp]
        /\ outs' = [outs EXCEPT ![s] = << >>] /\ alive' = alive \ {s}
    BY DEF Unlink
  <1>2. PICK c : c = compOf[s]
    OBVIOUS
  <1>3. PICK p, n : p = prev[s] /\ n = next[s]
    OBVIOUS
  <1>4. /\ next' = [m \in Cslots |-> IF m = s THEN NoComp ELSE IF m = p THEN n ELSE next[m]]
        /\ prev' = [m \in Cslots |-> IF m = s THEN NoComp ELSE IF m = n THEN p ELSE prev[m]]
    BY <1>3 DEF Unlink
  <1>5. /\ c \in CompIds /\ headers[c].owned /\ s \in LabelledWith(c)
        /\ headers' \in Seq(HeaderRecords) /\ CompIds' = CompIds
        /\ \A k \in CompIds : k # c => headers'[k] = headers[k]
        /\ IF headers[c].live = 1
           THEN headers'[c] = BlankHeader /\ freeHeaders' = Append(freeHeaders, c)
           ELSE headers'[c] = UnlinkedFrom(headers[c], p, n) /\ freeHeaders' = freeHeaders
        /\ headers[c].live # 1 => headers'[c].owned
    BY <1>1, <1>2, <1>3, UnlinkedIs
  <1>6. /\ alive \subseteq Cslots /\ compOf \in [Cslots -> Nat \cup {NoComp}]
        /\ prev \in [Cslots -> Cslots \cup {NoComp}] /\ next \in [Cslots -> Cslots \cup {NoComp}]
        /\ outs \in [Cslots -> Seq(Cslots)]
        /\ \A x \in alive : compOf[x] \in CompIds /\ headers[compOf[x]].owned
        /\ \A x \in Cslots \ alive : compOf[x] = NoComp /\ outs[x] = << >>
        /\ \A x \in alive : \A d \in Range(outs[x]) : d \in alive /\ compOf[x] = compOf[d]
        /\ CompTyped /\ RowsKeep /\ FreeNamed
    BY CompFacts
  <1>7. Listed(headers[c], next, prev, LabelledWith(c))
    BY <1>5, RowsAre
  <1>8. /\ n \in LabelledWith(c) \cup {NoComp} /\ p \in LabelledWith(c) \cup {NoComp}
        /\ headers[c].live = 1 => LabelledWith(c) = {s}
    BY <1>3, <1>5, <1>7, RowNeighbours
  <1>9. compOf'[s] = NoComp /\ outs'[s] = << >>
        /\ \A x \in Cslots : x # s => compOf'[x] = compOf[x] /\ outs'[x] = outs[x]
    BY <1>1, <1>6
  <1>10. freeHeaders' \in Seq(Nat) /\ FreeNamed'
    <2>1. CASE headers[c].live = 1
      <3>1. ~headers'[c].owned /\ freeHeaders' = Append(freeHeaders, c)
        BY <1>5, <2>1 DEF BlankHeader
      <3>2. \A k \in CompIds : k # c => headers'[k].owned = headers[k].owned
        BY <1>5
      <3> QED
        BY <1>5, <1>6, <3>1, <3>2, HeaderFreed
    <2>2. CASE headers[c].live # 1
      <3>1. freeHeaders' = freeHeaders /\ headers'[c].owned
        BY <1>5, <2>2
      <3>2. \A k \in CompIds : headers'[k].owned <=> headers[k].owned
        BY <1>5, <3>1
      <3>3. freeHeaders' \in Seq(Nat)
        BY <1>6, <3>1 DEF CompTyped
      <3> QED
        BY <1>5, <1>6, <3>1, <3>2, <3>3 DEF FreeNamed
    <2> QED
      BY <2>1, <2>2
  <1>11. CompTyped'
    <2>1. n \in Cslots \cup {NoComp} /\ p \in Cslots \cup {NoComp}
      BY <1>3, <1>6
    <2>2. next' \in [Cslots -> Cslots \cup {NoComp}] /\ prev' \in [Cslots -> Cslots \cup {NoComp}]
      BY <1>4, <1>6, <2>1
    <2>3. compOf' \in [Cslots -> Nat \cup {NoComp}]
      BY <1>1, <1>6
    <2>4. << >> \in Seq(Cslots)
      OBVIOUS
    <2>5. outs' \in [Cslots -> Seq(Cslots)]
      BY <1>1, <1>6, <2>4
    <2>6. alive' \subseteq Cslots
      BY <1>1, <1>6
    <2> QED
      BY <1>5, <1>10, <2>2, <2>3, <2>5, <2>6 DEF CompTyped
  <1>12. NoComp \notin Cslots
    BY ComponentsAssumption
  <1>13. RowsKeep'
    <2> SUFFICES ASSUME NEW k \in CompIds, headers'[k].owned, NEW mem, mem = LabelledWith(k)'
                 PROVE  Listed(headers'[k], next', prev', mem)
      BY <1>5 DEF RowsKeep
    <2>1. mem = {x \in alive' : compOf'[x] = k}
      BY DEF LabelledWith
    <2>2. mem = LabelledWith(k) \ {s}
      BY <1>1, <1>6, <1>9, <2>1 DEF LabelledWith
    <2>3. CASE k = c
      <3>1. headers[c].live # 1
        BY <1>5, <2>3 DEF BlankHeader
      <3>2. PICK ho, hn, old : ho = headers[c] /\ hn = headers'[c] /\ old = LabelledWith(c)
        OBVIOUS
      <3>3. ho \in HeaderRecords
        BY <1>5, <1>6, <3>2, CompSeqs
      <3>4. hn = UnlinkedFrom(ho, p, n)
        BY <1>5, <3>1, <3>2
      <3>5. /\ hn.head = IF p = NoComp THEN n ELSE ho.head
            /\ hn.tail = IF n = NoComp THEN p ELSE ho.tail
            /\ hn.live = ho.live - 1
        <4>1. ho = [owned |-> ho.owned, head |-> ho.head, tail |-> ho.tail, live |-> ho.live]
          BY <3>3 DEF HeaderRecords
        <4>2. hn = [owned |-> ho.owned, head |-> IF p = NoComp THEN n ELSE ho.head,
                    tail |-> IF n = NoComp THEN p ELSE ho.tail, live |-> ho.live - 1]
          BY <3>4, <4>1 DEF UnlinkedFrom
        <4>3. PICK a, b : a = (IF p = NoComp THEN n ELSE ho.head) /\ b = (IF n = NoComp THEN p ELSE ho.tail)
          OBVIOUS
        <4>4. hn = [owned |-> ho.owned, head |-> a, tail |-> b, live |-> ho.live - 1]
          BY <4>2, <4>3
        <4>5. hn.head = a /\ hn.tail = b /\ hn.live = ho.live - 1
          BY <4>4
        <4> QED
          BY <4>3, <4>5
      <3>6. /\ \A y \in Cslots : y # s => next'[y] = IF y = p THEN n ELSE next[y]
            /\ \A y \in Cslots : y # s => prev'[y] = IF y = n THEN p ELSE prev[y]
        BY <1>4
      <3>7. Listed(ho, next, prev, old) /\ s \in old /\ ho.live # 1
        BY <1>5, <1>7, <3>1, <3>2
      <3>8. Listed(hn, next', prev', old \ {s})
        <4>1. p = prev[s] /\ n = next[s]
          BY <1>3
        <4> QED
          BY <3>5, <3>6, <3>7, <4>1, RowWithout
      <3> QED
        BY <2>2, <2>3, <3>2, <3>8
    <2>4. CASE k # c
      <3>1. headers'[k] = headers[k] /\ headers[k].owned
        BY <1>5, <2>4
      <3>2. s \notin LabelledWith(k)
        BY <1>2, <2>4 DEF LabelledWith
      <3>3. mem = LabelledWith(k)
        BY <2>2, <3>2
      <3>4. Listed(headers[k], next, prev, mem)
        BY <1>6, <3>1, <3>3 DEF RowsKeep
      <3>5. \A x \in mem : x \in Cslots /\ x # s /\ x # p /\ x # n
        <4>1. \A x \in mem : x \in alive /\ compOf[x] = k
          BY <3>3 DEF LabelledWith
        <4>2. \A x \in LabelledWith(c) : compOf[x] = c
          BY DEF LabelledWith
        <4> QED
          BY <1>6, <1>8, <1>12, <2>4, <3>2, <3>3, <4>1, <4>2
      <3>6. \A x \in mem : next'[x] = next[x] /\ prev'[x] = prev[x]
        BY <1>4, <3>5
      <3> QED
        BY <3>1, <3>4, <3>6, RowSame
    <2> QED
      BY <2>3, <2>4
  <1>14. LabelsOwned'
    <2>1. ASSUME NEW x \in alive' PROVE compOf'[x] \in CompIds' /\ headers'[compOf'[x]].owned
      <3>1. x \in alive /\ x # s /\ compOf'[x] = compOf[x] /\ compOf[x] \in CompIds /\ headers[compOf[x]].owned
        BY <1>1, <1>6, <1>9
      <3>2. CASE compOf[x] = c
        <4>1. x \in LabelledWith(c)
          BY <3>1, <3>2 DEF LabelledWith
        <4>2. headers[c].live # 1
          BY <1>8, <3>1, <4>1
        <4> QED
          BY <1>5, <3>1, <3>2, <4>2
      <3>3. CASE compOf[x] # c
        BY <1>5, <3>1, <3>3
      <3> QED
        BY <3>2, <3>3
    <2>2. \A x \in Cslots \ alive' : compOf'[x] = NoComp /\ outs'[x] = << >>
      BY <1>1, <1>6, <1>9
    <2> QED
      BY <2>1, <2>2 DEF LabelsOwned
  <1>15. ClosedUnderEdges'
    <2> SUFFICES ASSUME NEW x \in alive', NEW d \in Range(outs'[x])
                 PROVE  d \in alive' /\ compOf'[x] = compOf'[d]
      BY DEF ClosedUnderEdges
    <2>1. x \in alive /\ x # s /\ d \in Range(outs[x])
      BY <1>1, <1>6, <1>9
    <2>2. d \in alive /\ compOf[x] = compOf[d] /\ d # s
      BY <1>1, <1>6, <2>1
    <2> QED
      BY <1>1, <1>6, <1>9, <2>1, <2>2
  <1> QED
    BY <1>10, <1>11, <1>13, <1>14, <1>15 DEF CompInv

\* promoteComponent: a whole row leaves.
LEMMA PromoteInv ==
  ASSUME CompInv, NEW s \in Cslots, PromoteComponent(s)
  PROVE  CompInv'
  <1>1. PICK c : c = compOf[s]
    OBVIOUS
  <1>2. PICK gone : gone = LabelledWith(c)
    OBVIOUS
  <1>3. /\ alive \subseteq Cslots /\ compOf \in [Cslots -> Nat \cup {NoComp}]
        /\ prev \in [Cslots -> Cslots \cup {NoComp}] /\ next \in [Cslots -> Cslots \cup {NoComp}]
        /\ outs \in [Cslots -> Seq(Cslots)] /\ headers \in Seq(HeaderRecords)
        /\ \A x \in alive : compOf[x] \in CompIds /\ headers[compOf[x]].owned
        /\ \A x \in Cslots \ alive : compOf[x] = NoComp /\ outs[x] = << >>
        /\ \A x \in alive : \A d \in Range(outs[x]) : d \in alive /\ compOf[x] = compOf[d]
        /\ CompTyped /\ RowsKeep /\ FreeNamed
    BY CompFacts
  <1>4. s \in alive /\ c \in CompIds /\ headers[c].owned
    BY <1>1, <1>3 DEF PromoteComponent
  <1>5. Promoted(s) = gone
    BY <1>1, <1>2, <1>4, RowsAre DEF Promoted
  <1>6. /\ compOf' = [m \in Cslots |-> IF m \in gone THEN NoComp ELSE compOf[m]]
        /\ prev' = [m \in Cslots |-> IF m \in gone THEN NoComp ELSE prev[m]]
        /\ next' = [m \in Cslots |-> IF m \in gone THEN NoComp ELSE next[m]]
        /\ headers' = [headers EXCEPT ![c] = BlankHeader] /\ freeHeaders' = Append(freeHeaders, c)
        /\ outs' = [m \in Cslots |-> IF m \in gone THEN << >> ELSE outs[m]]
        /\ alive' = alive \ gone
    BY <1>1, <1>5 DEF PromoteComponent
  <1>7. BlankHeader \in HeaderRecords /\ ~BlankHeader.owned
    BY DEF BlankHeader, HeaderRecords
  <1>8. c \in 1..Len(headers)
    BY <1>4 DEF CompIds
  <1>9. /\ headers' \in Seq(HeaderRecords) /\ Len(headers') = Len(headers) /\ headers'[c] = BlankHeader
        /\ \A k \in 1..Len(headers) : k # c => headers'[k] = headers[k]
    BY <1>3, <1>6, <1>7, <1>8, PutSeq
  <1>10. CompIds' = CompIds /\ \A k \in CompIds : k # c => headers'[k] = headers[k]
    BY <1>9 DEF CompIds
  <1>11. freeHeaders' \in Seq(Nat) /\ FreeNamed'
    <2>1. ~headers'[c].owned
      BY <1>7, <1>9
    <2>2. \A k \in CompIds : k # c => headers'[k].owned = headers[k].owned
      BY <1>10
    <2> QED
      BY <1>3, <1>4, <1>6, <1>10, <2>1, <2>2, HeaderFreed
  <1>12. CompTyped'
    <2>1. << >> \in Seq(Cslots)
      OBVIOUS
    <2>2. compOf' \in [Cslots -> Nat \cup {NoComp}]
      BY <1>3, <1>6
    <2>3. prev' \in [Cslots -> Cslots \cup {NoComp}] /\ next' \in [Cslots -> Cslots \cup {NoComp}]
      BY <1>3, <1>6
    <2>4. outs' \in [Cslots -> Seq(Cslots)] /\ alive' \subseteq Cslots
      BY <1>3, <1>6, <2>1
    <2> QED
      BY <1>9, <1>11, <2>2, <2>3, <2>4 DEF CompTyped
  <1>13. \A x : x \in gone <=> x \in alive /\ compOf[x] = c
    BY <1>2 DEF LabelledWith
  <1>14. \A x \in Cslots \ gone :
            compOf'[x] = compOf[x] /\ prev'[x] = prev[x] /\ next'[x] = next[x] /\ outs'[x] = outs[x]
    BY <1>6
  <1>15. RowsKeep'
    <2> SUFFICES ASSUME NEW k \in CompIds, headers'[k].owned, NEW mem, mem = LabelledWith(k)'
                 PROVE  Listed(headers'[k], next', prev', mem)
      BY <1>10 DEF RowsKeep
    <2>1. mem = {x \in alive' : compOf'[x] = k}
      BY DEF LabelledWith
    <2>2. k # c
      BY <1>7, <1>9
    <2>3. headers'[k] = headers[k] /\ headers[k].owned
      BY <1>10, <2>2
    <2>4. mem = {x \in alive : compOf[x] = k}
      BY <1>3, <1>6, <1>13, <1>14, <2>1, <2>2
    <2>5. Listed(headers[k], next, prev, mem)
      <3>1. Listed(headers[k], next, prev, LabelledWith(k))
        BY <1>3, <2>3 DEF RowsKeep
      <3>2. mem = LabelledWith(k)
        BY <2>4 DEF LabelledWith
      <3> QED
        BY <3>1, <3>2
    <2>6. \A x \in mem : x \in Cslots \ gone
      BY <1>3, <1>13, <2>2, <2>4
    <2>7. \A x \in mem : next'[x] = next[x] /\ prev'[x] = prev[x]
      BY <1>14, <2>6
    <2> QED
      BY <2>3, <2>5, <2>7, RowSame
  <1>16. LabelsOwned'
    <2>1. ASSUME NEW x \in alive' PROVE compOf'[x] \in CompIds' /\ headers'[compOf'[x]].owned
      <3>1. x \in alive /\ x \in Cslots \ gone /\ compOf[x] # c
        BY <1>3, <1>6, <1>13
      <3> QED
        BY <1>3, <1>10, <1>14, <3>1
    <2>2. \A x \in Cslots \ alive' : compOf'[x] = NoComp /\ outs'[x] = << >>
      BY <1>3, <1>6, <1>14
    <2> QED
      BY <2>1, <2>2 DEF LabelsOwned
  <1>17. ClosedUnderEdges'
    <2> SUFFICES ASSUME NEW x \in alive', NEW d \in Range(outs'[x])
                 PROVE  d \in alive' /\ compOf'[x] = compOf'[d]
      BY DEF ClosedUnderEdges
    <2>1. x \in alive /\ x \in Cslots \ gone /\ compOf[x] # c /\ d \in Range(outs[x])
      BY <1>3, <1>6, <1>13, <1>14
    <2>2. d \in alive /\ compOf[x] = compOf[d] /\ d \in Cslots \ gone
      BY <1>3, <1>13, <2>1
    <2> QED
      BY <1>6, <1>14, <2>1, <2>2
  <1> QED
    BY <1>11, <1>12, <1>15, <1>16, <1>17 DEF CompInv

-----------------------------------------------------------------------------
(* The components: what the invariant shows *)

\* The invariant gives the property.
LEMMA CompInvSound ==
  CompInv => ComponentsAreSound
  <1> SUFFICES ASSUME CompInv PROVE ListsExact /\ ClosedUnderEdges
    BY DEF ComponentsAreSound
  <1>1. CompTyped /\ RowsKeep /\ FreeNamed /\ LabelsOwned /\ ClosedUnderEdges
    BY DEF CompInv
  <1>2. ASSUME NEW c \in CompIds, headers[c].owned, NEW list, list = MembersOf(c)
        PROVE  /\ Range(list) = {s \in alive : compOf[s] = c}
               /\ Len(list) = headers[c].live /\ list[Len(list)] = headers[c].tail
               /\ \A k \in 2..Len(list) : prev[list[k]] = list[k - 1]
    <2>1. Listed(headers[c], next, prev, LabelledWith(c))
      BY <1>1, <1>2 DEF RowsKeep
    <2>2. PICK n \in Nat \ {0} : \E s :
              /\ Chained(n, s, next, prev) /\ headers[c].head = s[1] /\ headers[c].tail = s[n]
              /\ headers[c].live = n /\ \A x : x \in LabelledWith(c) <=> \E k \in 1..n : s[k] = x
      BY <2>1 DEF Listed
    <2>3. PICK s : /\ Chained(n, s, next, prev) /\ headers[c].head = s[1] /\ headers[c].tail = s[n]
                   /\ headers[c].live = n /\ \A x : x \in LabelledWith(c) <=> \E k \in 1..n : s[k] = x
      BY <2>2
    <2>4. list = s
      BY <1>2, <2>3, RowIs
    <2>5. s \in [1..n -> Cslots] /\ \A k \in 1..n : prev[s[k]] = IF k = 1 THEN NoComp ELSE s[k - 1]
      BY <2>3 DEF Chained
    <2>6. s = [k \in 1..n |-> s[k]] /\ \A k \in 1..n : s[k] \in Cslots
      BY <2>5
    <2>7. Len(s) = n
      BY <2>6, MadeSeq
    <2>8. Range(s) = {x \in alive : compOf[x] = c}
      BY <2>3, <2>5 DEF Range, LabelledWith
    <2>9. \A k \in 2..n : k \in 1..n /\ k # 1
      OBVIOUS
    <2> QED
      BY <2>3, <2>4, <2>5, <2>7, <2>8, <2>9
  <1>3. ASSUME NEW c \in CompIds, ~headers[c].owned
        PROVE  Cardinality({k \in 1..Len(freeHeaders) : freeHeaders[k] = c}) = 1
    <2>1. PICK l \in 1..Len(freeHeaders) : freeHeaders[l] = c
      BY <1>1, <1>3 DEF FreeNamed
    <2>2. {k \in 1..Len(freeHeaders) : freeHeaders[k] = c} = {l}
      BY <1>1, <2>1 DEF FreeNamed
    <2> QED
      BY <2>2, FS_Singleton
  <1>4. \A s \in Cslots \ alive : compOf[s] = NoComp
    BY <1>1 DEF LabelsOwned
  <1> QED
    BY <1>1, <1>2, <1>3, <1>4 DEF ListsExact, CompIds

\* Whatever edges come and go, a component's list holds exactly its slots and no edge
\* leaves a component (LocalComponents).
THEOREM ComponentsStayClosed == ComponentsSpec => []ComponentsAreSound
  <1>1. ComponentsInit => CompInv
    BY CompInitInv
  <1>2. CompInv /\ [ComponentsNext]_compVars => CompInv'
    <2> SUFFICES ASSUME CompInv, [ComponentsNext]_compVars PROVE CompInv'
      OBVIOUS
    <2>1. CASE UNCHANGED compVars
      <3>1. outs \in [Cslots -> Seq(Cslots)]
        BY CompFacts
      <3> QED
        BY <2>1, <3>1, FewerEdgesInv DEF compVars
    <2>2. ASSUME NEW s \in Cslots, AddLocal(s) PROVE CompInv'
      BY <2>2, AddLocalInv
    <2>3. ASSUME NEW s \in Cslots, Unlink(s) PROVE CompInv'
      BY <2>3, UnlinkInv
    <2>4. ASSUME NEW s \in Cslots, PromoteComponent(s) PROVE CompInv'
      BY <2>4, PromoteInv
    <2>5. ASSUME NEW s \in Cslots, NEW d \in Cslots, AddEdge(s, d) PROVE CompInv'
      BY <2>5, AddEdgeInv
    <2>6. ASSUME NEW s \in Cslots, NEW d \in Cslots, RemoveEdge(s, d) PROVE CompInv'
      BY <2>6, RemoveEdgeInv
    <2> QED
      BY <2>1, <2>2, <2>3, <2>4, <2>5, <2>6 DEF ComponentsNext
  <1> QED
    BY <1>1, <1>2, CompInvSound, PTL DEF ComponentsSpec

-----------------------------------------------------------------------------
(* The VM heap *)

CellContents == CellValues \cup {Zero}

SlotRecords == [offset : Int, cells : Nat, logical : Nat, live : BOOLEAN, generation : Nat]

HeapTypes ==
    /\ memory \in Seq(CellContents) /\ slots \in Seq(SlotRecords) /\ freeHandles \in Seq(Nat)
    /\ freeOf \in [1..MaxCells -> Seq(Nat)] /\ DOMAIN written = 1..Len(slots)

-----------------------------------------------------------------------------
(* The inductive invariant *)

\* The n cells from a on and the m cells from b on have none in common.
Apart(a, n, b, m) == a + n <= b \/ b + m <= a

\* A live object lies within memory, and holds what it was asked for.
LiveSits(h) ==
    /\ slots[h].offset \in Nat /\ slots[h].cells \in 1..MaxCells
    /\ slots[h].logical \in 0..slots[h].cells
    /\ slots[h].offset + slots[h].cells <= Len(memory)

LivesApart(g, h) == Apart(slots[g].offset, slots[g].cells, slots[h].offset, slots[h].cells)

FreeSits(n, k) == freeOf[n][k] + n <= Len(memory)

FreesApart(n, k, m, l) == Apart(freeOf[n][k], n, freeOf[m][l], m)

LiveFreeApart(h, n, k) == Apart(slots[h].offset, slots[h].cells, freeOf[n][k], n)

LivesOk ==
    \A h \in LiveHandles : LiveSits(h) /\ \A g \in LiveHandles : g # h => LivesApart(g, h)

FreesOk ==
    \A n \in 1..MaxCells : \A k \in 1..Len(freeOf[n]) :
        /\ FreeSits(n, k)
        /\ \A m \in 1..MaxCells : \A l \in 1..Len(freeOf[m]) : n # m \/ k # l => FreesApart(n, k, m, l)

LiveFreesOk ==
    \A h \in LiveHandles : \A n \in 1..MaxCells : \A k \in 1..Len(freeOf[n]) : LiveFreeApart(h, n, k)

\* A free handle is that of a dead slot, and is listed once.
HandlesOk ==
    \A k \in 1..Len(freeHandles) :
        /\ freeHandles[k] \in 1..Len(slots) /\ ~slots[freeHandles[k]].live
        /\ \A l \in 1..Len(freeHandles) : freeHandles[k] = freeHandles[l] => k = l

ReadsBack(h) ==
    /\ DOMAIN written[h] = 0..slots[h].logical - 1
    /\ \A c \in 0..slots[h].logical - 1 : memory[slots[h].offset + c + 1] = written[h][c]

HeapInv ==
    /\ HeapTypes /\ LivesOk /\ FreesOk /\ LiveFreesOk /\ HandlesOk
    /\ \A h \in LiveHandles : ReadsBack(h)

\* The empty heap.
LEMMA HeapInitInv ==
  HeapInit => HeapInv
  <1> SUFFICES ASSUME HeapInit PROVE HeapInv
    OBVIOUS
  <1>1. memory = <<>> /\ slots = <<>> /\ freeHandles = <<>> /\ written = <<>> /\ freeOf = [n \in 1..MaxCells |-> <<>>]
    BY DEF HeapInit
  <1>2. Len(<<>>) = 0 /\ 1..0 = {} /\ DOMAIN <<>> = {}
    OBVIOUS
  <1>3. HeapTypes
    BY <1>1, <1>2 DEF HeapTypes
  <1>4. LiveHandles = {}
    BY <1>1, <1>2 DEF LiveHandles
  <1>5. \A n \in 1..MaxCells : Len(freeOf[n]) = 0
    BY <1>1, <1>2
  <1>6. FreesOk /\ LiveFreesOk /\ LivesOk /\ HandlesOk
    BY <1>1, <1>2, <1>4, <1>5 DEF FreesOk, LiveFreesOk, LivesOk, HandlesOk
  <1> QED
    BY <1>3, <1>4, <1>6 DEF HeapInv

-----------------------------------------------------------------------------
(* Free lists: back, pop_back and push_back *)

\* The last entry and the others.
LEMMA BackAndPopped ==
  ASSUME NEW T, NEW s \in Seq(T), s # <<>>
  PROVE  /\ Len(s) \in Nat \ {0} /\ Len(s) \in 1..Len(s) /\ Back(s) \in T /\ Back(s) = s[Len(s)]
         /\ Popped(s) \in Seq(T) /\ Len(Popped(s)) = Len(s) - 1
         /\ \A k \in 1..(Len(s) - 1) : Popped(s)[k] = s[k] /\ k \in 1..Len(s) /\ k # Len(s)
  <1> DEFINE n == Len(s)
             p == Popped(s)
  <1>1. n \in Nat \ {0}
    BY EmptySeq
  <1>2. \A k \in 1..n : s[k] \in T
    BY ElementOfSeq
  <1>3. n \in 1..n /\ n - 1 \in Nat
    <2> HIDE DEF n
    <2> QED
      BY <1>1
  <1>4. Back(s) = s[n] /\ Back(s) \in T
    BY <1>2, <1>3 DEF Back
  <1> HIDE DEF n
  <1>5. /\ \A k \in 1..(n - 1) : k \in 1..n /\ k # n
        /\ 1 \in Int /\ n - 1 \in Int
    BY <1>1
  <1>6. /\ SubSeq(s, 1, n - 1) \in Seq(T)
        /\ Len(SubSeq(s, 1, n - 1)) = IF 1 <= n - 1 THEN (n - 1) - 1 + 1 ELSE 0
        /\ \A k \in 1..((n - 1) - 1 + 1) : SubSeq(s, 1, n - 1)[k] = s[1 + k - 1]
    <2>1. \A k \in 1..(n - 1) : s[k] \in T
      BY <1>2, <1>5
    <2> QED
      BY <1>5, <2>1, SubSeqProperties
  <1>7. p = SubSeq(s, 1, n - 1)
    BY DEF Popped, n
  <1> HIDE DEF p
  <1>8. (n - 1) - 1 + 1 = n - 1 /\ (~(1 <= n - 1) => n - 1 = 0) /\ \A k \in 1..(n - 1) : 1 + k - 1 = k
    BY <1>1
  <1>9. p \in Seq(T) /\ Len(p) = n - 1 /\ \A k \in 1..(n - 1) : p[k] = s[k]
    BY <1>6, <1>7, <1>8
  <1> QED
    BY <1>1, <1>3, <1>4, <1>5, <1>9 DEF n, p

-----------------------------------------------------------------------------
(* alloc *)

\* The payload alloc takes, new or reused, is nobody's and is zero; the other cells and
\* the other free payloads stay.
LEMMA TakePayloadIs ==
  ASSUME HeapInv, NEW n \in 1..MaxCells, TakePayload(n)
  PROVE  LET off == PayloadOffset(n) IN
         /\ off \in Nat /\ memory' \in Seq(CellContents) /\ Len(memory) <= Len(memory') /\ off + n <= Len(memory')
         /\ freeOf' \in [1..MaxCells -> Seq(Nat)]
         /\ \A k \in 1..Len(memory) : k \notin (off + 1)..(off + n) => memory'[k] = memory[k]
         /\ \A k \in (off + 1)..(off + n) : memory'[k] = Zero
         /\ \A m \in 1..MaxCells : \A l \in 1..Len(freeOf'[m]) :
               l \in 1..Len(freeOf[m]) /\ freeOf'[m][l] = freeOf[m][l] /\ Apart(off, n, freeOf[m][l], m)
         /\ \A h \in LiveHandles : Apart(slots[h].offset, slots[h].cells, off, n)
  <1> USE DEF HeapInv
  <1> DEFINE off == PayloadOffset(n)
             s == freeOf[n]
             M == Len(memory)
  <1>1. /\ memory \in Seq(CellContents) /\ freeOf \in [1..MaxCells -> Seq(Nat)] /\ s \in Seq(Nat)
        /\ M \in Nat /\ MaxCells \in Nat /\ n \in Nat \ {0} /\ Zero \in CellContents
    BY HeapAssumption, LenProperties DEF HeapTypes, CellContents
  <1>2. \A m \in 1..MaxCells : freeOf[m] \in Seq(Nat) /\ \A l \in 1..Len(freeOf[m]) : freeOf[m][l] \in Nat
    <2> SUFFICES ASSUME NEW m \in 1..MaxCells PROVE freeOf[m] \in Seq(Nat) /\ \A l \in 1..Len(freeOf[m]) : freeOf[m][l] \in Nat
      OBVIOUS
    <2>1. freeOf[m] \in Seq(Nat)
      BY <1>1
    <2> QED
      BY <2>1, ElementOfSeq
  <1>3. CASE s # <<>>
    <2> DEFINE e == Len(s)
               p == Popped(s)
    <2>1. /\ e \in 1..Len(s) /\ Back(s) \in Nat /\ Back(s) = s[e] /\ p \in Seq(Nat) /\ Len(p) = e - 1
          /\ \A k \in 1..(e - 1) : p[k] = s[k] /\ k \in 1..Len(s) /\ k # e
      BY <1>1, <1>3, BackAndPopped
    <2>2. off = s[e] /\ off \in Nat /\ memory' = Cleared(off, n) /\ freeOf' = [freeOf EXCEPT ![n] = p]
      BY <1>3, <2>1 DEF PayloadOffset, TakePayload
    <2> HIDE DEF e, p, off
    <2>3. off + n <= M
      BY <2>1, <2>2 DEF FreesOk, FreeSits
    <2>4. /\ freeOf' \in [1..MaxCells -> Seq(Nat)] /\ freeOf'[n] = p
          /\ \A m \in 1..MaxCells : m # n => freeOf'[m] = freeOf[m]
      BY <1>1, <2>1, <2>2
    <2>5. memory' = [k \in 1..M |-> IF k \in off + 1..off + n THEN Zero ELSE memory[k]]
      BY <2>2 DEF Cleared
    <2>6. \A k \in 1..M : memory[k] \in CellContents
      BY <1>1, ElementOfSeq
    <2> HIDE DEF M
    <2>7. memory' \in [1..M -> CellContents]
      BY <1>1, <2>5, <2>6
    <2>8. memory' \in Seq(CellContents) /\ Len(memory') = M
      BY <1>1, <2>7
    <2>9. \A k \in 1..M : k \notin (off + 1)..(off + n) => memory'[k] = memory[k]
      BY <2>5
    <2>10. \A k \in (off + 1)..(off + n) : memory'[k] = Zero
      <3> SUFFICES ASSUME NEW k \in (off + 1)..(off + n) PROVE memory'[k] = Zero
        OBVIOUS
      <3>1. M \in Nat /\ n \in Nat /\ off \in Nat
        BY <1>1, <2>2
      <3>2. k \in 1..M
        BY <2>3, <3>1
      <3> QED
        BY <2>5, <3>2
    <2>11. ASSUME NEW m \in 1..MaxCells, NEW l \in 1..Len(freeOf'[m])
           PROVE  l \in 1..Len(freeOf[m]) /\ freeOf'[m][l] = freeOf[m][l] /\ Apart(off, n, freeOf[m][l], m)
      <3>1. CASE m = n
        <4>1. l \in 1..(e - 1)
          BY <2>1, <2>4, <3>1
        <4>2. p[l] = s[l] /\ l \in 1..Len(s) /\ l # e
          BY <2>1, <4>1
        <4>3. FreesApart(n, e, n, l)
          BY <2>1, <4>2 DEF FreesOk
        <4> QED
          BY <2>2, <2>4, <3>1, <4>2, <4>3 DEF FreesApart
      <3>2. CASE m # n
        <4>1. freeOf'[m] = freeOf[m] /\ l \in 1..Len(freeOf[m])
          BY <2>4, <3>2
        <4>2. FreesApart(n, e, m, l)
          BY <2>1, <3>2, <4>1 DEF FreesOk
        <4> QED
          BY <2>2, <4>1, <4>2 DEF FreesApart
      <3> QED
        BY <3>1, <3>2
    <2>12. ASSUME NEW h \in LiveHandles PROVE Apart(slots[h].offset, slots[h].cells, off, n)
      BY <2>1, <2>2 DEF LiveFreesOk, LiveFreeApart
    <2>13. M <= Len(memory') /\ off + n <= Len(memory')
      BY <1>1, <2>3, <2>8
    <2> QED
      BY <2>2, <2>4, <2>8, <2>9, <2>10, <2>11, <2>12, <2>13 DEF M, off
  <1>4. CASE s = <<>>
    <2> DEFINE z == [k \in 1..n |-> Zero]
    <2>1. off = M /\ memory' = memory \o z /\ freeOf' = freeOf
      BY <1>4 DEF PayloadOffset, TakePayload
    <2>2. z \in [1..n -> CellContents] /\ \A k \in 1..n : z[k] = Zero
      BY <1>1
    <2> HIDE DEF z
    <2>3. z \in Seq(CellContents) /\ Len(z) = n
      BY <1>1, <2>2
    <2>4. /\ memory' \in Seq(CellContents) /\ Len(memory') = M + n
          /\ \A k \in 1..(M + n) : memory'[k] = IF k <= M THEN memory[k] ELSE z[k - M]
      <3>1. /\ memory \o z \in Seq(CellContents) /\ Len(memory \o z) = Len(memory) + Len(z)
            /\ \A k \in 1..(Len(memory) + Len(z)) :
                  (memory \o z)[k] = IF k <= Len(memory) THEN memory[k] ELSE z[k - Len(memory)]
        BY <1>1, <2>3, ConcatProperties
      <3> QED
        BY <2>1, <2>3, <3>1
    <2> HIDE DEF off, M
    <2>5. \A k \in 1..M : memory'[k] = memory[k]
      BY <1>1, <2>4
    <2>6. \A k \in (off + 1)..(off + n) : memory'[k] = Zero
      <3> SUFFICES ASSUME NEW k \in (off + 1)..(off + n) PROVE memory'[k] = Zero
        OBVIOUS
      <3>1. k \in 1..(M + n) /\ ~(k <= M) /\ k - M \in 1..n
        BY <1>1, <2>1
      <3>2. memory'[k] = z[k - M]
        BY <2>4, <3>1
      <3> QED
        BY <2>2, <3>1, <3>2
    <2>7. ASSUME NEW m \in 1..MaxCells, NEW l \in 1..Len(freeOf[m]) PROVE Apart(off, n, freeOf[m][l], m)
      <3>1. freeOf[m][l] + m <= M /\ freeOf[m][l] \in Nat
        BY <1>2 DEF FreesOk, FreeSits, M
      <3> QED
        BY <1>1, <2>1, <3>1 DEF Apart
    <2>8. ASSUME NEW h \in LiveHandles PROVE Apart(slots[h].offset, slots[h].cells, off, n)
      <3>1. slots[h].offset + slots[h].cells <= M
        BY DEF LivesOk, LiveSits, M
      <3> QED
        BY <2>1, <3>1 DEF Apart
    <2>9. off \in Nat /\ M <= Len(memory') /\ off + n <= Len(memory')
      BY <1>1, <2>1, <2>4
    <2> QED
      BY <1>1, <2>1, <2>4, <2>5, <2>6, <2>7, <2>8, <2>9 DEF M, off
  <1> QED
    BY <1>3, <1>4

\* What a new payload leaves alone: the free payloads, and every live object with its cells.
LEMMA OthersStay ==
  ASSUME HeapInv, NEW n \in 1..MaxCells, TakePayload(n)
  PROVE  /\ FreesOk'
         /\ \A g \in LiveHandles :
               /\ slots[g].offset + slots[g].cells <= Len(memory')
               /\ \A c \in 0..slots[g].logical - 1 :
                     memory'[slots[g].offset + c + 1] = memory[slots[g].offset + c + 1]
               /\ \A m \in 1..MaxCells : \A l \in 1..Len(freeOf'[m]) :
                     Apart(slots[g].offset, slots[g].cells, freeOf'[m][l], m)
  <1> USE DEF HeapInv
  <1> DEFINE off == PayloadOffset(n)
             M == Len(memory)
             N == Len(memory')
  <1>1. /\ off \in Nat /\ memory' \in Seq(CellContents) /\ M <= N
        /\ \A k \in 1..M : k \notin (off + 1)..(off + n) => memory'[k] = memory[k]
        /\ \A m \in 1..MaxCells : \A l \in 1..Len(freeOf'[m]) : l \in 1..Len(freeOf[m]) /\ freeOf'[m][l] = freeOf[m][l]
        /\ \A h \in LiveHandles : Apart(slots[h].offset, slots[h].cells, off, n)
    BY TakePayloadIs
  <1>2. M \in Nat /\ N \in Nat /\ n \in Nat /\ MaxCells \in Nat
    BY <1>1, HeapAssumption, LenProperties DEF HeapTypes
  <1>3. \A m \in 1..MaxCells : \A l \in 1..Len(freeOf[m]) : freeOf[m][l] \in Nat
    <2> SUFFICES ASSUME NEW m \in 1..MaxCells, NEW l \in 1..Len(freeOf[m]) PROVE freeOf[m][l] \in Nat
      OBVIOUS
    <2>1. freeOf[m] \in Seq(Nat)
      BY DEF HeapTypes
    <2> QED
      BY <2>1, ElementOfSeq
  <1> HIDE DEF off, M, N
  <1>4. FreesOk'
    <2>1. ASSUME NEW m \in 1..MaxCells, NEW l \in 1..Len(freeOf'[m]) PROVE freeOf'[m][l] + m <= N
      <3>1. l \in 1..Len(freeOf[m]) /\ freeOf'[m][l] = freeOf[m][l] /\ freeOf[m][l] \in Nat
        BY <1>1, <1>3
      <3>2. freeOf[m][l] + m <= M
        BY <3>1 DEF FreesOk, FreeSits, M
      <3> QED
        BY <1>1, <1>2, <3>1, <3>2
    <2>2. ASSUME NEW m \in 1..MaxCells, NEW l \in 1..Len(freeOf'[m]),
                 NEW i \in 1..MaxCells, NEW j \in 1..Len(freeOf'[i]), m # i \/ l # j
          PROVE  Apart(freeOf'[m][l], m, freeOf'[i][j], i)
      <3>1. /\ l \in 1..Len(freeOf[m]) /\ freeOf'[m][l] = freeOf[m][l]
            /\ j \in 1..Len(freeOf[i]) /\ freeOf'[i][j] = freeOf[i][j]
        BY <1>1
      <3>2. FreesApart(m, l, i, j)
        BY <2>2, <3>1 DEF FreesOk
      <3> QED
        BY <3>1, <3>2 DEF FreesApart
    <2> QED
      BY <2>1, <2>2 DEF FreesOk, FreeSits, FreesApart, N
  <1>5. ASSUME NEW g \in LiveHandles
        PROVE  /\ slots[g].offset + slots[g].cells <= N
               /\ \A c \in 0..slots[g].logical - 1 :
                     memory'[slots[g].offset + c + 1] = memory[slots[g].offset + c + 1]
    <2> DEFINE a == slots[g].offset
               b == slots[g].cells
    <2>1. a \in Nat /\ b \in 1..MaxCells /\ slots[g].logical \in 0..b /\ a + b <= M
      BY DEF LivesOk, LiveSits, M
    <2>3. a + b <= off \/ off + n <= a
      BY <1>1 DEF Apart
    <2> DEFINE w == slots[g].logical
    <2>4. w \in 0..b
      BY <2>1
    <2> HIDE DEF a, b, w
    <2>5. a + b <= N
      BY <1>1, <1>2, <2>1
    <2>6. ASSUME NEW c \in 0..w - 1 PROVE memory'[a + c + 1] = memory[a + c + 1]
      <3>1. a + c + 1 \in 1..M
        BY <1>2, <2>1, <2>4
      <3>2. a + c + 1 \notin (off + 1)..(off + n)
        BY <1>1, <1>2, <2>1, <2>3, <2>4
      <3> QED
        BY <1>1, <3>1, <3>2
    <2> QED
      BY <2>5, <2>6 DEF a, b, w
  <1>6. ASSUME NEW g \in LiveHandles, NEW m \in 1..MaxCells, NEW l \in 1..Len(freeOf'[m])
        PROVE  Apart(slots[g].offset, slots[g].cells, freeOf'[m][l], m)
    <2>1. l \in 1..Len(freeOf[m]) /\ freeOf'[m][l] = freeOf[m][l]
      BY <1>1
    <2> QED
      BY <2>1 DEF LiveFreesOk, LiveFreeApart
  <1> QED
    BY <1>4, <1>5, <1>6 DEF N

\* The slot table when handle h is given to a new object.
Placed(h, rec) ==
    /\ freeHandles # <<>> => h = Back(freeHandles)
    /\ freeHandles = <<>> => h = Len(slots) + 1
    /\ freeHandles' = IF freeHandles # <<>> THEN Popped(freeHandles) ELSE freeHandles
    /\ slots' = [k \in 1..(IF h > Len(slots) THEN h ELSE Len(slots)) |-> IF k # h THEN slots[k] ELSE rec]

\* It is a dead slot's, or the next one.
LEMMA PlacedIs ==
  ASSUME HeapInv, NEW h, NEW rec \in SlotRecords, rec.live, Placed(h, rec)
  PROVE  /\ slots' \in Seq(SlotRecords) /\ freeHandles' \in Seq(Nat)
         /\ h \in 1..Len(slots') /\ slots'[h] = rec /\ h \notin LiveHandles
         /\ LiveHandles' = LiveHandles \cup {h} /\ \A k \in LiveHandles : slots'[k] = slots[k]
         /\ HandlesOk'
  <1> USE DEF HeapInv
  <1> DEFINE S == Len(slots)
             N == IF h > S THEN h ELSE S
             f == freeHandles
             e == Len(f)
  <1>1. slots \in Seq(SlotRecords) /\ S \in Nat /\ f \in Seq(Nat) /\ e \in Nat /\ \A k \in 1..S : slots[k] \in SlotRecords
    BY LenProperties, ElementOfSeq DEF HeapTypes
  <1>2. f # <<>> => /\ e \in 1..Len(f) /\ h = f[e] /\ f' = Popped(f) /\ Popped(f) \in Seq(Nat) /\ Len(Popped(f)) = e - 1
                    /\ \A k \in 1..(e - 1) : Popped(f)[k] = f[k] /\ k \in 1..Len(f) /\ k # e
    BY <1>1, BackAndPopped DEF Placed
  <1>3. f # <<>> => h \in 1..S /\ ~slots[h].live
    BY <1>2 DEF HandlesOk
  <1>4. f = <<>> => h = S + 1 /\ f' = <<>>
    BY DEF Placed
  <1>5. slots' = [k \in 1..N |-> IF k # h THEN slots[k] ELSE rec]
    BY DEF Placed
  <1> HIDE DEF S, N, f, e
  <1>6. h \in Nat /\ h \in 1..N /\ N \in Nat /\ S <= N /\ \A k \in 1..N : k # h => k \in 1..S
    <2>1. CASE f # <<>>
      BY <1>1, <1>3, <2>1 DEF N
    <2>2. CASE f = <<>>
      BY <1>1, <1>4, <2>2 DEF N
    <2> QED
      BY <2>1, <2>2
  <1>7. slots' \in [1..N -> SlotRecords]
    BY <1>1, <1>5, <1>6
  <1>8. slots' \in Seq(SlotRecords) /\ Len(slots') = N
    BY <1>6, <1>7
  <1>9. slots'[h] = rec /\ \A k \in 1..N : k # h => slots'[k] = slots[k]
    BY <1>5, <1>6
  <1>10. LiveHandles = {k \in 1..S : slots[k].live} /\ LiveHandles' = {k \in 1..N : slots'[k].live}
    BY <1>8 DEF LiveHandles, S
  <1>11. h \notin LiveHandles
    <2>1. CASE f # <<>>
      BY <1>3, <1>10, <2>1
    <2>2. CASE f = <<>>
      BY <1>1, <1>4, <1>10, <2>2
    <2> QED
      BY <2>1, <2>2
  <1>12. \A k \in 1..S : k \in 1..N
    BY <1>1, <1>6
  <1>13. LiveHandles' = LiveHandles \cup {h} /\ \A k \in LiveHandles : slots'[k] = slots[k]
    <2>1. \A k \in LiveHandles : k \in 1..N /\ k # h
      BY <1>10, <1>11, <1>12
    <2>2. \A k \in LiveHandles : slots'[k] = slots[k]
      BY <1>9, <2>1
    <2>3. \A k \in LiveHandles' : k # h => k \in LiveHandles
      BY <1>6, <1>9, <1>10
    <2>4. \A k \in LiveHandles : k \in LiveHandles'
      BY <1>10, <2>1, <2>2
    <2>5. h \in LiveHandles'
      BY <1>6, <1>9, <1>10
    <2> QED
      BY <2>2, <2>3, <2>4, <2>5
  <1>14. freeHandles' \in Seq(Nat) /\ HandlesOk'
    <2>1. CASE f = <<>>
      <3>1. freeHandles' = <<>>
        BY <1>4, <2>1 DEF f
      <3>2. Len(freeHandles') = 0
        BY <3>1
      <3> QED
        BY <3>1, <3>2 DEF HandlesOk
    <2>2. CASE f # <<>>
      <3> DEFINE p == Popped(f)
      <3>1. freeHandles' = p /\ p \in Seq(Nat) /\ Len(p) = e - 1 /\ e \in 1..Len(f) /\ h = f[e]
        BY <1>2, <2>2 DEF f
      <3>2. \A k \in 1..(e - 1) : p[k] = f[k] /\ k \in 1..Len(f) /\ k # e
        BY <1>2, <2>2
      <3> HIDE DEF p
      <3>3. ASSUME NEW k \in 1..(e - 1) PROVE p[k] \in 1..N /\ ~slots'[p[k]].live
        <4>1. f[k] \in 1..S /\ ~slots[f[k]].live
          BY <3>2 DEF HandlesOk, f, S
        <4>2. f[k] # h
          BY <3>1, <3>2 DEF HandlesOk, f
        <4> QED
          BY <1>9, <1>12, <3>2, <4>1, <4>2
      <3>4. ASSUME NEW k \in 1..(e - 1), NEW l \in 1..(e - 1), p[k] = p[l] PROVE k = l
        <4>1. f[k] = f[l] /\ k \in 1..Len(f) /\ l \in 1..Len(f)
          BY <3>2, <3>4
        <4> QED
          BY <4>1 DEF HandlesOk, f
      <3> QED
        BY <1>8, <3>1, <3>3, <3>4 DEF HandlesOk
    <2> QED
      BY <2>1, <2>2
  <1> QED
    BY <1>6, <1>8, <1>9, <1>11, <1>13, <1>14

\* alloc keeps the invariant, also when it finds no slot.
LEMMA AllocInv ==
  ASSUME HeapInv, NEW req \in Requests, Alloc(req)
  PROVE  HeapInv'
  <1> USE DEF HeapInv
  <1> DEFINE n == CellsOf(req)
             w == Logical(req)
             off == PayloadOffset(n)
             full == freeHandles = <<>> /\ SlotCap # 0 /\ Len(slots) >= SlotCap
  <1>1. n \in 1..MaxCells /\ w \in 0..n /\ MaxCells \in Nat
    BY HeapAssumption DEF Requests, CellsOf, Logical
  <1>2. TakePayload(n)
    BY DEF Alloc
  <1> HIDE DEF n, w, off
  <1>3. /\ off \in Nat /\ memory' \in Seq(CellContents) /\ off + n <= Len(memory')
        /\ freeOf' \in [1..MaxCells -> Seq(Nat)]
        /\ \A k \in (off + 1)..(off + n) : memory'[k] = Zero
        /\ \A m \in 1..MaxCells : \A l \in 1..Len(freeOf'[m]) :
              freeOf'[m][l] = freeOf[m][l] /\ Apart(off, n, freeOf[m][l], m)
        /\ \A h \in LiveHandles : Apart(slots[h].offset, slots[h].cells, off, n)
    BY <1>1, <1>2, TakePayloadIs DEF off
  <1>4. /\ FreesOk'
        /\ \A g \in LiveHandles :
              /\ slots[g].offset + slots[g].cells <= Len(memory')
              /\ \A c \in 0..slots[g].logical - 1 :
                    memory'[slots[g].offset + c + 1] = memory[slots[g].offset + c + 1]
              /\ \A m \in 1..MaxCells : \A l \in 1..Len(freeOf'[m]) :
                    Apart(slots[g].offset, slots[g].cells, freeOf'[m][l], m)
    BY <1>1, <1>2, OthersStay
  <1>5. CASE full
    <2>1. UNCHANGED <<slots, freeHandles, written>>
      BY <1>5 DEF Alloc
    <2>2. LiveHandles' = LiveHandles
      BY <2>1 DEF LiveHandles
    <2>3. HeapTypes'
      BY <1>3, <2>1 DEF HeapTypes
    <2>4. LivesOk'
      BY <1>4, <2>1, <2>2 DEF LivesOk, LiveSits, LivesApart
    <2>5. LiveFreesOk'
      BY <1>4, <2>1, <2>2 DEF LiveFreesOk, LiveFreeApart
    <2>6. HandlesOk'
      BY <2>1 DEF HandlesOk
    <2>7. ASSUME NEW h \in LiveHandles' PROVE ReadsBack(h)'
      BY <1>4, <2>1, <2>2 DEF ReadsBack
    <2> QED
      BY <1>4, <2>3, <2>4, <2>5, <2>6, <2>7
  <1>6. CASE ~full
    <2> DEFINE h == IF freeHandles # <<>> THEN Back(freeHandles) ELSE Len(slots) + 1
               fresh == IF h <= Len(slots) THEN slots[h].generation ELSE 0
               rec == [offset |-> off, cells |-> n, logical |-> w, live |-> TRUE, generation |-> fresh]
    <2>1. /\ Placed(h, rec)
          /\ written' = [k \in DOMAIN slots' |-> IF k = h THEN [c \in 0..w - 1 |-> Zero] ELSE written[k]]
      BY <1>6 DEF Alloc, Placed, n, w, off
    <2>2. fresh \in Nat
      <3>1. slots \in Seq(SlotRecords) /\ freeHandles \in Seq(Nat) /\ Len(slots) \in Nat
        BY LenProperties DEF HeapTypes
      <3>2. CASE freeHandles # <<>>
        <4>1. Len(freeHandles) \in 1..Len(freeHandles) /\ Back(freeHandles) = freeHandles[Len(freeHandles)]
          BY <3>1, <3>2, BackAndPopped
        <4>2. h \in 1..Len(slots)
          BY <3>2, <4>1 DEF HandlesOk
        <4>3. slots[h] \in SlotRecords
          BY <3>1, <4>2, ElementOfSeq
        <4> HIDE DEF h
        <4> QED
          BY <4>3 DEF SlotRecords
      <3>3. CASE freeHandles = <<>>
        <4>1. h = Len(slots) + 1
          BY <3>3
        <4> HIDE DEF h
        <4> QED
          BY <3>1, <4>1
      <3> QED
        BY <3>2, <3>3
    <2> HIDE DEF fresh, h
    <2>3. /\ rec \in SlotRecords /\ rec.live /\ rec.offset = off /\ rec.cells = n /\ rec.logical = w
      BY <1>1, <1>3, <2>2 DEF SlotRecords
    <2> HIDE DEF rec
    <2>4. /\ slots' \in Seq(SlotRecords) /\ freeHandles' \in Seq(Nat)
          /\ h \in 1..Len(slots') /\ slots'[h] = rec /\ h \notin LiveHandles
          /\ LiveHandles' = LiveHandles \cup {h} /\ \A k \in LiveHandles : slots'[k] = slots[k]
          /\ HandlesOk'
      BY <2>1, <2>3, PlacedIs
    <2>5. DOMAIN slots' = 1..Len(slots')
      BY <2>4, LenProperties
    <2>6. HeapTypes'
      BY <1>3, <2>1, <2>4, <2>5 DEF HeapTypes
    <2>7. ASSUME NEW g \in LiveHandles' PROVE LiveSits(g)'
      <3>1. CASE g = h
        BY <1>1, <1>3, <2>3, <2>4, <3>1 DEF LiveSits
      <3>2. CASE g # h
        BY <1>4, <2>4, <3>2 DEF LivesOk, LiveSits
      <3> QED
        BY <3>1, <3>2
    <2>8. ASSUME NEW g \in LiveHandles', NEW k \in LiveHandles', k # g PROVE LivesApart(k, g)'
      <3>1. CASE g = h
        <4>1. k \in LiveHandles /\ slots'[k] = slots[k]
          BY <2>4, <2>8, <3>1
        <4>2. Apart(slots[k].offset, slots[k].cells, off, n)
          BY <1>3, <4>1
        <4> QED
          BY <2>3, <2>4, <3>1, <4>1, <4>2 DEF LivesApart
      <3>2. CASE k = h
        <4>1. g \in LiveHandles /\ slots'[g] = slots[g]
          BY <2>4, <2>8, <3>2
        <4>2. Apart(off, n, slots[g].offset, slots[g].cells)
          BY <1>3, <4>1 DEF Apart
        <4> QED
          BY <2>3, <2>4, <3>2, <4>1, <4>2 DEF LivesApart
      <3>3. CASE g # h /\ k # h
        <4>1. g \in LiveHandles /\ slots'[g] = slots[g] /\ k \in LiveHandles /\ slots'[k] = slots[k]
          BY <2>4, <3>3
        <4> QED
          BY <2>8, <4>1 DEF LivesOk, LivesApart
      <3> QED
        BY <3>1, <3>2, <3>3
    <2>9. LivesOk'
      BY <2>7, <2>8 DEF LivesOk
    <2>10. LiveFreesOk'
      <3> SUFFICES ASSUME NEW g \in LiveHandles', NEW m \in 1..MaxCells, NEW l \in 1..Len(freeOf'[m])
                   PROVE  LiveFreeApart(g, m, l)'
        BY DEF LiveFreesOk
      <3>1. CASE g = h
        BY <1>3, <2>3, <2>4, <3>1 DEF LiveFreeApart
      <3>2. CASE g # h
        BY <1>4, <2>4, <3>2 DEF LiveFreeApart
      <3> QED
        BY <3>1, <3>2
    <2>11. ASSUME NEW g \in LiveHandles' PROVE ReadsBack(g)'
      <3>1. g \in DOMAIN slots'
        BY <2>5 DEF LiveHandles
      <3>2. CASE g = h
        <4>1. written'[g] = [c \in 0..w - 1 |-> Zero]
          BY <2>1, <3>1, <3>2
        <4>2. \A c \in 0..w - 1 : off + c + 1 \in (off + 1)..(off + n)
          BY <1>1, <1>3
        <4> QED
          BY <1>3, <2>3, <2>4, <3>2, <4>1, <4>2 DEF ReadsBack
      <3>3. CASE g # h
        <4>1. written'[g] = written[g] /\ g \in LiveHandles /\ slots'[g] = slots[g]
          BY <2>1, <2>4, <3>1, <3>3
        <4> QED
          BY <1>4, <4>1 DEF ReadsBack
      <3> QED
        BY <3>2, <3>3
    <2> QED
      BY <1>4, <2>4, <2>6, <2>9, <2>10, <2>11
  <1> QED
    BY <1>5, <1>6

-----------------------------------------------------------------------------
(* freePayload *)

\* The payload of a freed object goes to the end of its free list, which no other list
\* and no other object overlaps.
LEMMA FreePayloadInv ==
  ASSUME HeapInv, NEW h \in 1..MaxSlots, FreePayload(h)
  PROVE  HeapInv'
  <1> USE DEF HeapInv
  <1> DEFINE a == slots[h].offset
             b == slots[h].cells
             f == freeHandles
  <1>1. /\ h \in LiveHandles /\ slots[h].live /\ h \in 1..Len(slots)
        /\ freeOf' = [freeOf EXCEPT ![b] = Append(@, a)]
        /\ slots' = [slots EXCEPT ![h] = DeadSlot(@.generation + 1)]
        /\ f' = Append(f, h) /\ written' = [written EXCEPT ![h] = << >>] /\ memory' = memory
    <2>1. slots \in Seq(SlotRecords) /\ Len(slots) \in Nat /\ MaxSlots \in Nat
      BY LenProperties, HeapAssumption DEF HeapTypes
    <2>2. h <= Len(slots) /\ slots[h].live
      BY DEF FreePayload
    <2>3. h \in 1..Len(slots)
      BY <2>1, <2>2
    <2> QED
      BY <2>2, <2>3 DEF FreePayload, LiveHandles
  <1>2. slots \in Seq(SlotRecords) /\ f \in Seq(Nat) /\ h \in Nat /\ \A k \in 1..Len(slots) : slots[k] \in SlotRecords
    BY ElementOfSeq DEF HeapTypes
  <1>3. a \in Nat /\ b \in 1..MaxCells /\ a + b <= Len(memory)
    BY <1>1 DEF LivesOk, LiveSits
  <1> DEFINE dead == DeadSlot(slots[h].generation + 1)
             e == Len(freeOf[b])
  <1>4. dead \in SlotRecords /\ ~dead.live
    <2>1. slots[h].generation \in Nat
      BY <1>1, <1>2 DEF SlotRecords
    <2> DEFINE g == slots[h].generation
    <2> HIDE DEF g
    <2>2. DeadSlot(g + 1) \in SlotRecords /\ ~DeadSlot(g + 1).live
      BY <2>1 DEF DeadSlot, SlotRecords, g
    <2> QED
      BY <2>2 DEF g
  <1>5. slots' = [slots EXCEPT ![h] = dead]
    BY <1>1
  <1> HIDE DEF a, b, f, dead
  <1>6. /\ slots' \in Seq(SlotRecords) /\ Len(slots') = Len(slots) /\ slots'[h] = dead
        /\ \A k \in 1..Len(slots) : k # h => slots'[k] = slots[k]
    BY <1>1, <1>2, <1>4, <1>5, ExceptSeq
  <1>7. /\ \A g \in LiveHandles' : g \in LiveHandles /\ g # h /\ slots'[g] = slots[g]
    BY <1>4, <1>6 DEF LiveHandles
  <1>8. /\ freeOf[b] \in Seq(Nat) /\ e \in Nat /\ Append(freeOf[b], a) \in Seq(Nat) /\ Len(Append(freeOf[b], a)) = e + 1
        /\ \A k \in 1..e : Append(freeOf[b], a)[k] = freeOf[b][k]
        /\ Append(freeOf[b], a)[e + 1] = a
    <2>1. freeOf[b] \in Seq(Nat)
      BY <1>3 DEF HeapTypes
    <2> QED
      BY <1>3, <2>1, AppendProperties, LenProperties
  <1> DEFINE L == Append(freeOf[b], a)
  <1>9. /\ freeOf' \in [1..MaxCells -> Seq(Nat)] /\ freeOf'[b] = L
        /\ \A m \in 1..MaxCells : m # b => freeOf'[m] = freeOf[m]
    BY <1>1, <1>3, <1>8 DEF HeapTypes
  <1> HIDE DEF L, e
  <1>10. ASSUME NEW m \in 1..MaxCells, NEW l \in 1..Len(freeOf'[m])
         PROVE  \/ l \in 1..Len(freeOf[m]) /\ freeOf'[m][l] = freeOf[m][l] /\ (m = b => l # e + 1)
                \/ m = b /\ l = e + 1 /\ freeOf'[m][l] = a
    <2>1. CASE m # b
      BY <1>9, <2>1
    <2>2. CASE m = b
      <3>1. l \in 1..(e + 1)
        BY <1>8, <1>9, <2>2 DEF L, e
      <3>2. CASE l = e + 1
        BY <1>8, <1>9, <2>2, <3>2 DEF L, e
      <3>3. CASE l # e + 1
        <4>1. l \in 1..e
          BY <1>8, <3>1, <3>3
        <4> QED
          BY <1>8, <1>9, <2>2, <3>3, <4>1 DEF L, e
      <3> QED
        BY <3>2, <3>3
    <2> QED
      BY <2>1, <2>2
  <1>11. \A m \in 1..MaxCells : \A l \in 1..Len(freeOf[m]) : Apart(a, b, freeOf[m][l], m) /\ Apart(freeOf[m][l], m, a, b)
    <2> SUFFICES ASSUME NEW m \in 1..MaxCells, NEW l \in 1..Len(freeOf[m])
                 PROVE  Apart(a, b, freeOf[m][l], m) /\ Apart(freeOf[m][l], m, a, b)
      OBVIOUS
    <2>1. Apart(a, b, freeOf[m][l], m)
      BY <1>1 DEF LiveFreesOk, LiveFreeApart, a, b
    <2> QED
      BY <2>1 DEF Apart
  <1>12. FreesOk'
    <2>1. ASSUME NEW m \in 1..MaxCells, NEW l \in 1..Len(freeOf'[m]) PROVE freeOf'[m][l] + m <= Len(memory')
      <3>1. CASE m = b /\ freeOf'[m][l] = a
        BY <1>1, <1>3, <3>1
      <3>2. CASE l \in 1..Len(freeOf[m]) /\ freeOf'[m][l] = freeOf[m][l]
        BY <1>1, <3>2 DEF FreesOk, FreeSits
      <3> QED
        BY <1>10, <3>1, <3>2
    <2>2. ASSUME NEW m \in 1..MaxCells, NEW l \in 1..Len(freeOf'[m]),
                 NEW i \in 1..MaxCells, NEW j \in 1..Len(freeOf'[i]), m # i \/ l # j
          PROVE  Apart(freeOf'[m][l], m, freeOf'[i][j], i)
      <3> DEFINE Old(x, y) == y \in 1..Len(freeOf[x]) /\ freeOf'[x][y] = freeOf[x][y]
                 New(x, y) == x = b /\ y = e + 1 /\ freeOf'[x][y] = a
      <3>1. (Old(m, l) \/ New(m, l)) /\ (Old(i, j) \/ New(i, j))
        BY <1>10
      <3>2. CASE Old(m, l) /\ Old(i, j)
        <4>1. FreesApart(m, l, i, j)
          BY <2>2, <3>2 DEF FreesOk
        <4> QED
          BY <3>2, <4>1 DEF FreesApart
      <3>3. CASE Old(m, l) /\ New(i, j)
        BY <1>11, <3>3
      <3>4. CASE New(m, l) /\ Old(i, j)
        BY <1>11, <3>4
      <3>5. ~(New(m, l) /\ New(i, j))
        BY <2>2
      <3> QED
        BY <3>1, <3>2, <3>3, <3>4, <3>5
    <2> QED
      BY <2>1, <2>2 DEF FreesOk, FreeSits, FreesApart
  <1>13. LivesOk'
    BY <1>1, <1>7 DEF LivesOk, LiveSits, LivesApart
  <1>14. LiveFreesOk'
    <2> SUFFICES ASSUME NEW g \in LiveHandles', NEW m \in 1..MaxCells, NEW l \in 1..Len(freeOf'[m])
                 PROVE  Apart(slots'[g].offset, slots'[g].cells, freeOf'[m][l], m)
      BY DEF LiveFreesOk, LiveFreeApart
    <2>1. g \in LiveHandles /\ g # h /\ slots'[g] = slots[g]
      BY <1>7
    <2>2. CASE m = b /\ freeOf'[m][l] = a
      <3>1. LivesApart(g, h)
        BY <1>1, <2>1 DEF LivesOk
      <3> QED
        BY <2>1, <2>2, <3>1 DEF LivesApart, a, b
    <2>3. CASE l \in 1..Len(freeOf[m]) /\ freeOf'[m][l] = freeOf[m][l]
      BY <2>1, <2>3 DEF LiveFreesOk, LiveFreeApart
    <2> QED
      BY <1>10, <2>2, <2>3
  <1>15. freeHandles' \in Seq(Nat) /\ HandlesOk'
    <2> DEFINE n == Len(f)
               q == Append(f, h)
    <2>1. f' = q /\ q \in Seq(Nat) /\ n \in Nat /\ Len(q) = n + 1 /\ q[n + 1] = h /\ \A k \in 1..n : q[k] = f[k]
      BY <1>1, <1>2, AppendProperties, LenProperties
    <2>2. \A k \in 1..n : f[k] \in 1..Len(slots) /\ ~slots[f[k]].live
      BY DEF HandlesOk, f
    <2>3. \A k, l \in 1..n : f[k] = f[l] => k = l
      BY DEF HandlesOk, f
    <2> HIDE DEF n, q
    <2>4. \A k \in 1..(n + 1) : k = n + 1 \/ k \in 1..n
      BY <2>1
    <2>5. \A k \in 1..n : f[k] # h
      BY <1>1, <2>2
    <2>6. ASSUME NEW k \in 1..(n + 1) PROVE q[k] \in 1..Len(slots') /\ ~slots'[q[k]].live
      <3>1. CASE k = n + 1
        BY <1>1, <1>4, <1>6, <2>1, <3>1
      <3>2. CASE k \in 1..n
        BY <1>6, <2>1, <2>2, <2>5, <3>2
      <3> QED
        BY <2>4, <3>1, <3>2
    <2>7. ASSUME NEW k \in 1..(n + 1), NEW l \in 1..(n + 1), q[k] = q[l] PROVE k = l
      BY <2>1, <2>3, <2>4, <2>5, <2>7
    <2>8. freeHandles' = q
      BY <2>1 DEF f
    <2> QED
      BY <2>1, <2>6, <2>7, <2>8 DEF HandlesOk
  <1>16. ASSUME NEW g \in LiveHandles' PROVE ReadsBack(g)'
    <2>1. g \in LiveHandles /\ g # h /\ slots'[g] = slots[g]
      BY <1>7
    <2>2. g \in DOMAIN written
      BY <2>1 DEF HeapTypes, LiveHandles
    <2>3. written'[g] = written[g]
      BY <1>1, <2>1, <2>2
    <2> QED
      BY <1>1, <2>1, <2>3 DEF ReadsBack
  <1>17. HeapTypes'
    BY <1>1, <1>6, <1>9, <1>15 DEF HeapTypes
  <1> QED
    BY <1>12, <1>13, <1>14, <1>15, <1>16, <1>17

-----------------------------------------------------------------------------
(* storeCell *)

\* A store lands in a cell of its own object, so no other object reads it.
LEMMA StoreCellInv ==
  ASSUME HeapInv, NEW h \in 1..MaxSlots, NEW c \in 0..MaxCells - 1, NEW v \in CellValues, StoreCell(h, c, v)
  PROVE  HeapInv'
  <1> USE DEF HeapInv
  <1> DEFINE a == slots[h].offset
             b == slots[h].cells
             w == slots[h].logical
             M == Len(memory)
  <1>1. /\ h \in LiveHandles /\ c < w
        /\ memory' = [memory EXCEPT ![a + c + 1] = v]
        /\ written' = [written EXCEPT ![h] = [k \in DOMAIN @ \cup {c} |-> IF k = c THEN v ELSE @[k]]]
        /\ slots' = slots /\ freeHandles' = freeHandles /\ freeOf' = freeOf
    <2>1. slots \in Seq(SlotRecords) /\ Len(slots) \in Nat /\ MaxSlots \in Nat
      BY LenProperties, HeapAssumption DEF HeapTypes
    <2>2. h <= Len(slots) /\ slots[h].live /\ c < w
      BY DEF StoreCell, InBounds
    <2>3. h \in 1..Len(slots)
      BY <2>1, <2>2
    <2> QED
      BY <2>2, <2>3 DEF StoreCell, LiveHandles
  <1>2. /\ memory \in Seq(CellContents) /\ M \in Nat /\ v \in CellContents /\ c \in Nat
    BY HeapAssumption, LenProperties DEF HeapTypes, CellContents
  <1>3. a \in Nat /\ b \in Nat /\ w \in 0..b /\ a + b <= M
    <2>1. a \in Nat /\ b \in 1..MaxCells /\ w \in 0..b /\ a + b <= M
      BY <1>1 DEF LivesOk, LiveSits
    <2> QED
      BY <2>1, HeapAssumption
  <1>4. LiveHandles' = LiveHandles
    BY <1>1 DEF LiveHandles
  <1> HIDE DEF a, b, w, M
  <1>5. a + c + 1 \in 1..M
    BY <1>1, <1>2, <1>3
  <1>6. /\ memory' \in Seq(CellContents) /\ Len(memory') = M /\ memory'[a + c + 1] = v
        /\ \A k \in 1..M : k # a + c + 1 => memory'[k] = memory[k]
    <2> DEFINE i == a + c + 1
    <2>1. memory' = [memory EXCEPT ![i] = v] /\ i \in 1..Len(memory)
      BY <1>1, <1>5 DEF M
    <2> HIDE DEF i
    <2>2. /\ memory' \in Seq(CellContents) /\ Len(memory') = Len(memory) /\ memory'[i] = v
          /\ \A k \in 1..Len(memory) : k # i => memory'[k] = memory[k]
      BY <1>2, <2>1, ExceptSeq
    <2> QED
      BY <2>2 DEF M, i
  <1>7. /\ h \in DOMAIN written /\ DOMAIN written' = DOMAIN written
        /\ \A g \in DOMAIN written : g # h => written'[g] = written[g]
        /\ written'[h] = [k \in DOMAIN written[h] \cup {c} |-> IF k = c THEN v ELSE written[h][k]]
    BY <1>1 DEF HeapTypes, LiveHandles
  <1>8. HeapTypes'
    BY <1>1, <1>6, <1>7 DEF HeapTypes
  <1>9. LivesOk' /\ FreesOk' /\ LiveFreesOk' /\ HandlesOk'
    <2>1. LivesOk'
      BY <1>1, <1>4, <1>6 DEF LivesOk, LiveSits, LivesApart, M
    <2>2. FreesOk'
      BY <1>1, <1>6 DEF FreesOk, FreeSits, FreesApart, M
    <2>3. LiveFreesOk'
      BY <1>1, <1>4 DEF LiveFreesOk, LiveFreeApart
    <2>4. HandlesOk'
      BY <1>1 DEF HandlesOk
    <2> QED
      BY <2>1, <2>2, <2>3, <2>4
  <1>10. ASSUME NEW g \in LiveHandles' PROVE ReadsBack(g)'
    <2>1. CASE g = h
      <3>1. DOMAIN written[h] = 0..w - 1 /\ \A k \in 0..w - 1 : memory[a + k + 1] = written[h][k]
        BY <1>1 DEF ReadsBack, a, w
      <3>2. c \in 0..w - 1
        BY <1>1, <1>2, <1>3
      <3>3. DOMAIN written'[h] = 0..w - 1 /\ written'[h][c] = v /\ \A k \in 0..w - 1 : k # c => written'[h][k] = written[h][k]
        BY <1>7, <3>1, <3>2
      <3>4. ASSUME NEW k \in 0..w - 1 PROVE memory'[a + k + 1] = written'[h][k]
        <4>1. CASE k = c
          BY <1>6, <3>3, <4>1
        <4>2. CASE k # c
          <5>1. a + k + 1 \in 1..M /\ a + k + 1 # a + c + 1
            BY <1>2, <1>3, <4>2
          <5> QED
            BY <1>6, <3>1, <3>3, <4>2, <5>1
        <4> QED
          BY <4>1, <4>2
      <3> QED
        <4>1. slots'[g].offset = a /\ slots'[g].logical = w
          BY <1>1, <2>1 DEF a, w
        <4> QED
          BY <2>1, <3>3, <3>4, <4>1 DEF ReadsBack
    <2>2. CASE g # h
      <3> DEFINE x == slots[g].offset
                 y == slots[g].cells
                 z == slots[g].logical
      <3>1. g \in LiveHandles /\ g \in DOMAIN written /\ written'[g] = written[g]
        BY <1>4, <1>7, <2>2 DEF HeapTypes, LiveHandles
      <3>2. x \in Nat /\ y \in Nat /\ z \in 0..y /\ x + y <= M
        BY <3>1, HeapAssumption DEF LivesOk, LiveSits, M
      <3>3. x + y <= a \/ a + b <= x
        BY <1>1, <2>2, <3>1 DEF LivesOk, LivesApart, Apart, a, b
      <3>4. DOMAIN written[g] = 0..z - 1 /\ \A k \in 0..z - 1 : memory[x + k + 1] = written[g][k]
        BY <3>1 DEF ReadsBack
      <3> HIDE DEF x, y, z
      <3>5. ASSUME NEW k \in 0..z - 1 PROVE memory'[x + k + 1] = memory[x + k + 1]
        <4>1. k \in Int /\ 0 <= k /\ k < y
          BY <3>2
        <4>2. x + k + 1 \in 1..M
          BY <1>2, <3>2, <4>1
        <4>3. c < b
          BY <1>1, <1>2, <1>3
        <4>4. x + k + 1 # a + c + 1
          BY <1>2, <1>3, <3>2, <3>3, <4>1, <4>3
        <4> QED
          BY <1>6, <4>2, <4>4
      <3>6. DOMAIN written'[g] = 0..z - 1 /\ \A k \in 0..z - 1 : memory'[x + k + 1] = written'[g][k]
        BY <3>1, <3>4, <3>5
      <3>7. slots'[g].offset = x /\ slots'[g].logical = z
        BY <1>1 DEF x, z
      <3> QED
        BY <3>6, <3>7 DEF ReadsBack
    <2> QED
      BY <2>1, <2>2
  <1> QED
    BY <1>8, <1>9, <1>10

-----------------------------------------------------------------------------
(* The theorem *)

\* Every step of the heap keeps the invariant.
LEMMA HeapNextInv ==
  ASSUME HeapInv, [HeapNext]_heapVars
  PROVE  HeapInv'
  <1>1. CASE \E req \in Requests : Alloc(req)
    BY <1>1, AllocInv
  <1>2. CASE \E h \in 1..MaxSlots : FreePayload(h)
    BY <1>2, FreePayloadInv
  <1>3. CASE \E h \in 1..MaxSlots : \E c \in 0..MaxCells - 1, v \in CellValues : StoreCell(h, c, v)
    BY <1>3, StoreCellInv
  <1>4. CASE UNCHANGED heapVars
    <2>1. UNCHANGED <<memory, slots, freeHandles, freeOf, written>>
      BY <1>4 DEF heapVars
    <2>2. LiveHandles' = LiveHandles /\ HeapTypes' /\ HandlesOk'
      BY <2>1 DEF HeapInv, HeapTypes, HandlesOk, LiveHandles
    <2>3. LivesOk' /\ LiveFreesOk'
      BY <2>1, <2>2 DEF HeapInv, LivesOk, LiveFreesOk, LiveSits, LivesApart, LiveFreeApart
    <2>4. FreesOk'
      BY <2>1 DEF HeapInv, FreesOk, FreeSits, FreesApart
    <2>5. \A h \in LiveHandles' : ReadsBack(h)'
      BY <2>1, <2>2 DEF HeapInv, ReadsBack
    <2> QED
      BY <2>2, <2>3, <2>4, <2>5 DEF HeapInv
  <1> QED
    BY <1>1, <1>2, <1>3, <1>4 DEF HeapNext

\* Blocks that are apart have no cell in common.
LEMMA ApartExtents ==
  ASSUME NEW a \in Nat, NEW n \in Nat, NEW b \in Nat, NEW m \in Nat, Apart(a, n, b, m)
  PROVE  Extent(a, n) \cap Extent(b, m) = {}
  BY DEF Apart, Extent

\* The invariant says what ObjectsAreApart says.
LEMMA HeapInvIsApart ==
  HeapInv => ObjectsAreApart
  <1> SUFFICES ASSUME HeapInv PROVE ObjectsAreApart
    OBVIOUS
  <1> USE DEF HeapInv
  <1>1. ReadsOwnWrites
    BY DEF ReadsOwnWrites, ReadsBack, LoadCell
  <1>2. \A h \in LiveHandles : slots[h].offset \in Nat /\ slots[h].cells \in Nat
    BY HeapAssumption DEF LivesOk, LiveSits
  <1>3. \A g, h \in LiveHandles : g # h =>
           Extent(slots[g].offset, slots[g].cells) \cap Extent(slots[h].offset, slots[h].cells) = {}
    <2> SUFFICES ASSUME NEW g \in LiveHandles, NEW h \in LiveHandles, g # h
                 PROVE  Extent(slots[g].offset, slots[g].cells) \cap Extent(slots[h].offset, slots[h].cells) = {}
      OBVIOUS
    <2>1. Apart(slots[g].offset, slots[g].cells, slots[h].offset, slots[h].cells)
      BY DEF LivesOk, LivesApart
    <2> QED
      BY <1>2, <2>1, ApartExtents
  <1>4. ASSUME NEW n \in 1..MaxCells
        PROVE  /\ \A k, l \in 1..Len(freeOf[n]) : freeOf[n][k] = freeOf[n][l] => k = l
               /\ \A off \in Range(freeOf[n]) : \A h \in LiveHandles :
                     Extent(off, n) \cap Extent(slots[h].offset, slots[h].cells) = {}
    <2>1. freeOf[n] \in Seq(Nat) /\ n \in Nat /\ n # 0
      BY HeapAssumption DEF HeapTypes
    <2>2. \A k \in 1..Len(freeOf[n]) : freeOf[n][k] \in Nat
      BY <2>1, ElementOfSeq
    <2>3. ASSUME NEW k \in 1..Len(freeOf[n]), NEW l \in 1..Len(freeOf[n]), freeOf[n][k] = freeOf[n][l]
          PROVE  k = l
      <3> SUFFICES ASSUME k # l PROVE FALSE
        OBVIOUS
      <3>1. Apart(freeOf[n][k], n, freeOf[n][l], n)
        BY DEF FreesOk, FreesApart
      <3>2. freeOf[n][k] \in Nat
        BY <2>2
      <3> QED
        BY <2>1, <2>3, <3>1, <3>2 DEF Apart
    <2>4. ASSUME NEW off \in Range(freeOf[n]), NEW h \in LiveHandles
          PROVE  Extent(off, n) \cap Extent(slots[h].offset, slots[h].cells) = {}
      <3>1. PICK k \in 1..Len(freeOf[n]) : off = freeOf[n][k]
        BY <2>1, LenProperties DEF Range
      <3>2. off \in Nat /\ Apart(slots[h].offset, slots[h].cells, off, n)
        BY <2>2, <3>1 DEF LiveFreesOk, LiveFreeApart
      <3>3. Extent(slots[h].offset, slots[h].cells) \cap Extent(off, n) = {}
        BY <1>2, <2>1, <3>2, ApartExtents
      <3> QED
        BY <3>3
    <2> QED
      BY <2>3, <2>4
  <1> QED
    BY <1>1, <1>3, <1>4 DEF ObjectsAreApart, PayloadsDisjoint

\* Whatever is allocated, freed and stored in whatever order (Heap::alloc, freePayload,
\* storeCell), no cell belongs to two objects or to an object and a free list, and every
\* object reads back what was written into it and zero elsewhere.
THEOREM ObjectsStayApart ==
  HeapSpec => []ObjectsAreApart
  <1>1. HeapSpec => []HeapInv
    <2>1. HeapInit => HeapInv
      BY HeapInitInv
    <2>2. HeapInv /\ [HeapNext]_heapVars => HeapInv'
      BY HeapNextInv
    <2> QED
      BY <2>1, <2>2, PTL DEF HeapSpec
  <1>2. HeapInv => ObjectsAreApart
    BY HeapInvIsApart
  <1> QED
    BY <1>1, <1>2, PTL

=============================================================================
