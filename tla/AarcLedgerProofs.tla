-------------------------- MODULE AarcLedgerProofs --------------------------
(***************************************************************************)
(* Running balances of a stream of messages.  A message changes one        *)
(* account (the roots on a handle, the edges between two handles); a       *)
(* function tallies a stream when it takes each message's effect into      *)
(* account in order.  The lemmas say what appending, consuming and folding *)
(* messages do to a tally; folding keeps the balance at both ends of the   *)
(* batch, for every account.                                               *)
(***************************************************************************)
EXTENDS AarcRuntime, AarcEngineProofs, SequenceTheorems

-----------------------------------------------------------------------------
(* The place of a member in a finite set of indexes *)

Rank(S, i) == Cardinality({j \in S : j <= i})

\* The rank counts the members up to i, and grows with i.
LEMMA RankOrder ==
  ASSUME NEW S \in SUBSET Nat, IsFiniteSet(S)
  PROVE  /\ Cardinality(S) \in Nat
         /\ \A i \in S : Rank(S, i) \in 1..Cardinality(S)
         /\ \A i, j \in S : i < j => Rank(S, i) < Rank(S, j)
  <1>1. Cardinality(S) \in Nat
    BY FS_CardinalityType
  <1>2. ASSUME NEW i \in S
        PROVE  Rank(S, i) \in 1..Cardinality(S) /\ IsFiniteSet({j \in S : j <= i})
    <2> DEFINE T == {j \in S : j <= i}
    <2>1. IsFiniteSet(T) /\ Cardinality(T) <= Cardinality(S)
      BY FS_Subset
    <2>2. i \in T
      OBVIOUS
    <2> HIDE DEF T
    <2>3. Cardinality(T) \in Nat /\ Cardinality(T) # 0
      BY <2>1, <2>2, FS_CardinalityType, FS_EmptySet
    <2>4. Rank(S, i) = Cardinality(T)
      BY DEF Rank, T
    <2>5. Rank(S, i) \in 1..Cardinality(S)
      BY <1>1, <2>1, <2>3, <2>4
    <2> QED
      BY <2>1, <2>5 DEF T
  <1>3. ASSUME NEW i \in S, NEW j \in S, i < j PROVE Rank(S, i) < Rank(S, j)
    <2> DEFINE T == {k \in S : k <= i}
               U == {k \in S : k <= j}
    <2>1. IsFiniteSet(U)
      BY FS_Subset
    <2>2. j \in U /\ T \subseteq U \ {j}
      <3>1. i \in Nat /\ j \in Nat /\ \A k \in S : k \in Nat
        OBVIOUS
      <3>2. \A k \in S : k <= i => k <= j /\ k # j
        BY <1>3, <3>1
      <3>3. j \in U
        BY <3>1
      <3>4. ASSUME NEW k \in T PROVE k \in U \ {j}
        BY <3>1, <3>2
      <3> QED
        BY <3>3, <3>4
    <2>3. Rank(S, i) = Cardinality(T) /\ Rank(S, j) = Cardinality(U)
      BY DEF Rank
    <2> HIDE DEF T, U
    <2>4. IsFiniteSet(U \ {j}) /\ Cardinality(U \ {j}) = Cardinality(U) - 1
      BY <2>1, <2>2, FS_RemoveElement
    <2>5. IsFiniteSet(T) /\ Cardinality(T) <= Cardinality(U \ {j})
      BY <2>2, <2>4, FS_Subset
    <2>6. Cardinality(T) \in Nat /\ Cardinality(U) \in Nat
      BY <2>1, <2>5, FS_CardinalityType
    <2> QED
      BY <2>3, <2>4, <2>5, <2>6
  <1> QED
    BY <1>1, <1>2, <1>3

\* Nth is the inverse of the rank.
LEMMA NthIs ==
  ASSUME NEW S \in SUBSET Nat, IsFiniteSet(S), NEW k \in 1..Cardinality(S)
  PROVE  Nth(S, k) \in S /\ Rank(S, Nth(S, k)) = k
  <1> DEFINE f == [i \in S |-> Rank(S, i)]
             n == Cardinality(S)
  <1>1. n \in Nat /\ f \in [S -> 1..n]
    BY RankOrder
  <1>2. \A i, j \in S : f[i] = f[j] => i = j
    <2> SUFFICES ASSUME NEW i \in S, NEW j \in S, f[i] = f[j], i # j PROVE FALSE
      OBVIOUS
    <2>1. Rank(S, i) = Rank(S, j) /\ Rank(S, i) \in Int
      BY RankOrder
    <2>2. i < j \/ j < i
      OBVIOUS
    <2> QED
      BY <2>1, <2>2, RankOrder
  <1>3. IsFiniteSet(1..n) /\ Cardinality(1..n) = n
    BY <1>1, FS_Interval
  <1>4. f \in Injection(S, 1..n)
    BY <1>1, <1>2 DEF Injection, IsInjective
  <1>5. f \in Surjection(S, 1..n)
    <2> HIDE DEF f
    <2> QED
      BY <1>3, <1>4, FS_Injection
  <1>6. \E i \in S : Rank(S, i) = k
    BY <1>5 DEF Surjection
  <1>7. \E i \in S : Cardinality({j \in S : j <= i}) = k
    BY <1>6 DEF Rank
  <1> QED
    BY <1>7 DEF Nth, Rank

-----------------------------------------------------------------------------
(* Accounts and tallies *)

\* <<"root", h, h>> is the account of the roots on h, <<"edge", h, k>> that of the
\* fields of h that refer to k.
Accounts == {"root", "edge"} \X Handles \X Handles
RootAccount(h) == <<"root", h, h>>
EdgeAccount(q) == <<"edge", q[1], q[2]>>

Touches(m, x) == m.a = x[2] /\ m.b = x[3] /\ (IsEdgeOp(m) <=> x[1] = "edge")

Effect(m, x) == IF Touches(m, x) THEN Change(m) ELSE 0

\* f[i] is the balance of account x after the first i messages of s.
Tally(f, s, x) ==
    /\ f \in [Nat -> Nat]
    /\ \A i \in 1..Len(s) : f[i] = f[i - 1] + Effect(s[i], x)

\* The effect of a message is a number.
LEMMA EffectType ==
  ASSUME NEW m \in Messages, NEW x
  PROVE  Effect(m, x) \in Int
  BY DEF Effect, Change, Messages

\* A balance does not move between two messages that touch its account.
LEMMA TallyGap ==
  ASSUME NEW s, Len(s) \in Nat, NEW x, NEW f, Tally(f, s, x), NEW i \in Nat, NEW j \in Nat,
         i <= j, j <= Len(s), \A k \in (i + 1)..j : Effect(s[k], x) = 0
  PROVE  f[j] = f[i]
  <1> DEFINE W == {k \in Nat : i <= k /\ k <= j /\ f[k] # f[i]}
  <1>1. CASE W = {}
    BY <1>1
  <1>2. CASE W # {}
    <2>1. PICK n \in W : \A k \in W : n <= k
      BY <1>2, LeastNatural
    <2>2. n \in Nat /\ i < n /\ n <= j /\ f[n] # f[i]
      BY <2>1
    <2>3. n - 1 \in Nat /\ n - 1 \notin W
      BY <2>1, <2>2
    <2>4. f[n - 1] = f[i]
      BY <2>2, <2>3
    <2>5. n \in 1..Len(s) /\ n \in (i + 1)..j
      BY <2>2
    <2>6. f[n] = f[n - 1] + 0 /\ f[n - 1] \in Nat
      BY <2>3, <2>5 DEF Tally
    <2> QED
      BY <2>2, <2>4, <2>6
  <1> QED
    BY <1>1, <1>2

\* An account no message touches keeps its balance.
LEMMA TallyIdle ==
  ASSUME NEW s, NEW x, NEW n \in Nat, \A k \in 1..Len(s) : Effect(s[k], x) = 0
  PROVE  Tally([i \in Nat |-> n], s, x)
  <1>1. \A k \in 1..Len(s) : k \in Nat /\ k - 1 \in Nat
    OBVIOUS
  <1> QED
    BY <1>1 DEF Tally

\* Staging one more message.
LEMMA TallyAppend ==
  ASSUME NEW s \in Seq(Messages), NEW m \in Messages, NEW x, NEW f, Tally(f, s, x),
         NEW g \in [Nat -> Nat], \A i \in 0..Len(s) : g[i] = f[i],
         g[Len(s) + 1] = f[Len(s)] + Effect(m, x)
  PROVE  Tally(g, Append(s, m), x)
  <1> DEFINE n == Len(s)
  <1>1. n \in Nat
    BY LenProperties
  <1>2. /\ Len(Append(s, m)) = n + 1 /\ Append(s, m)[n + 1] = m
        /\ \A i \in 1..n : Append(s, m)[i] = s[i]
    BY AppendProperties
  <1>3. ASSUME NEW i \in 1..(n + 1) PROVE g[i] = g[i - 1] + Effect(Append(s, m)[i], x)
    <2>1. CASE i = n + 1
      <3>1. i - 1 = n /\ n \in 0..n
        BY <1>1, <2>1
      <3> QED
        BY <1>2, <2>1, <3>1
    <2>2. CASE i # n + 1
      <3>1. i \in 1..n /\ i \in 0..n /\ i - 1 \in 0..n
        <4> HIDE DEF n
        <4> QED
          BY <1>1, <2>2
      <3>2. f[i] = f[i - 1] + Effect(s[i], x)
        BY <3>1 DEF Tally
      <3> QED
        BY <1>2, <3>1, <3>2
    <2> QED
      BY <2>1, <2>2
  <1> QED
    BY <1>2, <1>3 DEF Tally

\* Applying the first message.
LEMMA TallyTail ==
  ASSUME NEW s \in Seq(Messages), s # <<>>, NEW x, NEW f, Tally(f, s, x),
         NEW g \in [Nat -> Nat], \A i \in Nat : g[i] = f[i + 1]
  PROVE  /\ Tally(g, Tail(s), x)
         /\ f[1] = f[0] + Effect(Head(s), x)
  <1>1. /\ Len(Tail(s)) = Len(s) - 1 /\ Len(s) \in Nat \ {0}
        /\ \A i \in 1..Len(Tail(s)) : Tail(s)[i] = s[i + 1]
    BY HeadTailProperties, EmptySeq
  <1>2. Head(s) = s[1]
    BY <1>1
  <1>3. \A i \in 1..Len(Tail(s)) : i \in Nat /\ i - 1 \in Nat /\ i + 1 \in 1..Len(s)
                                   /\ (i - 1) + 1 = i /\ (i + 1) - 1 = i
    BY <1>1
  <1>4. \A i \in 1..Len(Tail(s)) : f[i + 1] = f[i] + Effect(s[i + 1], x)
    BY <1>3 DEF Tally
  <1>6. \A i \in 1..Len(Tail(s)) : g[i] = f[i + 1] /\ g[i - 1] = f[i]
    BY <1>3
  <1>7. Tally(g, Tail(s), x)
    BY <1>1, <1>4, <1>6 DEF Tally
  <1>8. f[1] = f[0] + Effect(s[1], x)
    <2>1. 1 \in 1..Len(s) /\ 1 - 1 = 0
      BY <1>1
    <2> QED
      BY <2>1 DEF Tally
  <1> QED
    BY <1>2, <1>7, <1>8

\* A tally of two streams in a row tallies each of them ...
LEMMA TallySplit ==
  ASSUME NEW s \in Seq(Messages), NEW t \in Seq(Messages), NEW x, NEW f, Tally(f, s \o t, x),
         NEW g \in [Nat -> Nat], \A i \in Nat : g[i] = f[i + Len(s)]
  PROVE  Tally(f, s, x) /\ Tally(g, t, x)
  <1> DEFINE n == Len(s)
             l == Len(t)
             u == s \o t
  <1>1. n \in Nat /\ l \in Nat /\ f \in [Nat -> Nat]
    BY LenProperties DEF Tally
  <1>2. /\ Len(u) = n + l
        /\ \A i \in 1..(n + l) : u[i] = IF i <= n THEN s[i] ELSE t[i - n]
    BY ConcatProperties
  <1>3. \A i \in 1..(n + l) : f[i] = f[i - 1] + Effect(u[i], x)
    BY <1>2 DEF Tally
  <1> HIDE DEF n, l, u
  <1>4. \A i \in 1..n : i \in 1..(n + l) /\ i <= n
    BY <1>1
  <1>5. \A i \in 1..n : f[i] = f[i - 1] + Effect(s[i], x)
    BY <1>2, <1>3, <1>4
  <1>6. \A i \in 1..l : /\ i + n \in 1..(n + l) /\ ~(i + n <= n) /\ (i + n) - n = i
                        /\ i \in Nat /\ i - 1 \in Nat /\ (i + n) - 1 = (i - 1) + n
    BY <1>1
  <1>7. ASSUME NEW i \in 1..l PROVE f[i + n] = f[(i - 1) + n] + Effect(t[i], x)
    <2> DEFINE j == i + n
    <2>1. j \in 1..(n + l) /\ ~(j <= n) /\ j - n = i /\ j - 1 = (i - 1) + n
      BY <1>6
    <2> HIDE DEF j
    <2>2. f[j] = f[j - 1] + Effect(u[j], x) /\ u[j] = t[j - n]
      BY <1>2, <1>3, <2>1
    <2> QED
      BY <2>1, <2>2 DEF j
  <1>8. \A i \in 1..l : g[i] = f[i + n] /\ g[i - 1] = f[(i - 1) + n]
    BY <1>6 DEF n
  <1>9. Tally(f, s, x)
    BY <1>1, <1>5 DEF Tally, n
  <1>10. Tally(g, t, x)
    BY <1>7, <1>8 DEF Tally, l
  <1> QED
    BY <1>9, <1>10

\* ... and two tallies that meet make one of both.
LEMMA TallyConcat ==
  ASSUME NEW s \in Seq(Messages), NEW t \in Seq(Messages), NEW x,
         NEW f, Tally(f, s, x), NEW g, Tally(g, t, x), g[0] = f[Len(s)]
  PROVE  LET h == [i \in Nat |-> IF i <= Len(s) THEN f[i] ELSE g[i - Len(s)]] IN
         /\ Tally(h, s \o t, x)
         /\ h[Len(s \o t)] = g[Len(t)]
         /\ \A i \in 0..Len(s) : h[i] = f[i]
  <1> DEFINE n == Len(s)
             l == Len(t)
             u == s \o t
             h == [i \in Nat |-> IF i <= n THEN f[i] ELSE g[i - n]]
  <1>1. n \in Nat /\ l \in Nat /\ f \in [Nat -> Nat] /\ g \in [Nat -> Nat] /\ g[0] = f[n]
    BY LenProperties DEF Tally
  <1>2. /\ Len(u) = n + l
        /\ \A i \in 1..(n + l) : u[i] = IF i <= n THEN s[i] ELSE t[i - n]
    BY ConcatProperties
  <1>3. \A i \in 1..n : f[i] = f[i - 1] + Effect(s[i], x)
    BY DEF Tally
  <1>4. \A i \in 1..l : g[i] = g[i - 1] + Effect(t[i], x)
    BY DEF Tally
  <1> HIDE DEF n, l, u
  <1>5. /\ h \in [Nat -> Nat]
        /\ \A i \in 0..n : h[i] = f[i]
        /\ \A i \in 0..l : h[i + n] = g[i]
    <2>1. \A i \in Nat : ~(i <= n) => i - n \in Nat
      BY <1>1
    <2>2. h \in [Nat -> Nat] /\ \A i \in 0..n : h[i] = f[i]
      <3>1. \A i \in Nat : (IF i <= n THEN f[i] ELSE g[i - n]) \in Nat
        BY <1>1, <2>1
      <3>2. \A i \in 0..n : i \in Nat /\ i <= n
        BY <1>1
      <3> QED
        BY <3>1, <3>2
    <2>3. ASSUME NEW i \in 0..l PROVE h[i + n] = g[i]
      <3>1. CASE i = 0
        <4>1. i + n \in Nat /\ i + n <= n /\ i + n = n
          BY <1>1, <3>1
        <4> QED
          BY <1>1, <3>1, <4>1
      <3>2. CASE i # 0
        <4>1. i + n \in Nat /\ ~(i + n <= n) /\ (i + n) - n = i
          BY <1>1, <3>2
        <4> QED
          BY <4>1
      <3> QED
        BY <3>1, <3>2
    <2> QED
      BY <2>2, <2>3
  <1> HIDE DEF h
  <1>6. ASSUME NEW i \in 1..(n + l) PROVE h[i] = h[i - 1] + Effect(u[i], x)
    <2>1. CASE i <= n
      <3>1. i \in 1..n /\ i \in 0..n /\ i - 1 \in 0..n
        BY <1>1, <2>1
      <3> QED
        BY <1>2, <1>3, <1>5, <2>1, <3>1
    <2>2. CASE ~(i <= n)
      <3> DEFINE k == i - n
      <3>1. /\ k \in 1..l /\ k \in 0..l /\ k - 1 \in 0..l
            /\ k + n = i /\ (k - 1) + n = i - 1
        BY <1>1, <2>2
      <3>2. u[i] = t[k]
        BY <1>2, <2>2
      <3> HIDE DEF k
      <3>3. h[k + n] = g[k] /\ h[(k - 1) + n] = g[k - 1]
        BY <1>5, <3>1
      <3> QED
        BY <1>4, <3>1, <3>2, <3>3
    <2> QED
      BY <2>1, <2>2
  <1>7. Tally(h, u, x)
    BY <1>2, <1>5, <1>6 DEF Tally
  <1>8. h[Len(u)] = g[l]
    <2>1. l \in 0..l /\ n + l = l + n
      BY <1>1
    <2> QED
      BY <1>2, <1>5, <2>1
  <1> QED
    BY <1>5, <1>7, <1>8 DEF h, n, l, u

-----------------------------------------------------------------------------
(* Folding a batch *)

\* A batch as submit stages it: single operations, none of them a RootCheck.
Staged(s) ==
    /\ s \in Seq(Messages)
    /\ \A i \in 1..Len(s) : /\ s[i].count = 1 /\ s[i].op # "RootCheck"
                            /\ ~IsEdgeOp(s[i]) => s[i].a = s[i].b

\* The places a folded batch keeps are places of the batch, the first among them.
LEMMA KeptIs ==
  ASSUME NEW s, Staged(s)
  PROVE  /\ Len(s) \in Nat /\ Kept(s) \in SUBSET Nat /\ Kept(s) \subseteq 1..Len(s)
         /\ IsFiniteSet(Kept(s)) /\ Cardinality(Kept(s)) \in Nat
         /\ Cardinality(Kept(s)) <= Len(s)
         /\ s # <<>> => Cardinality(Kept(s)) >= 1
  <1>1. Len(s) \in Nat
    BY LenProperties DEF Staged
  <1>2. Kept(s) \subseteq 1..Len(s) /\ Kept(s) \in SUBSET Nat
    BY <1>1 DEF Kept
  <1>3. IsFiniteSet(1..Len(s)) /\ Cardinality(1..Len(s)) = Len(s)
    <2> DEFINE n == Len(s)
    <2> HIDE DEF n
    <2>1. n \in Nat
      BY <1>1 DEF n
    <2>2. IsFiniteSet(1..n) /\ Cardinality(1..n) = n
      BY <2>1, FS_Interval
    <2> QED
      BY <2>2 DEF n
  <1>4. IsFiniteSet(Kept(s)) /\ Cardinality(Kept(s)) <= Len(s)
    BY <1>2, <1>3, FS_Subset
  <1>5. Cardinality(Kept(s)) \in Nat
    BY <1>4, FS_CardinalityType
  <1>6. ASSUME s # <<>> PROVE Cardinality(Kept(s)) >= 1
    <2>1. Len(s) # 0
      BY <1>6, EmptySeq DEF Staged
    <2>2. 1 \in 1..Len(s) /\ \A j \in 1..Len(s) : 1 <= j
      BY <1>1, <2>1
    <2>3. 1 \in Kept(s)
      BY <2>2 DEF Kept, RootOpsOn
    <2>4. Cardinality(Kept(s)) # 0
      BY <1>4, <2>3, FS_EmptySet
    <2> QED
      BY <1>5, <2>4
  <1> QED
    BY <1>1, <1>2, <1>4, <1>5, <1>6

\* The net effect of the root operations on a handle is a number.
LEMMA NetRootsType ==
  ASSUME NEW s, Staged(s), NEW h
  PROVE  /\ NetRoots(s, h) \in Int
         /\ IsFiniteSet(RootOpsOn(s, h))
  <1> DEFINE R == RootOpsOn(s, h)
             A == {i \in R : s[i].op = "RootAdd"}
  <1>1. IsFiniteSet(1..Len(s))
    BY KeptIs, FS_Interval
  <1>2. R \subseteq 1..Len(s) /\ A \subseteq 1..Len(s)
    BY DEF RootOpsOn
  <1>3. IsFiniteSet(R) /\ IsFiniteSet(A)
    <2> HIDE DEF R, A
    <2> QED
      BY <1>1, <1>2, FS_Subset
  <1>4. Cardinality(R) \in Nat /\ Cardinality(A) \in Nat
    BY <1>3, FS_CardinalityType
  <1>5. NetRoots(s, h) = 2 * Cardinality(A) - Cardinality(R)
    BY DEF NetRoots
  <1> HIDE DEF R, A
  <1>6. NetRoots(s, h) \in Int
    BY <1>4, <1>5
  <1> QED
    BY <1>3, <1>6 DEF R

\* What stands at place k of a folded batch.
LEMMA FoldedAt ==
  ASSUME NEW s, Staged(s), NEW k \in 1..Cardinality(Kept(s))
  PROVE  LET i == Nth(Kept(s), k)
             m == s[i] IN
         /\ i \in Kept(s) /\ i \in 1..Len(s) /\ Rank(Kept(s), i) = k
         /\ m \in Messages
         /\ Folded(s)[k] = IF IsRootOp(m) THEN NetRootOp(m, NetRoots(s, m.b)) ELSE m
         /\ Folded(s)[k] \in Messages
         /\ Folded(s)[k].a = m.a /\ Folded(s)[k].b = m.b
         /\ IsEdgeOp(Folded(s)[k]) <=> IsEdgeOp(m)
         /\ IsEdgeOp(m) => Folded(s)[k] = m
         /\ ~IsEdgeOp(m) => Change(Folded(s)[k]) = NetRoots(s, m.b)
  <1> DEFINE K == Kept(s)
             i == Nth(Kept(s), k)
             m == s[i]
             v == Folded(s)[k]
  <1>1. i \in K /\ i \in 1..Len(s) /\ Rank(K, i) = k
    BY KeptIs, NthIs
  <1>2. m \in Messages /\ m.op # "RootCheck" /\ m.count = 1
    BY <1>1, ElementOfSeq DEF Staged
  <1>3. v = IF IsRootOp(m) THEN NetRootOp(m, NetRoots(s, m.b)) ELSE m
    BY DEF Folded
  <1>4. NetRoots(s, m.b) \in Int
    BY NetRootsType
  <1> HIDE DEF v, m
  <1>5. CASE IsRootOp(m)
    <2> DEFINE d == NetRoots(s, m.b)
    <2>1. v = NetRootOp(m, d) /\ d \in Int /\ ~IsEdgeOp(m)
      BY <1>3, <1>4, <1>5 DEF IsRootOp, IsEdgeOp
    <2> HIDE DEF d
    <2>2. v \in Messages /\ v.a = m.a /\ v.b = m.b
      <3>1. CASE d > 0
        <4>1. d \in Nat /\ v = [m EXCEPT !.op = "RootAdd", !.count = d]
          BY <2>1, <3>1 DEF NetRootOp
        <4> QED
          BY <1>2, <4>1 DEF Messages
      <3>2. CASE d < 0
        <4>1. -d \in Nat /\ v = [m EXCEPT !.op = "RootRemove", !.count = -d]
          BY <2>1, <3>2 DEF NetRootOp
        <4> QED
          BY <1>2, <4>1 DEF Messages
      <3>3. CASE d = 0
        <4>1. v = [m EXCEPT !.op = "RootCheck", !.count = 0]
          BY <2>1, <3>3 DEF NetRootOp
        <4> QED
          BY <1>2, <4>1 DEF Messages
      <3> QED
        BY <2>1, <3>1, <3>2, <3>3
    <2>3. ~IsEdgeOp(v) /\ Change(v) = d
      BY <1>2, <2>1 DEF NetRootOp, Messages, IsEdgeOp, Change
    <2> QED
      BY <1>1, <1>2, <1>3, <2>1, <2>2, <2>3 DEF d, v, m
  <1>6. CASE ~IsRootOp(m)
    <2>1. v = m /\ IsEdgeOp(m)
      BY <1>2, <1>3, <1>6 DEF IsRootOp, IsEdgeOp, Messages
    <2> QED
      BY <1>1, <1>2, <1>3, <2>1 DEF v, m
  <1> QED
    BY <1>5, <1>6

\* A folded batch is a sequence of messages, no longer than the batch.
LEMMA FoldedType ==
  ASSUME NEW s, Staged(s)
  PROVE  /\ Folded(s) \in Seq(Messages)
         /\ Len(Folded(s)) = Cardinality(Kept(s)) /\ Len(Folded(s)) <= Len(s)
         /\ s # <<>> => Folded(s) # <<>>
  <1> DEFINE n == Cardinality(Kept(s))
             F == Folded(s)
  <1>1. n \in Nat /\ n <= Len(s) /\ (s # <<>> => n >= 1)
    BY KeptIs
  <1>2. \A k \in 1..n : F[k] \in Messages
    BY FoldedAt
  <1>3. DOMAIN F = 1..n /\ F = [k \in 1..n |-> F[k]]
    BY DEF Folded
  <1> HIDE DEF n, F
  <1>4. F \in [1..n -> Messages]
    BY <1>2, <1>3
  <1>5. F \in Seq(Messages) /\ Len(F) = n
    BY <1>1, <1>4, SeqDef
  <1>6. s # <<>> => F # <<>>
    BY <1>1, <1>5, EmptySeq
  <1> QED
    BY <1>1, <1>5, <1>6 DEF n, F

\* A staged message moves a root account exactly when it is a root operation on it.
LEMMA StagedEffect ==
  ASSUME NEW s, Staged(s), NEW h, NEW i \in 1..Len(s)
  PROVE  Effect(s[i], RootAccount(h)) = IF i \notin RootOpsOn(s, h) THEN 0
                                        ELSE IF s[i].op = "RootAdd" THEN 1 ELSE -1
  <1> DEFINE m == s[i]
             x == RootAccount(h)
  <1>1. m \in Messages /\ m.count = 1 /\ m.op # "RootCheck" /\ (~IsEdgeOp(m) => m.a = m.b)
    BY ElementOfSeq DEF Staged
  <1>2. i \in RootOpsOn(s, h) <=> IsRootOp(m) /\ m.b = h
    BY DEF RootOpsOn
  <1> HIDE DEF m
  <1>3. IsRootOp(m) <=> ~IsEdgeOp(m)
    BY <1>1 DEF IsRootOp, IsEdgeOp, Messages
  <1>4. Touches(m, x) <=> IsRootOp(m) /\ m.b = h
    BY <1>1, <1>3 DEF Touches, RootAccount
  <1>5. IsRootOp(m) => Change(m) = IF m.op = "RootAdd" THEN 1 ELSE -1
    BY <1>1 DEF IsRootOp, Change
  <1> QED
    BY <1>2, <1>4, <1>5 DEF Effect, m

\* The net effect of a batch on a root account is what folding computes.
LEMMA NetIsSum ==
  ASSUME NEW s, Staged(s), NEW h, NEW f, Tally(f, s, RootAccount(h))
  PROVE  f[Len(s)] = f[0] + NetRoots(s, h)
  <1> DEFINE x == RootAccount(h)
             l == Len(s)
             R(i) == {j \in RootOpsOn(s, h) : j <= i}
             A(i) == {j \in RootOpsOn(s, h) : s[j].op = "RootAdd" /\ j <= i}
             net(i) == 2 * Cardinality(A(i)) - Cardinality(R(i))
             W == {i \in 0..l : f[i] # f[0] + net(i)}
  <1>1. l \in Nat /\ f \in [Nat -> Nat]
    BY KeptIs DEF Tally
  <1>2. \A j \in RootOpsOn(s, h) : j \in 1..l
    BY DEF RootOpsOn
  <1>3. ASSUME NEW i
        PROVE  /\ IsFiniteSet(R(i)) /\ IsFiniteSet(A(i))
               /\ Cardinality(R(i)) \in Nat /\ Cardinality(A(i)) \in Nat
    <2>1. R(i) \subseteq RootOpsOn(s, h) /\ A(i) \subseteq RootOpsOn(s, h)
      OBVIOUS
    <2>2. IsFiniteSet(R(i)) /\ IsFiniteSet(A(i))
      <3> HIDE DEF R, A
      <3> QED
        BY <2>1, NetRootsType, FS_Subset
    <2> QED
      BY <2>2, FS_CardinalityType
  <1>4. CASE W # {}
    <2>1. W \in SUBSET Nat
      BY <1>1
    <2>2. PICK n \in W : \A k \in W : n <= k
      <3> HIDE DEF W
      <3> QED
        BY <1>4, <2>1, LeastNatural
    <2>3. n \in 0..l /\ f[n] # f[0] + net(n)
      BY <2>2
    <2>4. n # 0
      <3>1. R(0) = {} /\ A(0) = {}
        <4>1. \A j \in RootOpsOn(s, h) : ~(j <= 0)
          BY <1>1, <1>2
        <4> QED
          BY <4>1
      <3>2. Cardinality(R(0)) = 0 /\ Cardinality(A(0)) = 0
        <4> HIDE DEF R, A
        <4> QED
          BY <3>1, FS_EmptySet
      <3>3. net(0) = 0 /\ f[0] \in Nat
        BY <1>1, <3>2
      <3> HIDE DEF net
      <3> QED
        BY <2>3, <3>3
    <2> DEFINE p == n - 1
    <2>5. p \in 0..l /\ n \in 1..l /\ p + 1 = n /\ p < n
      BY <1>1, <2>3, <2>4
    <2>6. f[p] = f[0] + net(p)
      <3>1. p \notin W
        <4> HIDE DEF W
        <4> QED
          BY <2>2, <2>3, <2>5
      <3> QED
        BY <2>5, <3>1
    <2>7. f[n] = f[p] + Effect(s[n], x) /\ f[n] \in Nat /\ f[p] \in Nat /\ f[0] \in Nat
      BY <1>1, <2>5 DEF Tally
    <2> DEFINE Q == RootOpsOn(s, h)
    <2>10. (\A j \in Q : j <= n <=> j <= p \/ j = n) /\ ~(n <= p)
      <3>1. \A j \in Q : j \in Int
        BY <1>1, <1>2
      <3>2. n \in Int /\ p = n - 1
        BY <2>3, <1>1
      <3> HIDE DEF Q, p
      <3> QED
        BY <3>1, <3>2
    <2> HIDE DEF p, Q
    <2>11. \A i : R(i) = {j \in Q : j <= i} /\ A(i) = {j \in Q : s[j].op = "RootAdd" /\ j <= i}
      BY DEF Q
    <2>8. CASE n \notin Q
      <3>1. R(n) = R(p) /\ A(n) = A(p)
        BY <2>8, <2>10, <2>11
      <3>2. Effect(s[n], x) = 0
        BY <2>5, <2>8, StagedEffect DEF Q
      <3>3. net(n) = net(p) /\ net(p) \in Int
        <4>1. Cardinality(A(p)) \in Nat /\ Cardinality(R(p)) \in Nat
          BY <1>3
        <4> HIDE DEF A, R
        <4> QED
          BY <3>1, <4>1
      <3> HIDE DEF net
      <3> QED
        BY <2>3, <2>6, <2>7, <3>2, <3>3
    <2>9. CASE n \in Q
      <3>1. n \notin R(p) /\ n \notin A(p) /\ R(n) = R(p) \cup {n}
        <4>1. n \notin R(p) /\ n \notin A(p)
          BY <2>10, <2>11
        <4>2. \A j : j \in R(n) <=> j \in R(p) \/ j = n
          BY <2>9, <2>10, <2>11
        <4> QED
          BY <4>1, <4>2
      <3>2. Cardinality(R(n)) = Cardinality(R(p)) + 1
        <4> HIDE DEF R
        <4> QED
          BY <1>3, <3>1, FS_AddElement
      <3>3. CASE s[n].op = "RootAdd"
        <4>1. A(n) = A(p) \cup {n}
          BY <2>9, <2>10, <2>11, <3>3
        <4>2. Cardinality(A(n)) = Cardinality(A(p)) + 1
          <5> HIDE DEF A
          <5> QED
            BY <1>3, <3>1, <4>1, FS_AddElement
        <4>3. Effect(s[n], x) = 1
          BY <2>5, <2>9, <3>3, StagedEffect DEF Q
        <4>4. net(n) = net(p) + 1 /\ net(p) \in Int
          <5>1. Cardinality(A(p)) \in Nat /\ Cardinality(R(p)) \in Nat
            BY <1>3
          <5> HIDE DEF A, R
          <5> QED
            BY <3>2, <4>2, <5>1
        <4> HIDE DEF net
        <4> QED
          BY <2>3, <2>6, <2>7, <4>3, <4>4
      <3>4. CASE s[n].op # "RootAdd"
        <4>1. A(n) = A(p)
          BY <2>9, <2>10, <2>11, <3>4
        <4>2. Effect(s[n], x) = -1
          BY <2>5, <2>9, <3>4, StagedEffect DEF Q
        <4>3. net(n) = net(p) - 1 /\ net(p) \in Int
          <5>1. Cardinality(A(p)) \in Nat /\ Cardinality(R(p)) \in Nat
            BY <1>3
          <5> HIDE DEF A, R
          <5> QED
            BY <3>2, <4>1, <5>1
        <4> HIDE DEF net
        <4> QED
          BY <2>3, <2>6, <2>7, <4>2, <4>3
      <3> QED
        BY <3>3, <3>4
    <2> QED
      BY <2>8, <2>9
  <1>5. CASE W = {}
    <2>1. l \in 0..l
      BY <1>1
    <2>2. f[l] = f[0] + net(l)
      BY <1>5, <2>1
    <2>3. R(l) = RootOpsOn(s, h) /\ A(l) = {i \in RootOpsOn(s, h) : s[i].op = "RootAdd"}
      BY <1>1, <1>2
    <2>4. net(l) = NetRoots(s, h)
      BY <2>3 DEF NetRoots
    <2> QED
      BY <2>2, <2>4
  <1> QED
    BY <1>4, <1>5

\* The k-th kept place, with place 0 before the batch.
Place(S, k) == IF k = 0 THEN 0 ELSE Nth(S, k)

\* Places are in order, and no member lies between two neighbouring places.
LEMMA PlacesInOrder ==
  ASSUME NEW S \in SUBSET (Nat \ {0}), IsFiniteSet(S), NEW k \in 0..Cardinality(S)
  PROVE  /\ Cardinality(S) \in Nat /\ Place(S, k) \in Nat
         /\ k # 0 => Place(S, k - 1) \in Nat /\ Place(S, k - 1) < Place(S, k)
         /\ \A l \in S : l > Place(S, k) => k < Cardinality(S) /\ l >= Place(S, k + 1)
  <1> DEFINE n == Cardinality(S)
  <1>1. n \in Nat /\ (\A i \in S : Rank(S, i) \in 1..n)
                  /\ \A i, j \in S : i < j => Rank(S, i) < Rank(S, j)
    BY RankOrder
  <1>2. \A j \in 1..n : Nth(S, j) \in S /\ Rank(S, Nth(S, j)) = j
    BY NthIs
  <1>3. \A i \in S : i \in Nat /\ i > 0
    OBVIOUS
  <1> HIDE DEF n
  <1>4. k \in Nat /\ k <= n
    BY <1>1 DEF n
  <1>5. Place(S, k) \in Nat
    <2>1. CASE k = 0
      BY <2>1 DEF Place
    <2>2. CASE k # 0
      <3>1. k \in 1..n
        BY <1>1, <1>4, <2>2
      <3> QED
        BY <1>2, <1>3, <2>2, <3>1 DEF Place
    <2> QED
      BY <2>1, <2>2
  <1>6. ASSUME k # 0 PROVE Place(S, k - 1) \in Nat /\ Place(S, k - 1) < Place(S, k)
    <2> DEFINE i == Nth(S, k)
               j == Nth(S, k - 1)
    <2>1. i \in S /\ Rank(S, i) = k /\ Place(S, k) = i /\ i \in Nat /\ i > 0
      <3>1. k \in 1..n
        BY <1>1, <1>4, <1>6
      <3> QED
        BY <1>2, <1>3, <1>6, <3>1 DEF Place
    <2>2. CASE k = 1
      BY <2>1, <2>2 DEF Place
    <2>3. CASE k # 1
      <3>1. k - 1 \in 1..n /\ k - 1 # 0
        BY <1>1, <1>4, <1>6, <2>3
      <3>2. j \in S /\ Rank(S, j) = k - 1 /\ Place(S, k - 1) = j /\ j \in Nat
        BY <1>2, <1>3, <3>1 DEF Place
      <3> HIDE DEF i, j
      <3>3. i # j
        BY <1>4, <2>1, <3>2
      <3>4. ~(i < j)
        <4>1. i < j => k < k - 1
          BY <1>1, <2>1, <3>2
        <4> QED
          BY <1>4, <4>1
      <3> QED
        BY <2>1, <3>2, <3>3, <3>4
    <2> QED
      BY <2>2, <2>3
  <1>7. ASSUME NEW l \in S, l > Place(S, k) PROVE k < n /\ l >= Place(S, k + 1)
    <2>1. Rank(S, l) \in 1..n /\ l \in Nat
      BY <1>1, <1>3
    <2>2. Rank(S, l) > k
      <3>1. CASE k = 0
        BY <1>1, <2>1, <3>1
      <3>2. CASE k # 0
        <4>1. k \in 1..n
          BY <1>1, <1>4, <3>2
        <4>2. Nth(S, k) \in S /\ Rank(S, Nth(S, k)) = k /\ Nth(S, k) = Place(S, k)
          BY <1>2, <3>2, <4>1 DEF Place
        <4>3. Nth(S, k) < l
          BY <1>3, <1>7, <4>2
        <4>4. Rank(S, Nth(S, k)) < Rank(S, l)
          BY <1>1, <4>2, <4>3
        <4> QED
          BY <1>4, <2>1, <4>2, <4>4
      <3> QED
        BY <3>1, <3>2
    <2>3. k < n /\ k + 1 \in 1..n /\ k + 1 # 0
      BY <1>1, <1>4, <2>1, <2>2
    <2> DEFINE i == Nth(S, k + 1)
    <2>4. i \in S /\ Rank(S, i) = k + 1 /\ Place(S, k + 1) = i /\ i \in Nat
      BY <1>2, <1>3, <2>3 DEF Place
    <2> HIDE DEF i
    <2>5. ~(l < i)
      <3>1. l < i => Rank(S, l) < k + 1
        BY <1>1, <2>4
      <3> QED
        BY <1>4, <2>1, <2>2, <3>1
    <2> QED
      BY <2>1, <2>3, <2>4, <2>5
  <1> QED
    BY <1>1, <1>5, <1>6, <1>7 DEF n

\* Folding keeps every edge operation, so an edge account goes through the same
\* balances.
LEMMA FoldKeepsEdges ==
  ASSUME NEW s, Staged(s), NEW x, x[1] = "edge", NEW f, Tally(f, s, x)
  PROVE  \E g : /\ Tally(g, Folded(s), x)
                /\ g[0] = f[0] /\ g[Len(Folded(s))] = f[Len(s)]
  <1> DEFINE K == Kept(s)
             n == Cardinality(K)
             l == Len(s)
             F == Folded(s)
             g == [k \in Nat |-> IF k \in 1..n THEN f[Place(K, k)] ELSE f[0]]
  <1>1. /\ l \in Nat /\ n \in Nat /\ IsFiniteSet(K) /\ K \in SUBSET (Nat \ {0})
        /\ K \subseteq 1..l /\ f \in [Nat -> Nat]
    <2>1. l \in Nat /\ n \in Nat /\ IsFiniteSet(K) /\ K \subseteq 1..l /\ f \in [Nat -> Nat]
      BY KeptIs DEF Tally
    <2>2. \A i \in K : i \in Nat \ {0}
      <3> HIDE DEF l, K
      <3> QED
        BY <2>1
    <2> QED
      BY <2>1, <2>2
  <1>2. \A k \in 0..n : Place(K, k) \in Nat
    BY <1>1, PlacesInOrder
  <1>3. \A k \in 1..n : /\ Place(K, k - 1) \in Nat /\ Place(K, k) \in Nat
                        /\ Place(K, k - 1) < Place(K, k) /\ Place(K, k) \in 1..l
                        /\ Place(K, k) = Nth(K, k)
    <2> SUFFICES ASSUME NEW k \in 1..n
                 PROVE  /\ Place(K, k - 1) \in Nat /\ Place(K, k) \in Nat
                        /\ Place(K, k - 1) < Place(K, k) /\ Place(K, k) \in 1..l
                        /\ Place(K, k) = Nth(K, k)
      OBVIOUS
    <2>1. k \in 0..n /\ k # 0
      BY <1>1
    <2>2. Place(K, k) = Nth(K, k) /\ Nth(K, k) \in K
      BY <1>1, <2>1, NthIs DEF Place
    <2> QED
      BY <1>1, <2>1, <2>2, PlacesInOrder
  <1>4. ASSUME NEW i \in 1..l, i \notin K PROVE Effect(s[i], x) = 0
    <2>1. IsRootOp(s[i])
      BY <1>4 DEF Kept
    <2>2. ~IsEdgeOp(s[i])
      BY <2>1 DEF IsRootOp, IsEdgeOp
    <2> QED
      BY <2>2 DEF Effect, Touches
  <1>5. /\ \A k \in 0..n : g[k] = f[Place(K, k)]
        /\ g \in [Nat -> Nat] /\ g[0] = f[0]
    <2>1. Place(K, 0) = 0 /\ 0 \notin 1..n
      BY <1>1 DEF Place
    <2>2. \A k \in 0..n : k \in Nat /\ (k = 0 \/ k \in 1..n)
      BY <1>1
    <2>3. \A k \in Nat : (IF k \in 1..n THEN f[Place(K, k)] ELSE f[0]) \in Nat
      BY <1>1, <1>3
    <2> HIDE DEF n, K
    <2> QED
      BY <2>1, <2>2, <2>3
  <1> HIDE DEF g
  <1>6. ASSUME NEW k \in 1..n PROVE g[k] = g[k - 1] + Effect(F[k], x)
    <2> DEFINE i == Place(K, k)
               j == Place(K, k - 1)
    <2>1. i \in Nat /\ j \in Nat /\ j < i /\ i \in 1..l /\ i = Nth(K, k)
      BY <1>3
    <2>2. k - 1 \in 0..n /\ k \in 0..n /\ k - 1 < n
      <3> HIDE DEF n
      <3> QED
        BY <1>1
    <2>3. \A e \in K : e > j => e >= i
      <3>1. k = (k - 1) + 1
        BY <1>1
      <3>2. \A e \in K : e > Place(K, k - 1) => e >= Place(K, (k - 1) + 1)
        <4> DEFINE kk == k - 1
        <4>1. kk \in 0..n
          BY <2>2
        <4> HIDE DEF kk
        <4>2. \A e \in K : e > Place(K, kk) => e >= Place(K, kk + 1)
          BY <1>1, <4>1, PlacesInOrder
        <4> QED
          BY <4>2 DEF kk
      <3> QED
        BY <3>1, <3>2
    <2> HIDE DEF i, j
    <2>4. \A e \in (j + 1)..(i - 1) : e \in 1..l /\ e \notin K
      <3> HIDE DEF l, K
      <3>1. \A e \in (j + 1)..(i - 1) : e \in 1..l /\ e > j /\ ~(e >= i)
        BY <1>1, <2>1
      <3> QED
        BY <2>3, <3>1
    <2>5. f[i - 1] = f[j]
      <3> DEFINE h == i - 1
      <3>1. h \in Nat /\ j <= h /\ h <= l
        <4> HIDE DEF l
        <4> QED
          BY <1>1, <2>1
      <3>2. \A e \in (j + 1)..h : Effect(s[e], x) = 0
        BY <1>4, <2>4
      <3> HIDE DEF h
      <3>3. Len(s) \in Nat /\ h <= Len(s) /\ j \in Nat
        BY <1>1, <2>1, <3>1
      <3>4. f[h] = f[j]
        <4> HIDE DEF K, n, l, F
        <4> QED
          BY <3>1, <3>2, <3>3, TallyGap
      <3> QED
        BY <3>4 DEF h
    <2>6. f[i] = f[i - 1] + Effect(s[i], x)
      BY <2>1 DEF Tally
    <2>7. Effect(F[k], x) = Effect(s[i], x)
      <3>1. /\ F[k].a = s[i].a /\ F[k].b = s[i].b /\ (IsEdgeOp(F[k]) <=> IsEdgeOp(s[i]))
            /\ IsEdgeOp(s[i]) => F[k] = s[i]
        BY <2>1, FoldedAt
      <3> QED
        BY <3>1 DEF Effect, Touches
    <2>8. g[k] = f[i] /\ g[k - 1] = f[j]
      BY <1>5, <2>2 DEF i, j
    <2> QED
      BY <2>5, <2>6, <2>7, <2>8
  <1>7. Len(F) = n
    BY FoldedType
  <1>8. Tally(g, F, x)
    <2> HIDE DEF n, F
    <2> QED
      BY <1>5, <1>6, <1>7 DEF Tally
  <1>9. g[n] = f[l]
    <2> DEFINE j == Place(K, n)
    <2>1. n \in 0..n /\ ~(n < n)
      <3> HIDE DEF n, K, l, F
      <3> QED
        BY <1>1
    <2>2. j \in Nat /\ \A e \in K : ~(e > j)
      <3> HIDE DEF K, l, F
      <3> QED
        BY <1>1, <2>1, PlacesInOrder
    <2>3. j <= l
      <3>1. CASE n = 0
        BY <1>1, <3>1 DEF Place
      <3>2. CASE n # 0
        <4> HIDE DEF n, K, l, F
        <4>1. n \in 1..n
          BY <1>1, <3>2
        <4> QED
          BY <1>1, <1>3, <4>1
      <3> QED
        BY <3>1, <3>2
    <2>4. g[n] = f[j]
      BY <1>5, <2>1
    <2> HIDE DEF j
    <2>5. \A e \in (j + 1)..l : e \in 1..l /\ e \notin K
      BY <1>1, <2>2, <2>3
    <2>6. \A e \in (j + 1)..l : Effect(s[e], x) = 0
      BY <1>4, <2>5
    <2>7. f[l] = f[j]
      <3>1. l \in Nat /\ Len(s) \in Nat /\ l <= Len(s)
        BY <1>1
      <3> HIDE DEF K, n, l, F
      <3> QED
        BY <2>2, <2>3, <2>6, <3>1, TallyGap
    <2> QED
      BY <2>4, <2>7
  <1> QED
    BY <1>5, <1>7, <1>8, <1>9

\* Folding gives a root account its net effect at the place of the first operation.
LEMMA FoldKeepsRoots ==
  ASSUME NEW s, Staged(s), NEW h, NEW f, Tally(f, s, RootAccount(h))
  PROVE  \E g : /\ Tally(g, Folded(s), RootAccount(h))
                /\ g[0] = f[0] /\ g[Len(Folded(s))] = f[Len(s)]
  <1> DEFINE x == RootAccount(h)
             K == Kept(s)
             n == Cardinality(K)
             l == Len(s)
             F == Folded(s)
             R == RootOpsOn(s, h)
  <1>1. /\ l \in Nat /\ n \in Nat /\ IsFiniteSet(K) /\ K \in SUBSET Nat
        /\ K \subseteq 1..l /\ f \in [Nat -> Nat] /\ f[0] \in Nat /\ f[l] \in Nat
    BY KeptIs DEF Tally
  <1>2. Len(F) = n
    BY FoldedType
  <1>3. ASSUME NEW k \in 1..n
        PROVE  /\ Nth(K, k) \in K /\ Rank(K, Nth(K, k)) = k
               /\ Effect(F[k], x) = IF Nth(K, k) \in R THEN NetRoots(s, h) ELSE 0
    <2> DEFINE i == Nth(K, k)
    <2>1. /\ i \in K /\ i \in 1..Len(s) /\ Rank(K, i) = k /\ s[i] \in Messages
          /\ F[k].a = s[i].a /\ F[k].b = s[i].b /\ (IsEdgeOp(F[k]) <=> IsEdgeOp(s[i]))
          /\ ~IsEdgeOp(s[i]) => Change(F[k]) = NetRoots(s, s[i].b)
      BY FoldedAt
    <2> HIDE DEF i, F
    <2>2. s[i].op # "RootCheck" /\ (~IsEdgeOp(s[i]) => s[i].a = s[i].b)
      BY <2>1 DEF Staged
    <2>3. IsRootOp(s[i]) <=> ~IsEdgeOp(s[i])
      BY <2>1, <2>2 DEF IsRootOp, IsEdgeOp, Messages
    <2>4. i \in R <=> ~IsEdgeOp(s[i]) /\ s[i].b = h
      BY <2>1, <2>3 DEF RootOpsOn
    <2>5. Touches(F[k], x) <=> i \in R
      BY <2>1, <2>2, <2>4 DEF Touches, RootAccount
    <2> QED
      BY <2>1, <2>4, <2>5 DEF Effect, i
  <1>4. f[l] = f[0] + NetRoots(s, h)
    BY NetIsSum
  <1>5. CASE R = {}
    <2>1. \A i \in 1..l : Effect(s[i], x) = 0
      BY <1>5, StagedEffect
    <2>2. f[l] = f[0]
      <3>1. \A i \in (0 + 1)..l : Effect(s[i], x) = 0
        BY <2>1
      <3>2. Len(s) \in Nat /\ 0 \in Nat /\ 0 <= Len(s) /\ Len(s) <= Len(s)
        BY <1>1
      <3> HIDE DEF x
      <3>3. \A i \in (0 + 1)..Len(s) : Effect(s[i], x) = 0
        BY <3>1
      <3>4. Tally(f, s, x)
        BY DEF x
      <3> HIDE DEF l, K, n, F, R
      <3>5. f[Len(s)] = f[0]
        BY <3>2, <3>3, <3>4, TallyGap
      <3> QED
        BY <3>5 DEF l
    <2> DEFINE g == [i \in Nat |-> f[0]]
    <2>3. \A k \in 1..Len(F) : Effect(F[k], x) = 0
      BY <1>2, <1>3, <1>5
    <2>4. Tally(g, F, x)
      <3> HIDE DEF F, x
      <3> QED
        BY <1>1, <2>3, TallyIdle
    <2>5. g[0] = f[0] /\ g[n] = f[l]
      BY <1>1, <2>2
    <2> HIDE DEF g
    <2> QED
      BY <1>2, <2>4, <2>5
  <1>6. CASE R # {}
    <2>1. R \in SUBSET Nat /\ R \subseteq 1..l
      <3>1. R \subseteq 1..l
        BY DEF RootOpsOn
      <3>2. \A i \in 1..l : i \in Nat
        BY <1>1
      <3> HIDE DEF R, l
      <3> QED
        BY <3>1, <3>2
    <2>2. PICK r \in R : \A i \in R : r <= i
      <3> HIDE DEF R
      <3> QED
        BY <1>6, <2>1, LeastNatural
    <2>3. s[r].b = h /\ IsRootOp(s[r]) /\ r \in 1..l
      BY <2>2 DEF RootOpsOn
    <2>4. r \in K
      BY <2>2, <2>3 DEF Kept
    <2>5. \A i \in K : i \in R => i = r
      <3> SUFFICES ASSUME NEW i \in K, i \in R PROVE i = r
        OBVIOUS
      <3>1. s[i].b = h /\ IsRootOp(s[i])
        BY DEF RootOpsOn
      <3>2. \A j \in R : i <= j
        BY <3>1 DEF Kept
      <3>3. i <= r /\ r <= i /\ i \in Nat /\ r \in Nat
        <4> HIDE DEF R
        <4> QED
          BY <2>1, <2>2, <3>2
      <3> QED
        BY <3>3
    <2> DEFINE z == Rank(K, r)
               g == [i \in Nat |-> IF i < z THEN f[0] ELSE f[l]]
    <2>6. z \in 1..n
      BY <1>1, <2>4, RankOrder
    <2>7. \A k \in 1..n : Nth(K, k) \in R <=> k = z
      <3> SUFFICES ASSUME NEW k \in 1..n PROVE Nth(K, k) \in R <=> k = z
        OBVIOUS
      <3> DEFINE i == Nth(K, k)
      <3>1. i \in K /\ Rank(K, i) = k
        BY <1>3
      <3>2. i \in R => k = z
        BY <2>5, <3>1
      <3>3. k = z => i = r
        <4> SUFFICES ASSUME Rank(K, i) = Rank(K, r), i # r PROVE FALSE
          BY <3>1
        <4>1. i \in Nat /\ r \in Nat /\ Rank(K, r) \in Int
          BY <1>1, <2>4, <2>6, <3>1
        <4>2. i < r \/ r < i
          BY <4>1
        <4>3. Rank(K, i) < Rank(K, r) \/ Rank(K, r) < Rank(K, i)
          BY <1>1, <2>4, <3>1, <4>2, RankOrder
        <4> QED
          BY <4>1, <4>3
      <3> QED
        BY <2>2, <3>2, <3>3
    <2> HIDE DEF z
    <2>8. g \in [Nat -> Nat] /\ g[0] = f[0] /\ g[n] = f[l]
      <3> HIDE DEF n, l
      <3>1. n \in Nat /\ z \in 1..n /\ 0 < z /\ ~(n < z) /\ f[0] \in Nat /\ f[l] \in Nat
        BY <1>1, <2>6
      <3> QED
        BY <3>1
    <2>9. ASSUME NEW k \in 1..n PROVE g[k] = g[k - 1] + Effect(F[k], x)
      <3>1. Effect(F[k], x) = IF k = z THEN NetRoots(s, h) ELSE 0
        BY <1>3, <2>7
      <3> HIDE DEF n, l, F
      <3>2. k \in Nat /\ k - 1 \in Nat /\ z \in Nat
        BY <1>1, <2>6
      <3>3. /\ g[k] = IF k < z THEN f[0] ELSE f[l]
            /\ g[k - 1] = IF k - 1 < z THEN f[0] ELSE f[l]
        BY <3>2
      <3> HIDE DEF g
      <3>4. CASE k = z
        <4>1. ~(k < z) /\ k - 1 < z
          BY <3>2, <3>4
        <4> QED
          BY <1>4, <3>1, <3>3, <3>4, <4>1
      <3>5. CASE k # z
        <4>1. k < z <=> k - 1 < z
          BY <3>2, <3>5
        <4> QED
          BY <1>1, <3>1, <3>3, <3>5, <4>1
      <3> QED
        BY <3>4, <3>5
    <2> HIDE DEF g
    <2>10. Tally(g, F, x)
      <3> HIDE DEF F, x, n
      <3> QED
        BY <1>2, <2>8, <2>9 DEF Tally
    <2> QED
      BY <1>2, <2>8, <2>10
  <1> QED
    BY <1>5, <1>6

\* foldBatch: every account has the same balance before and after the folded batch
\* as before and after the batch, and is never negative in between.
LEMMA TallyFolded ==
  ASSUME NEW s, Staged(s), NEW x \in Accounts, NEW f, Tally(f, s, x)
  PROVE  \E g : /\ Tally(g, Folded(s), x)
                /\ g[0] = f[0] /\ g[Len(Folded(s))] = f[Len(s)]
  <1>1. x = <<x[1], x[2], x[3]>> /\ x[1] \in {"root", "edge"}
    BY DEF Accounts
  <1>2. CASE x[1] = "edge"
    BY <1>2, FoldKeepsEdges
  <1>3. CASE x[1] = "root" /\ x[2] = x[3]
    <2>1. x = RootAccount(x[2])
      BY <1>1, <1>3 DEF RootAccount
    <2> QED
      BY <2>1, FoldKeepsRoots
  <1>4. CASE x[1] = "root" /\ x[2] # x[3]
    <2>1. \A i \in 1..Len(s) : Effect(s[i], x) = 0
      BY <1>4 DEF Staged, Effect, Touches
    <2>2. \A k \in 1..Len(Folded(s)) : Effect(Folded(s)[k], x) = 0
      <3> SUFFICES ASSUME NEW k \in 1..Len(Folded(s)) PROVE Effect(Folded(s)[k], x) = 0
        OBVIOUS
      <3> DEFINE i == Nth(Kept(s), k)
                 F == Folded(s)
      <3>1. k \in 1..Cardinality(Kept(s))
        BY FoldedType
      <3>2. /\ i \in 1..Len(s) /\ F[k].a = s[i].a /\ F[k].b = s[i].b
            /\ IsEdgeOp(F[k]) <=> IsEdgeOp(s[i])
        BY <3>1, FoldedAt
      <3> HIDE DEF F, i
      <3>3. ~IsEdgeOp(F[k]) => F[k].a = F[k].b
        BY <3>2 DEF Staged
      <3>4. Effect(F[k], x) = 0
        BY <1>4, <3>3 DEF Effect, Touches
      <3> QED
        BY <3>4 DEF F
    <2>3. Len(s) \in Nat /\ f[0] \in Nat /\ Len(Folded(s)) \in Nat
      BY KeptIs, FoldedType DEF Tally
    <2>4. f[Len(s)] = f[0]
      <3>1. \A i \in (0 + 1)..Len(s) : Effect(s[i], x) = 0
        BY <2>1
      <3> QED
        BY <2>3, <3>1, TallyGap
    <2> DEFINE g == [i \in Nat |-> f[0]]
    <2>5. Tally(g, Folded(s), x)
      BY <2>2, <2>3, TallyIdle
    <2>6. g[0] = f[0] /\ g[Len(Folded(s))] = f[Len(s)]
      BY <2>3, <2>4
    <2> HIDE DEF g
    <2> QED
      BY <2>5, <2>6
  <1> QED
    BY <1>1, <1>2, <1>3, <1>4

-----------------------------------------------------------------------------
(* The accounts of one producer: what it published, then what it staged *)

Ledgers == [Accounts -> [Nat -> Nat]]

\* F holds the balances of every account along the stream s.
Keeps(F, s) == F \in Ledgers /\ \A x \in Accounts : Tally(F[x], s, x)

\* Staging a message extends the balances by one.
LEMMA StageLedger ==
  ASSUME NEW q \in Seq(Messages), NEW s \in Seq(Messages), NEW m \in Messages,
         NEW F, Keeps(F, q \o s),
         \A x \in Accounts : F[x][Len(q \o s)] + Effect(m, x) \in Nat
  PROVE  \E G : /\ Keeps(G, q \o Append(s, m))
                /\ \A x \in Accounts :
                     /\ G[x][Len(q \o Append(s, m))] = F[x][Len(q \o s)] + Effect(m, x)
                     /\ \A i \in 0..Len(q) : G[x][i] = F[x][i]
  <1> DEFINE u == q \o s
             n == Len(u)
             w(x) == F[x][n] + Effect(m, x)
             G == [x \in Accounts |-> [F[x] EXCEPT ![n + 1] = w(x)]]
  <1>1. u \in Seq(Messages) /\ n = Len(q) + Len(s) /\ n \in Nat /\ Len(q) \in Nat /\ Len(s) \in Nat
    BY ConcatProperties, LenProperties
  <1>2. q \o Append(s, m) = Append(u, m)
    OBVIOUS
  <1>3. ASSUME NEW x \in Accounts
        PROVE  /\ Tally(G[x], Append(u, m), x)
               /\ G[x][Len(Append(u, m))] = w(x)
               /\ \A i \in 0..n : G[x][i] = F[x][i]
    <2>1. Tally(F[x], u, x) /\ w(x) \in Nat
      BY DEF Keeps
    <2> DEFINE f == F[x]
               v == w(x)
               g == G[x]
    <2>2. f \in [Nat -> Nat]
      BY <2>1 DEF Tally
    <2>3. Tally(f, u, x) /\ v \in Nat /\ v = f[Len(u)] + Effect(m, x)
      BY <2>1
    <2>4. g \in [Nat -> Nat] /\ g = [f EXCEPT ![n + 1] = v]
      BY <2>2, <2>3
    <2>5. (\A i \in 0..n : g[i] = f[i]) /\ g[n + 1] = v
      <3> HIDE DEF f, v, n, g
      <3> QED
        BY <1>1, <2>2, <2>4
    <2> HIDE DEF f, v, u, g
    <2>6. Tally(g, Append(u, m), x)
      BY <1>1, <2>3, <2>4, <2>5, TallyAppend
    <2>7. Len(Append(u, m)) = n + 1
      BY <1>1, AppendProperties
    <2>8. g[Len(Append(u, m))] = v
      <3> HIDE DEF n
      <3> QED
        BY <2>5, <2>7
    <2> QED
      BY <2>5, <2>6, <2>8 DEF f, v, g
  <1>4. \A i \in 0..Len(q) : i \in 0..n
    BY <1>1
  <1> HIDE DEF u, n
  <1>5. G \in Ledgers
    <2>1. \A x \in Accounts : G[x] \in [Nat -> Nat]
      BY <1>3 DEF Tally
    <2> QED
      BY <2>1 DEF Ledgers
  <1> HIDE DEF G
  <1>6. Keeps(G, Append(u, m))
    BY <1>3, <1>5 DEF Keeps
  <1> QED
    BY <1>2, <1>3, <1>4, <1>6 DEF u, n

\* Folding the staged messages keeps the balances before and after them.
LEMMA FoldLedger ==
  ASSUME NEW q \in Seq(Messages), NEW s, Staged(s), NEW F, Keeps(F, q \o s)
  PROVE  \E G : /\ Keeps(G, q \o Folded(s))
                /\ \A x \in Accounts :
                     /\ G[x][Len(q \o Folded(s))] = F[x][Len(q \o s)]
                     /\ \A i \in 0..Len(q) : G[x][i] = F[x][i]
  <1> DEFINE u == q \o Folded(s)
             Good(x, g) == /\ Tally(g, u, x) /\ g[Len(u)] = F[x][Len(q \o s)]
                           /\ \A i \in 0..Len(q) : g[i] = F[x][i]
             G == [x \in Accounts |-> CHOOSE g : Good(x, g)]
  <1>1. s \in Seq(Messages) /\ Folded(s) \in Seq(Messages)
    BY FoldedType DEF Staged
  <1>2. ASSUME NEW x \in Accounts PROVE \E g : Good(x, g)
    <2> DEFINE f == F[x]
               e == [i \in Nat |-> f[i + Len(q)]]
    <2>1. Tally(f, q \o s, x)
      BY DEF Keeps
    <2> HIDE DEF f
    <2>3. /\ Len(q) \in Nat /\ Len(s) \in Nat /\ Len(q \o s) = Len(q) + Len(s)
      BY <1>1, ConcatProperties, LenProperties
    <2>2. Tally(f, q, x) /\ Tally(e, s, x)
      <3>1. \A i \in Nat : f[i + Len(q)] \in Nat
        BY <2>1, <2>3 DEF Tally
      <3>2. e \in [Nat -> Nat] /\ \A i \in Nat : e[i] = f[i + Len(q)]
        BY <3>1
      <3> HIDE DEF e
      <3> QED
        BY <1>1, <2>1, <3>2, TallySplit
    <2>4. e[0] = f[Len(q)] /\ e[Len(s)] = f[Len(q \o s)]
      <3>1. 0 + Len(q) = Len(q) /\ Len(s) + Len(q) = Len(q) + Len(s)
        BY <2>3
      <3> QED
        BY <2>3, <3>1
    <2> HIDE DEF e
    <2>5. PICK d : /\ Tally(d, Folded(s), x)
                   /\ d[0] = e[0] /\ d[Len(Folded(s))] = e[Len(s)]
      BY <2>2, TallyFolded
    <2> DEFINE h == [i \in Nat |-> IF i <= Len(q) THEN f[i] ELSE d[i - Len(q)]]
    <2>6. /\ Tally(h, q \o Folded(s), x) /\ h[Len(q \o Folded(s))] = d[Len(Folded(s))]
          /\ \A i \in 0..Len(q) : h[i] = f[i]
      BY <1>1, <2>2, <2>4, <2>5, TallyConcat
    <2> HIDE DEF h
    <2>7. Good(x, h)
      BY <2>4, <2>5, <2>6 DEF f
    <2> QED
      BY <2>7
  <1> HIDE DEF Good
  <1>3. \A x \in Accounts : Good(x, G[x])
    BY <1>2
  <1>4. G = [x \in Accounts |-> G[x]]
    OBVIOUS
  <1> HIDE DEF G
  <1>5. \A x \in Accounts : G[x] \in [Nat -> Nat]
    BY <1>3 DEF Good, Tally
  <1>6. G \in Ledgers
    BY <1>4, <1>5 DEF Ledgers
  <1>7. Keeps(G, u)
    BY <1>3, <1>6 DEF Keeps, Good
  <1> QED
    BY <1>3, <1>7 DEF Good

\* Every message of an outgoing batch stands for a staged one on the same handles.
LEMMA OutgoingType ==
  ASSUME NEW s, Staged(s), s # <<>>
  PROVE  /\ Outgoing(s) \in Seq(Messages) /\ Outgoing(s) # <<>> /\ Len(Outgoing(s)) <= Len(s)
         /\ \A k \in 1..Len(Outgoing(s)) : \E i \in 1..Len(s) :
              /\ Outgoing(s)[k].a = s[i].a /\ Outgoing(s)[k].b = s[i].b
              /\ IsEdgeOp(Outgoing(s)[k]) <=> IsEdgeOp(s[i])
  <1>1. s \in Seq(Messages) /\ Len(s) \in Nat
    BY KeptIs DEF Staged
  <1>2. CASE Fold
    <2>1. Outgoing(s) = Folded(s)
      BY <1>2 DEF Outgoing
    <2>2. \A k \in 1..Len(Folded(s)) : \E i \in 1..Len(s) :
              /\ Folded(s)[k].a = s[i].a /\ Folded(s)[k].b = s[i].b
              /\ IsEdgeOp(Folded(s)[k]) <=> IsEdgeOp(s[i])
      <3> SUFFICES ASSUME NEW k \in 1..Len(Folded(s))
                   PROVE  \E i \in 1..Len(s) :
                            /\ Folded(s)[k].a = s[i].a /\ Folded(s)[k].b = s[i].b
                            /\ IsEdgeOp(Folded(s)[k]) <=> IsEdgeOp(s[i])
        OBVIOUS
      <3>1. k \in 1..Cardinality(Kept(s))
        BY FoldedType
      <3> QED
        BY <3>1, FoldedAt
    <2> QED
      BY <2>1, <2>2, FoldedType
  <1>3. CASE ~Fold
    <2>1. Outgoing(s) = s
      BY <1>3 DEF Outgoing
    <2> QED
      BY <1>1, <2>1
  <1> QED
    BY <1>2, <1>3

\* Publishing a batch, folded or not, keeps the balances before and after it.
LEMMA OutgoingLedger ==
  ASSUME NEW q \in Seq(Messages), NEW s, Staged(s), NEW F, Keeps(F, q \o s)
  PROVE  \E G : /\ Keeps(G, q \o Outgoing(s))
                /\ \A x \in Accounts :
                     /\ G[x][Len(q \o Outgoing(s))] = F[x][Len(q \o s)]
                     /\ \A i \in 0..Len(q) : G[x][i] = F[x][i]
  <1>1. CASE Fold
    <2>1. Outgoing(s) = Folded(s)
      BY <1>1 DEF Outgoing
    <2> QED
      BY <2>1, FoldLedger
  <1>2. CASE ~Fold
    <2>1. Outgoing(s) = s
      BY <1>2 DEF Outgoing
    <2> QED
      BY <2>1
  <1> QED
    BY <1>1, <1>2
=============================================================================
