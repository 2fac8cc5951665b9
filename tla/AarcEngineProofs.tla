-------------------------- MODULE AarcEngineProofs --------------------------
(***************************************************************************)
(* What the engine's operations do to a table that agrees with the         *)
(* references it has been told about.  Counts are cardinalities of sets    *)
(* of numbered copies, so no step needs a sum.                             *)
(***************************************************************************)
EXTENDS AarcEngine, TLAPS, FiniteSetTheorems

-----------------------------------------------------------------------------
(* Reachability in a finite graph *)

\* The start nodes are reachable, and reachability is closed under the edges.
LEMMA ReachClosed ==
  ASSUME NEW N, NEW R, NEW S, S \subseteq N
  PROVE  /\ S \subseteq ReachIn(N, R, S)
         /\ ReachIn(N, R, S) \subseteq N
         /\ ClosedIn(N, R, ReachIn(N, R, S))
  BY DEF ReachIn, ClosedIn

\* Reachability is the least closed set around the start nodes.
LEMMA ReachLeast ==
  ASSUME NEW N, NEW R, NEW S, NEW X, X \subseteq N, S \subseteq X, ClosedIn(N, R, X)
  PROVE  ReachIn(N, R, S) \subseteq X
  BY DEF ReachIn

\* Fewer start nodes and fewer edges reach no more.
LEMMA ReachMonotone ==
  ASSUME NEW N, NEW R, NEW S, NEW R2, NEW S2, S \subseteq N,
         S2 \subseteq ReachIn(N, R, S),
         \A x \in ReachIn(N, R, S) : \A y \in N : <<x, y>> \in R2 => y \in ReachIn(N, R, S)
  PROVE  ReachIn(N, R2, S2) \subseteq ReachIn(N, R, S)
  <1>1. ClosedIn(N, R2, ReachIn(N, R, S))
    BY DEF ClosedIn
  <1>2. ReachIn(N, R, S) \subseteq N
    BY ReachClosed
  <1> QED
    BY <1>1, <1>2, ReachLeast

\* Edges that leave unreachable nodes do not matter: two graphs that agree on the
\* edges of the reachable nodes reach the same nodes (reclaiming a garbage row
\* changes nothing for the rest).
LEMMA ReachSame ==
  ASSUME NEW N, NEW R, NEW S, NEW R2, S \subseteq N,
         \A x \in ReachIn(N, R, S) : \A y \in N : <<x, y>> \in R2 <=> <<x, y>> \in R
  PROVE  ReachIn(N, R2, S) = ReachIn(N, R, S)
  <1>1. /\ S \subseteq ReachIn(N, R, S) /\ S \subseteq ReachIn(N, R2, S)
        /\ ReachIn(N, R2, S) \subseteq N
        /\ ClosedIn(N, R, ReachIn(N, R, S)) /\ ClosedIn(N, R2, ReachIn(N, R2, S))
    BY ReachClosed
  <1>2. ReachIn(N, R2, S) \subseteq ReachIn(N, R, S)
    BY <1>1, ReachMonotone DEF ClosedIn
  <1>3. ClosedIn(N, R, ReachIn(N, R2, S))
    BY <1>1, <1>2 DEF ClosedIn
  <1>4. ReachIn(N, R, S) \subseteq ReachIn(N, R2, S)
    BY <1>1, <1>3, ReachLeast
  <1> QED
    BY <1>2, <1>4

\* Nodes without a start node among them and without an edge from outside are
\* unreachable: a garbage component, or a cell without references.
LEMMA ReachAvoids ==
  ASSUME NEW N, NEW R, NEW S, NEW X, S \subseteq N, S \cap X = {},
         \A x \in N \ X : \A y \in X : <<x, y>> \notin R
  PROVE  ReachIn(N, R, S) \cap X = {}
  <1>1. ClosedIn(N, R, N \ X)
    BY DEF ClosedIn
  <1>2. ReachIn(N, R, S) \subseteq N \ X
    BY <1>1, ReachLeast
  <1> QED
    BY <1>2

\* What a reachable node reaches is reachable.
LEMMA ReachFrom ==
  ASSUME NEW N, NEW R, NEW S, S \subseteq N, NEW d \in ReachIn(N, R, S)
  PROVE  ReachIn(N, R, {d}) \subseteq ReachIn(N, R, S)
  <1>1. {d} \subseteq ReachIn(N, R, S) /\ ReachIn(N, R, S) \subseteq N
        /\ ClosedIn(N, R, ReachIn(N, R, S))
    BY ReachClosed
  <1> QED
    BY <1>1, ReachLeast

-----------------------------------------------------------------------------
(* Counting *)

\* Every non-empty set of naturals has a least member.
LEMMA LeastNatural ==
  ASSUME NEW S \in SUBSET Nat, S # {}
  PROVE  \E n \in S : \A k \in S : n <= k
  <1> DEFINE R == {ss \in Nat \X Nat : ss[1] < ss[2]}
  <1>1. IsWellFoundedOn(R, Nat)
    BY NatLessThanWellFounded DEF OpToRel
  <1>2. PICK n \in S : \A k \in S : ~(<<k, n>> \in R)
    <2> HIDE DEF R
    <2> QED
      BY <1>1, WFMin
  <1>3. \A k \in S : ~(k < n)
    BY <1>2
  <1> QED
    BY <1>3

\* A one-to-one map onto a set counts it.
LEMMA CardinalityByBijection ==
  ASSUME NEW S, NEW T, IsFiniteSet(S), NEW g \in [S -> T],
         \A x, y \in S : g[x] = g[y] => x = y,
         \A t \in T : \E x \in S : g[x] = t
  PROVE  IsFiniteSet(T) /\ Cardinality(T) = Cardinality(S)
  <1>1. g \in Injection(S, T)
    BY DEF Injection, IsInjective
  <1>2. g \in Surjection(S, T)
    BY DEF Surjection
  <1>3. ExistsBijection(S, T)
    BY <1>1, <1>2 DEF ExistsBijection, Bijection
  <1> QED
    BY <1>3, FS_Bijection

-----------------------------------------------------------------------------
(* Copies *)

\* A copy is a member and a number.
LEMMA CopyIs ==
  ASSUME NEW S, NEW f
  PROVE  /\ \A t \in Copies(S, f) : t = <<t[1], t[2]>>
         /\ \A x, k : <<x, k>> \in Copies(S, f) <=> x \in S /\ k \in 1..f[x]
  BY DEF Copies

\* Finitely many members with finitely many copies each.
LEMMA CopiesFinite ==
  ASSUME NEW S, IsFiniteSet(S), NEW f, \A x \in S : f[x] \in Nat
  PROVE  IsFiniteSet(Copies(S, f)) /\ Cardinality(Copies(S, f)) \in Nat
  <1> DEFINE g == [x \in S |-> {x} \X (1..f[x])]
             T == {g[x] : x \in S}
  <1>1. g \in Surjection(S, T)
    BY DEF Surjection
  <1>2. IsFiniteSet(T)
    BY <1>1, FS_Surjection
  <1>3. \A y \in T : IsFiniteSet(y)
    <2> SUFFICES ASSUME NEW x \in S PROVE IsFiniteSet({x} \X (1..f[x]))
      OBVIOUS
    <2>1. IsFiniteSet({x})
      BY FS_Singleton
    <2>2. f[x] \in Int /\ 1 \in Int
      OBVIOUS
    <2>3. IsFiniteSet(1..f[x])
      BY <2>2, FS_Interval
    <2> QED
      BY <2>1, <2>3, FS_Product
  <1>4. Copies(S, f) = UNION T
    BY DEF Copies
  <1>5. IsFiniteSet(Copies(S, f))
    BY <1>2, <1>3, <1>4, FS_UNION
  <1> QED
    BY <1>5, FS_CardinalityType

\* Disjoint finite sets add up.
LEMMA CardinalitySplit ==
  ASSUME NEW A, NEW B, NEW C, IsFiniteSet(A), IsFiniteSet(B), A \cap B = {}, C = A \cup B
  PROVE  Cardinality(C) = Cardinality(A) + Cardinality(B)
  <1>1. Cardinality(A) \in Nat /\ Cardinality(B) \in Nat
    BY FS_CardinalityType
  <1>2. Cardinality(A \cup B) = Cardinality(A) + Cardinality(B) - Cardinality(A \cap B)
    BY FS_Union
  <1>3. Cardinality(A \cap B) = 0
    BY FS_EmptySet
  <1> QED
    BY <1>1, <1>2, <1>3

\* The copies of a set that falls into two parts.
LEMMA CopiesSplit ==
  ASSUME NEW S, NEW A, NEW B, IsFiniteSet(S), NEW f, \A x \in S : f[x] \in Nat,
         S = A \cup B, A \cap B = {}
  PROVE  Cardinality(Copies(S, f)) = Cardinality(Copies(A, f)) + Cardinality(Copies(B, f))
  <1>1. IsFiniteSet(A) /\ IsFiniteSet(B)
    BY FS_Subset
  <1>2. IsFiniteSet(Copies(A, f)) /\ IsFiniteSet(Copies(B, f))
    BY <1>1, CopiesFinite
  <1>3. Copies(S, f) = Copies(A, f) \cup Copies(B, f) /\ Copies(A, f) \cap Copies(B, f) = {}
    BY DEF Copies
  <1> QED
    BY <1>2, <1>3, CardinalitySplit

\* The copies of one member.
LEMMA CopiesOne ==
  ASSUME NEW x, NEW f, f[x] \in Nat
  PROVE  Cardinality(Copies({x}, f)) = f[x]
  <1> DEFINE g == [k \in 1..f[x] |-> <<x, k>>]
  <1> DEFINE C == Copies({x}, f)
  <1>1. \A t : t \in C <=> \E k \in 1..f[x] : t = <<x, k>>
    BY DEF Copies
  <1>2. IsFiniteSet(1..f[x]) /\ Cardinality(1..f[x]) = f[x]
    BY FS_Interval
  <1> HIDE DEF C
  <1>3. g \in [1..f[x] -> C]
    <2>1. \A k \in 1..f[x] : <<x, k>> \in C
      BY <1>1
    <2> QED
      BY <2>1
  <1>7. \A k \in 1..f[x] : g[k] = <<x, k>>
    OBVIOUS
  <1> HIDE DEF g
  <1>4. \A j, k \in 1..f[x] : g[j] = g[k] => j = k
    BY <1>7
  <1>5. \A t \in C : \E k \in 1..f[x] : g[k] = t
    BY <1>1, <1>7
  <1>6. Cardinality(C) = f[x]
    BY <1>2, <1>3, <1>4, <1>5, CardinalityByBijection
  <1> QED
    BY <1>6 DEF C

\* Only the number of copies matters.
LEMMA CopiesSame ==
  ASSUME NEW S, NEW f, NEW g, \A x \in S : f[x] = g[x]
  PROVE  Copies(S, f) = Copies(S, g)
  BY DEF Copies

\* Changing one member's number of copies changes the total by the difference.
LEMMA CopiesUpdate ==
  ASSUME NEW S, IsFiniteSet(S), NEW f, NEW g, NEW x \in S,
         \A y \in S : f[y] \in Nat /\ g[y] \in Nat,
         \A y \in S \ {x} : g[y] = f[y]
  PROVE  Cardinality(Copies(S, g)) = Cardinality(Copies(S, f)) + g[x] - f[x]
  <1> DEFINE T == S \ {x}
  <1>1. S = T \cup {x} /\ T \cap {x} = {}
    OBVIOUS
  <1>2. /\ Cardinality(Copies(S, f)) = Cardinality(Copies(T, f)) + Cardinality(Copies({x}, f))
        /\ Cardinality(Copies(S, g)) = Cardinality(Copies(T, g)) + Cardinality(Copies({x}, g))
    <2> HIDE DEF T
    <2> QED
      BY <1>1, CopiesSplit
  <1>3. Copies(T, f) = Copies(T, g)
    BY CopiesSame
  <1>4. Cardinality(Copies({x}, f)) = f[x] /\ Cardinality(Copies({x}, g)) = g[x]
    BY CopiesOne
  <1>5. IsFiniteSet(T)
    BY FS_Subset
  <1>6. Cardinality(Copies(T, f)) \in Nat
    BY <1>5, CopiesFinite
  <1> QED
    BY <1>2, <1>3, <1>4, <1>6

\* A member has no more copies than there are.
LEMMA CopiesBound ==
  ASSUME NEW S, IsFiniteSet(S), NEW f, \A y \in S : f[y] \in Nat, NEW x \in S
  PROVE  f[x] <= Cardinality(Copies(S, f))
  <1>1. Copies({x}, f) \subseteq Copies(S, f)
    BY DEF Copies
  <1>2. IsFiniteSet(Copies(S, f))
    BY CopiesFinite
  <1>3. Cardinality(Copies({x}, f)) <= Cardinality(Copies(S, f))
    BY <1>1, <1>2, FS_Subset
  <1>4. Cardinality(Copies({x}, f)) = f[x]
    BY CopiesOne
  <1> QED
    BY <1>3, <1>4

\* Nothing has a copy exactly when the total is zero.
LEMMA CopiesZero ==
  ASSUME NEW S, IsFiniteSet(S), NEW f, \A y \in S : f[y] \in Nat
  PROVE  Cardinality(Copies(S, f)) = 0 <=> \A x \in S : f[x] = 0
  <1>1. ASSUME Cardinality(Copies(S, f)) = 0, NEW x \in S PROVE f[x] = 0
    BY <1>1, CopiesBound
  <1>2. ASSUME \A x \in S : f[x] = 0 PROVE Cardinality(Copies(S, f)) = 0
    <2>1. Copies(S, f) = {}
      BY <1>2 DEF Copies
    <2> QED
      BY <2>1, FS_EmptySet
  <1> QED
    BY <1>1, <1>2

\* Counting a set by the parts it falls into: the copies of the parts, each taken as
\* often as its members have copies, are as many as those of the members.
LEMMA CopiesByPart ==
  ASSUME NEW S, NEW Q, NEW Of, NEW f, NEW n, IsFiniteSet(S), IsFiniteSet(Q),
         \A q \in Q : f[q] \in Nat,
         \A q : q \in Q <=> \E c \in S : q \in Of[c],
         \A c, d \in S : \A q : q \in Of[c] /\ q \in Of[d] => c = d,
         \A c \in S : n[c] = Cardinality(Copies(Of[c], f))
  PROVE  Cardinality(Copies(S, n)) = Cardinality(Copies(Q, f))
  <1> DEFINE B == [c \in S |-> CHOOSE b : b \in Bijection(1..n[c], Copies(Of[c], f))]
             g == [t \in Copies(S, n) |-> B[t[1]][t[2]]]
  <1>1. ASSUME NEW c \in S
        PROVE  n[c] \in Nat /\ B[c] \in Bijection(1..n[c], Copies(Of[c], f))
    <2>1. IsFiniteSet(Of[c]) /\ Of[c] \subseteq Q
      BY FS_Subset
    <2>2. IsFiniteSet(Copies(Of[c], f)) /\ n[c] \in Nat
      BY <2>1, CopiesFinite
    <2>3. ExistsBijection(1..n[c], Copies(Of[c], f))
      BY <2>2, FS_CardinalityType
    <2> QED
      BY <2>2, <2>3 DEF ExistsBijection
  <1> HIDE DEF B
  <1>2. ASSUME NEW c \in S
        PROVE  /\ \A k \in 1..n[c] : B[c][k] \in Copies(Of[c], f)
               /\ \A j, k \in 1..n[c] : B[c][j] = B[c][k] => j = k
               /\ \A t \in Copies(Of[c], f) : \E k \in 1..n[c] : B[c][k] = t
    <2>1. B[c] \in Injection(1..n[c], Copies(Of[c], f)) /\ B[c] \in Surjection(1..n[c], Copies(Of[c], f))
      BY <1>1 DEF Bijection
    <2>2. B[c] \in [1..n[c] -> Copies(Of[c], f)] /\ IsInjective(B[c])
      BY <2>1 DEF Injection
    <2>3. \A j, k \in 1..n[c] : B[c][j] = B[c][k] => j = k
      BY <2>2 DEF IsInjective
    <2>4. \A t \in Copies(Of[c], f) : \E k \in 1..n[c] : B[c][k] = t
      BY <2>1 DEF Surjection
    <2> QED
      BY <2>2, <2>3, <2>4
  <1>3. \A t : t \in Copies(Q, f) <=> \E c \in S : t \in Copies(Of[c], f)
    BY DEF Copies
  <1>4. \A c, d \in S : \A t : t \in Copies(Of[c], f) /\ t \in Copies(Of[d], f) => c = d
    BY DEF Copies
  <1>5. \A t : t \in Copies(S, n) <=> \E c \in S : \E k \in 1..n[c] : t = <<c, k>>
    BY DEF Copies
  <1>6. g \in [Copies(S, n) -> Copies(Q, f)]
    BY <1>2, <1>3, <1>5
  <1>7. \A t, u \in Copies(S, n) : g[t] = g[u] => t = u
    BY <1>2, <1>4, <1>5
  <1>8. ASSUME NEW u \in Copies(Q, f) PROVE \E t \in Copies(S, n) : g[t] = u
    <2>1. PICK c \in S : u \in Copies(Of[c], f)
      BY <1>3
    <2>2. PICK k \in 1..n[c] : B[c][k] = u
      BY <2>1, <1>2
    <2>3. <<c, k>> \in Copies(S, n)
      BY <1>5
    <2>4. g[<<c, k>>] = u
      BY <2>2, <2>3
    <2> QED
      BY <2>3, <2>4
  <1>9. IsFiniteSet(Copies(S, n))
    BY <1>1, CopiesFinite
  <1> HIDE DEF g
  <1> QED
    BY <1>6, <1>7, <1>8, <1>9, CardinalityByBijection

-----------------------------------------------------------------------------
(* The reference table *)

Pairs == Handles \X Handles

\* The pairs whose target lies in cell c.
Into(c) == {q \in Pairs : Index(q[2]) = c}

\* The edge count of every row is the number of edge records into the cell.
EdgesExact(e) == \A c \in Cells : e.edge[c] = Cardinality(Copies(Into(c), e.out))

\* Both ends of an edge record are live objects.
RecordsLive(e, pl) == \A q \in Pairs : e.out[q] > 0 => Valid(pl, q[1]) /\ Valid(pl, q[2])

\* Nothing outside the cells of G has an edge record into them.
NoRecordInto(e, G) ==
    \A q \in Pairs : e.out[q] > 0 /\ Index(q[2]) \in G => Index(q[1]) \in G

\* There are finitely many handles.
LEMMA HandlesFinite ==
  /\ IsFiniteSet(Handles) /\ IsFiniteSet(Pairs)
  /\ \A c : IsFiniteSet(Into(c))
  /\ \A h \in Handles : Index(h) \in Cells /\ Gen(h) \in 0..MaxGen /\ h = <<Index(h), Gen(h)>>
  <1>1. IsFiniteSet(Cells) /\ MaxGen \in Int
    BY EngineAssumption
  <1>2. IsFiniteSet(0..MaxGen)
    BY <1>1, FS_Interval
  <1>3. IsFiniteSet(Handles)
    BY <1>1, <1>2, FS_Product DEF Handles
  <1>4. IsFiniteSet(Pairs)
    BY <1>3, FS_Product DEF Pairs
  <1>5. \A c : Into(c) \subseteq Pairs
    BY DEF Into
  <1> QED
    BY <1>3, <1>4, <1>5, FS_Subset DEF Handles, Index, Gen

\* hasNoExternalRefs (ECR = 0) means what it says: over an exact table, every edge
\* record into the component starts inside it.
LEMMA NoExternalRefs ==
  ASSUME NEW e, NEW pl, EngineType(e), EdgesExact(e), NEW S \in SUBSET Cells,
         HasNoExternalRefs(e, pl, S)
  PROVE  NoRecordInto(e, S)
  <1> DEFINE Of == [c \in S |-> Into(c)]
             To == {q \in Pairs : Index(q[2]) \in S}
             Within == {q \in Pairs : Index(q[1]) \in S /\ Index(q[2]) \in S /\ Valid(pl, q[2])}
  <1>1. /\ IsFiniteSet(S) /\ IsFiniteSet(Pairs)
        /\ \A q \in Pairs : e.out[q] \in Nat
    BY HandlesFinite, EngineAssumption, FS_Subset DEF EngineType, Engines, Pairs
  <1>2. /\ \A c \in S : e.edge[c] = Cardinality(Copies(Of[c], e.out))
        /\ \A q : q \in To <=> \E c \in S : q \in Of[c]
        /\ \A c, d \in S : \A q : q \in Of[c] /\ q \in Of[d] => c = d
    BY DEF EdgesExact, Into
  <1>3. Cardinality(Copies(S, e.edge)) = Cardinality(Copies(To, e.out))
    <2>1. IsFiniteSet(To) /\ \A q \in To : e.out[q] \in Nat
      BY <1>1, FS_Subset
    <2> HIDE DEF Of, To
    <2> QED
      BY <2>1, <1>1, <1>2, CopiesByPart
  <1>4. Cardinality(Copies(To, e.out)) = Cardinality(Copies(Within, e.out))
    BY <1>3 DEF HasNoExternalRefs, Pairs
  <1>5. Within \subseteq To /\ To \subseteq Pairs
    OBVIOUS
  <1>6. IsFiniteSet(To)
    BY <1>1, <1>5, FS_Subset
  <1>7. Copies(Within, e.out) \subseteq Copies(To, e.out)
    BY <1>5 DEF Copies
  <1>8. Copies(Within, e.out) = Copies(To, e.out)
    <2>1. IsFiniteSet(Copies(To, e.out))
      BY <1>1, <1>5, <1>6, CopiesFinite
    <2> QED
      BY <2>1, <1>4, <1>7, FS_Subset
  <1>9. ASSUME NEW q \in Pairs, e.out[q] > 0, Index(q[2]) \in S PROVE Index(q[1]) \in S
    <2>1. q \in To /\ 1 \in 1..e.out[q]
      BY <1>1, <1>9
    <2>2. <<q, 1>> \in Copies(Within, e.out)
      BY <2>1, <1>8, CopyIs
    <2>3. q \in Within
      BY <2>2, CopyIs
    <2> QED
      BY <2>3
  <1> QED
    BY <1>9 DEF NoRecordInto

\* Release field by field: which counts fall, and which cells become candidates.
LEMMA ReleaseShape ==
  ASSUME NEW e, EngineType(e), NEW rel \in [Cells -> Nat]
  PROVE  LET r == Release(e, rel)
             hit == {c \in Cells : rel[c] > 0} IN
         /\ EngineType(r)
         /\ r.root = e.root /\ r.out = e.out /\ r.errors = e.errors
         /\ \A c \in Cells : r.edge[c] = IF e.edge[c] > rel[c] THEN e.edge[c] - rel[c] ELSE 0
         /\ r.zero = e.zero \cup {c \in hit : Total(r, c) = 0}
         /\ \E M \in SUBSET hit : r.marks = e.marks \cup M /\ r.stack = e.stack \cup M
  <1> DEFINE r == Release(e, rel)
             hit == {c \in Cells : rel[c] > 0}
             left(c) == IF e.edge[c] > rel[c] THEN e.edge[c] - rel[c] ELSE 0
             one(c) == IF e.edge[c] > 0 THEN e.edge[c] - 1 ELSE 0
             M == {c \in hit : e.root[c] + one(c) > 0 /\ HasOutgoing(e, c)} \ e.marks
             Z == {c \in hit : e.root[c] + left(c) = 0}
             E == [c \in Cells |-> IF c \in hit THEN left(c) ELSE e.edge[c]]
  <1>1. r = [e EXCEPT !.edge = E, !.zero = @ \cup Z, !.marks = @ \cup M, !.stack = @ \cup M]
    BY DEF Release
  <1>2. M \subseteq hit /\ Z \subseteq hit /\ hit \subseteq Cells
    OBVIOUS
  <1>3. E \in [Cells -> Nat] /\ \A c \in Cells : E[c] = left(c)
    BY DEF EngineType, Engines
  <1>4. \A c \in hit : c \in Z <=> e.root[c] + E[c] = 0
    BY <1>3
  <1> HIDE DEF r, M, Z, E
  <1>5. /\ EngineType(r)
        /\ r.root = e.root /\ r.out = e.out /\ r.errors = e.errors /\ r.edge = E
        /\ r.zero = e.zero \cup Z /\ r.marks = e.marks \cup M /\ r.stack = e.stack \cup M
    BY <1>1, <1>2, <1>3 DEF EngineType, Engines
  <1>6. Z = {c \in hit : Total(r, c) = 0}
    BY <1>2, <1>4, <1>5 DEF Total
  <1> QED
    BY <1>2, <1>3, <1>5, <1>6 DEF r

\* resetSlot empties the rows of G and leaves the other rows and the lists alone.
LEMMA ResetShape ==
  ASSUME NEW e, EngineType(e), NEW G \in SUBSET Cells
  PROVE  LET r == ResetRows(e, G) IN
         /\ EngineType(r)
         /\ r.errors = e.errors /\ r.zero = e.zero /\ r.marks = e.marks /\ r.stack = e.stack
         /\ \A c \in Cells : /\ r.root[c] = IF c \in G THEN 0 ELSE e.root[c]
                             /\ r.edge[c] = IF c \in G THEN 0 ELSE e.edge[c]
         /\ \A q \in Pairs : r.out[q] = IF Index(q[1]) \in G THEN 0 ELSE e.out[q]
  BY DEF ResetRows, EngineType, Engines, Pairs

\* What reclaiming the cells of G does to an exact table, when no other cell has a
\* record into G and rel is the number of records from G into each other cell: the
\* table is exact again, the rows of G are empty, and a cell that lost its last
\* reference is a candidate.
LEMMA ReclaimRows ==
  ASSUME NEW e, EngineType(e), EdgesExact(e), NEW G \in SUBSET Cells, NoRecordInto(e, G),
         NEW rel \in [Cells -> Nat],
         \A t \in Cells \ G :
            rel[t] = Cardinality(Copies({q \in Pairs : Index(q[1]) \in G /\ Index(q[2]) = t}, e.out)),
         \A t \in G : rel[t] = 0
  PROVE  LET r == ResetRows(Release(e, rel), G)
             hit == {c \in Cells : rel[c] > 0} IN
         /\ EngineType(r) /\ EdgesExact(r) /\ r.errors = e.errors
         /\ \A c \in Cells : r.root[c] = IF c \in G THEN 0 ELSE e.root[c]
         /\ \A q \in Pairs : r.out[q] = IF Index(q[1]) \in G THEN 0 ELSE e.out[q]
         /\ \A t \in Cells \ G : Total(r, t) <= Total(e, t) /\ (rel[t] = 0 => Total(r, t) = Total(e, t))
         /\ r.zero = e.zero \cup {c \in hit : Total(r, c) = 0}
         /\ \E M \in SUBSET hit : r.marks = e.marks \cup M /\ r.stack = e.stack \cup M
         /\ \A t \in hit : \E q \in Pairs : e.out[q] > 0 /\ Index(q[1]) \in G /\ Index(q[2]) = t
  <1> DEFINE m == Release(e, rel)
             r == ResetRows(m, G)
             hit == {c \in Cells : rel[c] > 0}
             From(t) == {q \in Pairs : Index(q[1]) \in G /\ Index(q[2]) = t}
             Other(t) == {q \in Pairs : Index(q[1]) \notin G /\ Index(q[2]) = t}
  <1>1. /\ EngineType(m)
        /\ m.root = e.root /\ m.out = e.out /\ m.errors = e.errors
        /\ \A c \in Cells : m.edge[c] = IF e.edge[c] > rel[c] THEN e.edge[c] - rel[c] ELSE 0
        /\ m.zero = e.zero \cup {c \in hit : Total(m, c) = 0}
        /\ \E M \in SUBSET hit : m.marks = e.marks \cup M /\ m.stack = e.stack \cup M
    BY ReleaseShape
  <1> HIDE DEF m
  <1>2. /\ EngineType(r)
        /\ r.errors = m.errors /\ r.zero = m.zero /\ r.marks = m.marks /\ r.stack = m.stack
        /\ \A c \in Cells : /\ r.root[c] = IF c \in G THEN 0 ELSE m.root[c]
                            /\ r.edge[c] = IF c \in G THEN 0 ELSE m.edge[c]
        /\ \A q \in Pairs : r.out[q] = IF Index(q[1]) \in G THEN 0 ELSE m.out[q]
    BY <1>1, ResetShape
  <1> HIDE DEF r
  <1>3. /\ \A c \in Cells : e.edge[c] \in Nat /\ e.root[c] \in Nat /\ r.edge[c] \in Nat /\ r.root[c] \in Nat
        /\ \A q \in Pairs : e.out[q] \in Nat /\ r.out[q] \in Nat
    BY <1>2 DEF EngineType, Engines, Pairs
  <1>4. ASSUME NEW t \in Cells \ G
        PROVE  /\ e.edge[t] = Cardinality(Copies(Other(t), e.out)) + rel[t]
               /\ Cardinality(Copies(Other(t), e.out)) \in Nat
               /\ Copies(Into(t), r.out) = Copies(Other(t), e.out)
    <2>1. Into(t) = Other(t) \cup From(t) /\ Other(t) \cap From(t) = {}
      BY DEF Into
    <2>2. IsFiniteSet(Into(t)) /\ \A q \in Into(t) : e.out[q] \in Nat
      BY HandlesFinite, <1>3 DEF Into
    <2>3. IsFiniteSet(Other(t)) /\ \A q \in Other(t) : e.out[q] \in Nat
      BY <2>1, <2>2, FS_Subset
    <2>4. /\ \A q \in Other(t) : r.out[q] = e.out[q]
          /\ \A q \in From(t) : r.out[q] = 0
      BY <1>1, <1>2
    <2>5. rel[t] = Cardinality(Copies(From(t), e.out))
      OBVIOUS
    <2> HIDE DEF Other, From
    <2>6. Cardinality(Copies(Into(t), e.out)) =
            Cardinality(Copies(Other(t), e.out)) + Cardinality(Copies(From(t), e.out))
      BY <2>1, <2>2, CopiesSplit
    <2>7. Cardinality(Copies(Other(t), e.out)) \in Nat
      BY <2>3, CopiesFinite
    <2>8. Copies(Into(t), r.out) = Copies(Other(t), e.out)
      BY <2>1, <2>4 DEF Copies
    <2> QED
      BY <2>5, <2>6, <2>7, <2>8 DEF EdgesExact
  <1>5. ASSUME NEW t \in Cells \ G PROVE r.edge[t] = e.edge[t] - rel[t]
    <2>1. r.edge[t] = m.edge[t]
      BY <1>2
    <2>2. e.edge[t] >= rel[t] /\ rel[t] \in Nat /\ e.edge[t] \in Nat
      <3> DEFINE n == Cardinality(Copies(Other(t), e.out))
      <3>1. e.edge[t] = n + rel[t] /\ n \in Nat
        BY <1>4
      <3>2. rel[t] \in Nat
        OBVIOUS
      <3> HIDE DEF n
      <3> QED
        BY <3>1, <3>2
    <2> QED
      BY <2>1, <2>2, <1>1
  <1>6. EdgesExact(r)
    <2>1. ASSUME NEW t \in Cells \ G PROVE r.edge[t] = Cardinality(Copies(Into(t), r.out))
      <3>1. e.edge[t] = Cardinality(Copies(Into(t), r.out)) + rel[t]
            /\ Cardinality(Copies(Into(t), r.out)) \in Nat
        BY <1>4
      <3> QED
        BY <3>1, <1>5
    <2>2. ASSUME NEW t \in G PROVE r.edge[t] = Cardinality(Copies(Into(t), r.out))
      <3>1. \A q \in Into(t) : r.out[q] = 0
        BY <1>1, <1>2, <1>3 DEF Into, NoRecordInto
      <3>2. Cardinality(Copies(Into(t), r.out)) = 0
        BY <3>1, HandlesFinite, CopiesZero
      <3> QED
        BY <3>2, <1>2
    <2> QED
      BY <2>1, <2>2 DEF EdgesExact
  <1>7. ASSUME NEW t \in Cells \ G
        PROVE  Total(r, t) <= Total(e, t) /\ (rel[t] = 0 => Total(r, t) = Total(e, t))
    BY <1>1, <1>2, <1>3, <1>5 DEF Total
  <1>8. hit \subseteq Cells \ G
    OBVIOUS
  <1>9. \A c \in hit : Total(r, c) = Total(m, c)
    BY <1>2, <1>8 DEF Total
  <1>10. ASSUME NEW t \in hit
         PROVE  \E q \in Pairs : e.out[q] > 0 /\ Index(q[1]) \in G /\ Index(q[2]) = t
    <2> SUFFICES ASSUME \A q \in From(t) : e.out[q] = 0 PROVE FALSE
      BY <1>3
    <2>1. IsFiniteSet(From(t))
      BY HandlesFinite, FS_Subset
    <2>2. Cardinality(Copies(From(t), e.out)) = 0
      BY <2>1, <1>3, CopiesZero
    <2> QED
      BY <2>2, <1>8
  <1> QED
    BY <1>1, <1>2, <1>6, <1>7, <1>9, <1>10 DEF r, m

\* Members without copies do not matter.
LEMMA CopiesSupport ==
  ASSUME NEW A, NEW B, NEW f, \A q \in A \cup B : f[q] \in Nat,
         \A q \in A \cup B : f[q] > 0 => (q \in A <=> q \in B)
  PROVE  Copies(A, f) = Copies(B, f)
  <1>1. \A q, k : <<q, k>> \in Copies(A, f) <=> <<q, k>> \in Copies(B, f)
    <2> SUFFICES ASSUME NEW q \in A \cup B, NEW k \in 1..f[q] PROVE q \in A <=> q \in B
      BY DEF Copies
    <2>1. f[q] > 0
      OBVIOUS
    <2> QED
      BY <2>1
  <1>2. \A t : t \in Copies(A, f) \/ t \in Copies(B, f) => \E q, k : t = <<q, k>>
    BY DEF Copies
  <1> QED
    BY <1>1, <1>2

\* How the table r differs from b once the cells of G have been reclaimed: exact
\* again, without the rows of G; the cells that lost a reference with them are
\* candidates where the last one went.
Reclaimed(b, r, G) ==
    /\ EngineType(r) /\ EdgesExact(r) /\ r.errors = b.errors
    /\ \A c \in Cells : r.root[c] = IF c \in G THEN 0 ELSE b.root[c]
    /\ \A q \in Pairs : r.out[q] = IF Index(q[1]) \in G THEN 0 ELSE b.out[q]
    /\ \A c \in Cells \ G : Total(r, c) <= Total(b, c)
    /\ \E hit \in SUBSET (Cells \ G) : \E M \in SUBSET hit :
        /\ \A c \in (Cells \ G) \ hit : Total(r, c) = Total(b, c)
        /\ \A c \in hit : \E q \in Pairs : b.out[q] > 0 /\ Index(q[1]) \in G /\ Index(q[2]) = c
        /\ r.zero = b.zero \cup {c \in hit : Total(r, c) = 0}
        /\ r.marks = b.marks \cup M /\ r.stack = b.stack \cup M

\* The general form of a reclamation; rel may leave out records that do not exist.
LEMMA ReclaimSome ==
  ASSUME NEW b, EngineType(b), EdgesExact(b), NEW G \in SUBSET Cells, NoRecordInto(b, G),
         NEW rel \in [Cells -> Nat],
         \A t \in Cells \ G :
            rel[t] = Cardinality(Copies({q \in Pairs : Index(q[1]) \in G /\ Index(q[2]) = t}, b.out)),
         \A t \in G : rel[t] = 0
  PROVE  Reclaimed(b, ResetRows(Release(b, rel), G), G)
  <1> DEFINE r == ResetRows(Release(b, rel), G)
             hit == {c \in Cells : rel[c] > 0}
  <1>1. /\ EngineType(r) /\ EdgesExact(r) /\ r.errors = b.errors
        /\ \A c \in Cells : r.root[c] = IF c \in G THEN 0 ELSE b.root[c]
        /\ \A q \in Pairs : r.out[q] = IF Index(q[1]) \in G THEN 0 ELSE b.out[q]
        /\ \A t \in Cells \ G : Total(r, t) <= Total(b, t) /\ (rel[t] = 0 => Total(r, t) = Total(b, t))
        /\ r.zero = b.zero \cup {c \in hit : Total(r, c) = 0}
        /\ \E M \in SUBSET hit : r.marks = b.marks \cup M /\ r.stack = b.stack \cup M
        /\ \A t \in hit : \E q \in Pairs : b.out[q] > 0 /\ Index(q[1]) \in G /\ Index(q[2]) = t
    BY ReclaimRows
  <1> HIDE DEF r
  <1>2. hit \in SUBSET (Cells \ G) /\ \A c \in (Cells \ G) \ hit : rel[c] = 0
    OBVIOUS
  <1> HIDE DEF hit
  <1>3. Reclaimed(b, r, G)
    <2>1. PICK M \in SUBSET hit : r.marks = b.marks \cup M /\ r.stack = b.stack \cup M
      BY <1>1
    <2>2. /\ \A c \in (Cells \ G) \ hit : Total(r, c) = Total(b, c)
          /\ \A c \in hit : \E q \in Pairs : b.out[q] > 0 /\ Index(q[1]) \in G /\ Index(q[2]) = c
          /\ r.zero = b.zero \cup {c \in hit : Total(r, c) = 0}
          /\ r.marks = b.marks \cup M /\ r.stack = b.stack \cup M
      BY <1>1, <1>2, <2>1
    <2>3. \A c \in Cells \ G : Total(r, c) <= Total(b, c)
      BY <1>1
    <2>4. \E H \in SUBSET (Cells \ G) : \E N \in SUBSET H :
            /\ \A c \in (Cells \ G) \ H : Total(r, c) = Total(b, c)
            /\ \A c \in H : \E q \in Pairs : b.out[q] > 0 /\ Index(q[1]) \in G /\ Index(q[2]) = c
            /\ r.zero = b.zero \cup {c \in H : Total(r, c) = 0}
            /\ r.marks = b.marks \cup N /\ r.stack = b.stack \cup N
      <3>1. hit \in SUBSET (Cells \ G)
        BY <1>2
      <3> WITNESS hit \in SUBSET (Cells \ G)
      <3> WITNESS M \in SUBSET hit
      <3> QED
        BY <2>2
    <2> QED
      BY <1>1, <2>3, <2>4 DEF Reclaimed
  <1> QED
    BY <1>3 DEF r

\* reclaimCell of a cell without references (sweepZero).
LEMMA ReclaimCellExact ==
  ASSUME NEW e, NEW pl, EngineType(e), EdgesExact(e), RecordsLive(e, pl),
         NEW c \in Cells, e.edge[c] = 0
  PROVE  /\ Reclaimed(ClearSuspects(e, {c}), ReclaimCell(e, pl, c), {c})
         /\ NoRecordInto(e, {c})
  <1> DEFINE b == ClearSuspects(e, {c})
             Live(t) == {q \in Handles \X Handles :
                            Index(q[1]) \in {c} /\ Index(q[2]) = t /\ pl.live[Index(q[2])]}
             From(t) == {q \in Pairs : Index(q[1]) \in {c} /\ Index(q[2]) = t}
             rel == [t \in Cells |-> Cardinality(Copies(Live(t), e.out))]
  <1>1. /\ EngineType(b) /\ b.out = e.out /\ b.edge = e.edge
        /\ \A q \in Pairs : e.out[q] \in Nat
    BY DEF ClearSuspects, EngineType, Engines, Pairs
  <1>2. \A q \in Into(c) : e.out[q] = 0
    <2>1. Cardinality(Copies(Into(c), e.out)) = 0
      BY DEF EdgesExact
    <2>2. \A q \in Into(c) : e.out[q] \in Nat
      BY <1>1 DEF Into
    <2> QED
      BY <2>1, <2>2, HandlesFinite, CopiesZero
  <1>3. NoRecordInto(e, {c})
    BY <1>2 DEF NoRecordInto, Into
  <1>4. ASSUME NEW t \in Cells
        PROVE  Copies(Live(t), e.out) = Copies(From(t), e.out) /\ rel[t] \in Nat
    <2>1. /\ \A q \in Live(t) \cup From(t) : e.out[q] \in Nat
          /\ \A q \in Live(t) \cup From(t) : e.out[q] > 0 => (q \in Live(t) <=> q \in From(t))
      BY <1>1 DEF RecordsLive, Valid, Pairs
    <2>2. IsFiniteSet(Live(t))
      BY HandlesFinite, FS_Subset DEF Pairs
    <2> HIDE DEF Live, From
    <2>3. Copies(Live(t), e.out) = Copies(From(t), e.out)
      BY <2>1, CopiesSupport
    <2>4. Cardinality(Copies(Live(t), e.out)) \in Nat
      BY <2>1, <2>2, CopiesFinite
    <2> QED
      BY <2>3, <2>4
  <1>5. rel[c] = 0
    <2>1. \A q \in From(c) : e.out[q] = 0
      BY <1>2 DEF Into
    <2>2. IsFiniteSet(From(c))
      BY HandlesFinite, FS_Subset
    <2>3. Cardinality(Copies(From(c), e.out)) = 0
      BY <2>1, <2>2, CopiesZero
    <2> QED
      BY <2>3, <1>4
  <1>6. ReclaimCell(e, pl, c) = ResetRows(Release(b, rel), {c})
    BY DEF ReclaimCell, EdgesInto
  <1>7. rel \in [Cells -> Nat] /\ \A t \in Cells : rel[t] = Cardinality(Copies(From(t), b.out))
    BY <1>1, <1>4
  <1>8. EdgesExact(b) /\ NoRecordInto(b, {c})
    BY <1>1, <1>3 DEF EdgesExact, NoRecordInto
  <1> HIDE DEF b, rel
  <1>9. Reclaimed(b, ResetRows(Release(b, rel), {c}), {c})
    BY <1>1, <1>5, <1>7, <1>8, ReclaimSome
  <1> QED
    BY <1>3, <1>6, <1>9 DEF b

-----------------------------------------------------------------------------
(* Cycle collection *)

\* What a scan visits is live and still counted.
LEMMA VisitedIsCounted ==
  ASSUME NEW e, NEW pl, EngineType(e), EdgesExact(e)
  PROVE  /\ Visited(e, pl) \subseteq Cells
         /\ \A c \in Visited(e, pl) : pl.live[c] /\ Total(e, c) > 0
         /\ ScanRoots(e, pl) \subseteq Visited(e, pl)
         /\ ClosedIn(Cells, GraphOf(e, pl), Visited(e, pl))
  <1> DEFINE X == {c \in Cells : pl.live[c] /\ Total(e, c) > 0}
  <1>1. ScanRoots(e, pl) \subseteq Cells /\ ScanRoots(e, pl) \subseteq X
    BY DEF ScanRoots, EngineType, Engines
  <1>2. ASSUME NEW q \in Pairs, e.out[q] > 0, Valid(pl, q[2]) PROVE Index(q[2]) \in X
    <2> DEFINE c == Index(q[2])
    <2>1. c \in Cells /\ q \in Into(c)
      BY HandlesFinite DEF Pairs, Into
    <2>2. IsFiniteSet(Into(c)) /\ \A u \in Into(c) : e.out[u] \in Nat
      BY HandlesFinite DEF EngineType, Engines, Into, Pairs
    <2>3. e.out[q] <= e.edge[c]
      BY <2>1, <2>2, CopiesBound DEF EdgesExact
    <2>4. e.root[c] \in Nat /\ e.edge[c] \in Nat /\ e.out[q] \in Nat
      BY <2>1, <2>2 DEF EngineType, Engines
    <2>5. Total(e, c) > 0
      BY <2>3, <2>4, <1>2 DEF Total
    <2> QED
      BY <2>1, <2>5, <1>2 DEF Valid
  <1>3. ClosedIn(Cells, GraphOf(e, pl), X)
    BY <1>2 DEF ClosedIn, GraphOf, Pairs
  <1>4. Visited(e, pl) \subseteq X
    BY <1>1, <1>3, ReachLeast DEF Visited
  <1> QED
    BY <1>1, <1>4, ReachClosed DEF Visited

\* Components: a cell is in its own, and cells of one component have the same one.
LEMMA ComponentsAgree ==
  ASSUME NEW e, NEW pl, NEW c \in Cells
  PROVE  /\ SccOf(e, pl, c) \subseteq Cells /\ c \in SccOf(e, pl, c)
         /\ SccOf(e, pl, c) \subseteq ReachIn(Cells, GraphOf(e, pl), {c})
         /\ \A d \in SccOf(e, pl, c) : SccOf(e, pl, d) = SccOf(e, pl, c)
  <1> DEFINE Reach(d) == ReachIn(Cells, GraphOf(e, pl), {d})
  <1>1. ASSUME NEW d \in Cells PROVE d \in Reach(d) /\ Reach(d) \subseteq Cells
    BY ReachClosed
  <1>2. ASSUME NEW d \in Cells, NEW x \in Reach(d) PROVE Reach(x) \subseteq Reach(d)
    BY ReachFrom
  <1>3. \A d : SccOf(e, pl, d) = {x \in Reach(d) : d \in Reach(x)}
    BY DEF SccOf
  <1> HIDE DEF Reach
  <1>4. ASSUME NEW d \in SccOf(e, pl, c) PROVE SccOf(e, pl, d) = SccOf(e, pl, c)
    <2>1. d \in Cells /\ d \in Reach(c) /\ c \in Reach(d)
      BY <1>1, <1>3
    <2>2. Reach(c) = Reach(d)
      BY <2>1, <1>2
    <2>3. \A x \in Reach(c) : x \in Cells /\ (c \in Reach(x) <=> d \in Reach(x))
      BY <2>1, <1>1, <1>2
    <2> QED
      BY <2>2, <2>3, <1>3
  <1> QED
    BY <1>1, <1>3, <1>4 DEF Reach

\* collectCyclePass reclaims whole components: everything it takes is live, was
\* counted, has no root, and no other cell refers to it.
LEMMA GarbageIsClosed ==
  ASSUME NEW e, NEW pl, EngineType(e), EdgesExact(e)
  PROVE  LET G == GarbageIn(e, pl) IN
         /\ G \subseteq Visited(e, pl) /\ G \subseteq Cells
         /\ \A c \in G : pl.live[c] /\ Total(e, c) > 0 /\ e.root[c] = 0
         /\ \A c \in G : SccOf(e, pl, c) \subseteq G /\ NoRecordInto(e, SccOf(e, pl, c))
         /\ NoRecordInto(e, G)
  <1> DEFINE G == GarbageIn(e, pl)
  <1>1. /\ G \subseteq Visited(e, pl) /\ G \subseteq Cells
        /\ \A c \in G : pl.live[c] /\ Total(e, c) > 0 /\ HasNoExternalRefs(e, pl, SccOf(e, pl, c))
    BY VisitedIsCounted DEF GarbageIn
  <1>2. ASSUME NEW c \in G PROVE SccOf(e, pl, c) \subseteq G
    <2>1. ReachIn(Cells, GraphOf(e, pl), {c}) \subseteq Visited(e, pl)
      <3>1. ScanRoots(e, pl) \subseteq Cells
        BY DEF ScanRoots, EngineType, Engines
      <3> QED
        BY <1>1, <3>1, ReachFrom DEF Visited
    <2>2. SccOf(e, pl, c) \subseteq Visited(e, pl)
      BY <1>1, <2>1, ComponentsAgree
    <2>3. \A d \in SccOf(e, pl, c) : SccOf(e, pl, d) = SccOf(e, pl, c)
      BY <1>1, ComponentsAgree
    <2> QED
      BY <1>1, <2>2, <2>3 DEF GarbageIn
  <1>3. ASSUME NEW c \in G PROVE NoRecordInto(e, SccOf(e, pl, c)) /\ e.root[c] = 0
    <2>1. SccOf(e, pl, c) \in SUBSET Cells /\ c \in SccOf(e, pl, c)
      BY <1>1, ComponentsAgree
    <2>2. HasNoExternalRefs(e, pl, SccOf(e, pl, c))
      BY <1>1
    <2>3. NoRecordInto(e, SccOf(e, pl, c))
      BY <2>1, <2>2, NoExternalRefs
    <2> QED
      BY <2>1, <2>2, <2>3 DEF HasNoExternalRefs
  <1>4. NoRecordInto(e, G)
    <2> SUFFICES ASSUME NEW q \in Pairs, e.out[q] > 0, Index(q[2]) \in G PROVE Index(q[1]) \in G
      BY DEF NoRecordInto
    <2>1. Index(q[2]) \in SccOf(e, pl, Index(q[2]))
      BY <1>1, ComponentsAgree
    <2>2. Index(q[1]) \in SccOf(e, pl, Index(q[2]))
      BY <2>1, <1>3 DEF NoRecordInto
    <2> QED
      BY <2>2, <1>2
  <1> QED
    BY <1>1, <1>2, <1>3, <1>4

\* The table as collectCyclePass leaves it when the scan ends: suspects consumed.
Scanned(e, pl) == [ClearSuspects(e, Visited(e, pl)) EXCEPT !.stack = {}]

\* reclaimCycleComponent for every garbage component of a pass.
LEMMA ReclaimCyclesExact ==
  ASSUME NEW e, NEW pl, EngineType(e), EdgesExact(e), RecordsLive(e, pl)
  PROVE  Reclaimed(Scanned(e, pl), ReclaimCycles(e, pl, GarbageIn(e, pl)), GarbageIn(e, pl))
  <1> DEFINE G == GarbageIn(e, pl)
             b == Scanned(e, pl)
             Leaving(t) == {q \in Handles \X Handles : Index(q[1]) \in G /\ Index(q[2]) = t
                               /\ (Valid(pl, q[2]) /\ Index(q[2]) \notin SccOf(e, pl, Index(q[1])))}
             From(t) == {q \in Pairs : Index(q[1]) \in G /\ Index(q[2]) = t}
             rel == [t \in Cells |-> Cardinality(Copies(Leaving(t), e.out))]
             r == ResetRows(Release(b, rel), G)
  <1>1. /\ G \subseteq Visited(e, pl) /\ G \subseteq Cells /\ NoRecordInto(e, G)
        /\ \A c \in G : SccOf(e, pl, c) \subseteq G /\ NoRecordInto(e, SccOf(e, pl, c))
    BY GarbageIsClosed
  <1>2. ReclaimCycles(e, pl, G) = ClearSuspects(r, G)
    BY DEF ReclaimCycles, EdgesInto, Scanned
  <1> HIDE DEF G
  <1>3. /\ EngineType(b) /\ b.out = e.out /\ b.edge = e.edge /\ b.root = e.root /\ b.errors = e.errors
        /\ b.marks = e.marks \ Visited(e, pl) /\ b.stack = {} /\ b.zero = e.zero
        /\ \A q \in Pairs : e.out[q] \in Nat
    BY DEF Scanned, ClearSuspects, EngineType, Engines, Pairs
  <1> HIDE DEF b
  <1>4. ASSUME NEW t \in Cells
        PROVE  /\ rel[t] \in Nat
               /\ t \notin G => rel[t] = Cardinality(Copies(From(t), e.out))
               /\ t \in G => rel[t] = 0
    <2>1. /\ IsFiniteSet(Leaving(t)) /\ \A q \in Leaving(t) : e.out[q] \in Nat
          /\ \A q \in Leaving(t) \cup From(t) : e.out[q] \in Nat
      BY HandlesFinite, FS_Subset, <1>3 DEF Pairs
    <2>2. rel[t] \in Nat
      <3> HIDE DEF Leaving
      <3> QED
        BY <2>1, CopiesFinite
    <2>3. ASSUME t \notin G PROVE Copies(Leaving(t), e.out) = Copies(From(t), e.out)
      <3>1. \A q \in Leaving(t) \cup From(t) : e.out[q] > 0 => (q \in Leaving(t) <=> q \in From(t))
        BY <2>3, <1>1 DEF RecordsLive, Pairs
      <3> HIDE DEF Leaving, From
      <3> QED
        BY <2>1, <3>1, CopiesSupport
    <2>4. ASSUME t \in G PROVE rel[t] = 0
      <3>1. ASSUME NEW q \in Leaving(t), e.out[q] > 0 PROVE FALSE
        <4>1. q \in Pairs /\ e.out[q] > 0 /\ Index(q[1]) \in G /\ Index(q[2]) = t
              /\ t \notin SccOf(e, pl, Index(q[1]))
          BY <3>1 DEF Pairs
        <4>2. t \in SccOf(e, pl, t)
          BY ComponentsAgree
        <4>3. Index(q[1]) \in SccOf(e, pl, t)
          BY <4>1, <4>2, <2>4, <1>1 DEF NoRecordInto
        <4>4. SccOf(e, pl, Index(q[1])) = SccOf(e, pl, t)
          BY <4>3, ComponentsAgree
        <4> QED
          BY <4>1, <4>2, <4>4
      <3>2. \A q \in Leaving(t) : e.out[q] = 0
        BY <2>1, <3>1
      <3> HIDE DEF Leaving
      <3> QED
        BY <2>1, <3>2, CopiesZero
    <2> QED
      BY <2>2, <2>3, <2>4
  <1>5. EdgesExact(b) /\ NoRecordInto(b, G)
    BY <1>1, <1>3 DEF EdgesExact, NoRecordInto
  <1>6. rel \in [Cells -> Nat]
    BY <1>4
  <1> HIDE DEF rel
  <1>7. Reclaimed(b, r, G)
    BY <1>1, <1>3, <1>4, <1>5, <1>6, ReclaimSome
  <1> HIDE DEF r
  <1>8. ClearSuspects(r, G) = r
    <2>1. r.marks \cap G = {}
      BY <1>1, <1>3, <1>7 DEF Reclaimed
    <2> QED
      BY <2>1, <1>7 DEF Reclaimed, ClearSuspects, EngineType, Engines
  <1> QED
    BY <1>2, <1>7, <1>8 DEF G, b

\* markLoss touches the candidate lists only.
LEMMA MarkLossShape ==
  ASSUME NEW e, EngineType(e), NEW c \in Cells
  PROVE  LET r == MarkLoss(e, c) IN
         /\ EngineType(r)
         /\ r.root = e.root /\ r.edge = e.edge /\ r.out = e.out /\ r.errors = e.errors
         /\ e.zero \subseteq r.zero /\ r.zero \subseteq e.zero \cup {c}
         /\ Total(e, c) = 0 => c \in r.zero
         /\ e.marks \subseteq r.marks /\ r.marks \subseteq e.marks \cup {c}
         /\ e.stack \subseteq r.stack
         /\ c \in r.marks => c \in e.marks \/ (c \in r.stack /\ Total(e, c) # 0)
  BY DEF MarkLoss, MarkZero, MarkSuspect, EngineType, Engines

\* Adding or removing one edge record, with its count, keeps the table exact.
LEMMA EdgeUpdate ==
  ASSUME NEW e, NEW r, EngineType(e), EngineType(r), EdgesExact(e), NEW q \in Pairs,
         r.out = [e.out EXCEPT ![q] = r.out[q]],
         r.edge = [e.edge EXCEPT ![Index(q[2])] = @ + r.out[q] - e.out[q]]
  PROVE  EdgesExact(r)
  <1>1. /\ \A u \in Pairs : e.out[u] \in Nat /\ r.out[u] \in Nat
        /\ \A u \in Pairs \ {q} : r.out[u] = e.out[u]
        /\ Index(q[2]) \in Cells
    BY HandlesFinite DEF EngineType, Engines, Pairs
  <1> SUFFICES ASSUME NEW c \in Cells PROVE r.edge[c] = Cardinality(Copies(Into(c), r.out))
    BY DEF EdgesExact
  <1>2. IsFiniteSet(Into(c)) /\ Into(c) \subseteq Pairs
    BY HandlesFinite DEF Into
  <1>3. e.edge[c] = Cardinality(Copies(Into(c), e.out))
    BY DEF EdgesExact
  <1>4. CASE c = Index(q[2])
    <2>1. q \in Into(c)
      BY <1>4 DEF Into
    <2>2. /\ \A y \in Into(c) : e.out[y] \in Nat /\ r.out[y] \in Nat
          /\ \A y \in Into(c) \ {q} : r.out[y] = e.out[y]
      BY <1>1, <1>2
    <2>3. Cardinality(Copies(Into(c), r.out)) =
            Cardinality(Copies(Into(c), e.out)) + r.out[q] - e.out[q]
      <3> DEFINE S == Into(c)
      <3> HIDE DEF S
      <3>1. IsFiniteSet(S) /\ q \in S
        BY <1>2, <2>1 DEF S
      <3>2. /\ \A y \in S : e.out[y] \in Nat /\ r.out[y] \in Nat
            /\ \A y \in S \ {q} : r.out[y] = e.out[y]
        BY <2>2 DEF S
      <3>3. Cardinality(Copies(S, r.out)) = Cardinality(Copies(S, e.out)) + r.out[q] - e.out[q]
        BY <3>1, <3>2, CopiesUpdate
      <3> QED
        BY <3>3 DEF S
    <2>4. r.edge[c] = e.edge[c] + r.out[q] - e.out[q]
      BY <1>4 DEF EngineType, Engines
    <2> QED
      BY <1>3, <2>3, <2>4
  <1>5. CASE c # Index(q[2])
    <2>1. \A u \in Into(c) : r.out[u] = e.out[u]
      BY <1>1, <1>2, <1>5 DEF Into
    <2>2. Copies(Into(c), r.out) = Copies(Into(c), e.out)
      BY <2>1, CopiesSame
    <2>3. r.edge[c] = e.edge[c]
      BY <1>5 DEF EngineType, Engines
    <2> QED
      BY <1>3, <2>2, <2>3
  <1> QED
    BY <1>4, <1>5

-----------------------------------------------------------------------------
(* Messages *)

IsEdgeOp(m) == m.op \in {"EdgeAdd", "EdgeRemove"}

Messages ==
    [op : {"RootAdd", "RootRemove", "RootCheck", "EdgeAdd", "EdgeRemove"},
     a : Handles, b : Handles, count : Nat]

\* What applying a message adds to the account it touches.
Change(m) ==
    IF m.op = "RootAdd" THEN m.count
    ELSE IF m.op = "RootRemove" THEN 0 - m.count
    ELSE IF m.op = "EdgeAdd" THEN 1
    ELSE IF m.op = "EdgeRemove" THEN -1
    ELSE 0

\* What applying a message about existing objects does to an exact table.
Applied(e, r, m) ==
    LET c == Index(m.b) IN
    /\ EngineType(r) /\ EdgesExact(r) /\ r.errors = e.errors
    /\ \A d \in Cells : r.root[d] = IF d = c /\ ~IsEdgeOp(m) THEN e.root[d] + Change(m) ELSE e.root[d]
    /\ \A q \in Pairs : r.out[q] = IF q = <<m.a, m.b>> /\ IsEdgeOp(m) THEN e.out[q] + Change(m)
                                   ELSE e.out[q]
    /\ \A d \in Cells : d # c => Total(r, d) = Total(e, d)
    /\ e.zero \subseteq r.zero /\ r.zero \subseteq e.zero \cup {c}
    /\ e.marks \subseteq r.marks /\ r.marks \subseteq e.marks \cup {c} /\ e.stack \subseteq r.stack
    /\ c \in r.marks => c \in e.marks \/ c \in r.stack
    /\ c \in r.marks /\ Total(r, c) = 0 => c \in r.zero \/ (c \in e.marks /\ Total(e, c) = 0)

\* A table whose counts have moved, before MarkLoss looks at the cell.
LEMMA MarkedApplied ==
  ASSUME NEW e, NEW b, EngineType(e), EngineType(b), NEW m \in Messages,
         EdgesExact(b), b.errors = e.errors,
         b.zero = e.zero, b.marks = e.marks, b.stack = e.stack,
         \A d \in Cells : b.root[d] = IF d = Index(m.b) /\ ~IsEdgeOp(m) THEN e.root[d] + Change(m)
                                      ELSE e.root[d],
         \A q \in Pairs : b.out[q] = IF q = <<m.a, m.b>> /\ IsEdgeOp(m) THEN e.out[q] + Change(m)
                                     ELSE e.out[q],
         \A d \in Cells : d # Index(m.b) => b.edge[d] = e.edge[d]
  PROVE  Applied(e, MarkLoss(b, Index(m.b)), m)
  <1> DEFINE c == Index(m.b)
             r == MarkLoss(b, c)
  <1>1. c \in Cells
    BY HandlesFinite DEF Messages
  <1>2. /\ EngineType(r)
        /\ r.root = b.root /\ r.edge = b.edge /\ r.out = b.out /\ r.errors = b.errors
        /\ b.zero \subseteq r.zero /\ r.zero \subseteq b.zero \cup {c}
        /\ Total(b, c) = 0 => c \in r.zero
        /\ b.marks \subseteq r.marks /\ r.marks \subseteq b.marks \cup {c}
        /\ b.stack \subseteq r.stack
        /\ c \in r.marks => c \in b.marks \/ (c \in r.stack /\ Total(b, c) # 0)
    BY <1>1, MarkLossShape
  <1> HIDE DEF r
  <1>3. EdgesExact(r)
    BY <1>2 DEF EdgesExact
  <1>4. \A d \in Cells : Total(r, d) = Total(b, d)
    BY <1>2 DEF Total
  <1>5. \A d \in Cells : d # c => Total(r, d) = Total(e, d)
    BY <1>4 DEF Total
  <1>6. Applied(e, r, m)
    BY <1>1, <1>2, <1>3, <1>4, <1>5 DEF Applied
  <1> QED
    BY <1>6 DEF r

\* The engine refuses no message about existing objects that has something to take.
LEMMA ProcessApplies ==
  ASSUME NEW e, NEW pl, EngineType(e), EdgesExact(e), NEW m \in Messages,
         Valid(pl, m.a), Valid(pl, m.b),
         m.op = "RootRemove" => m.count <= e.root[Index(m.b)],
         m.op = "EdgeRemove" => e.out[<<m.a, m.b>>] > 0
  PROVE  Applied(e, Process(e, pl, m), m)
  <1> DEFINE c == Index(m.b)
             q == <<m.a, m.b>>
  <1>1. /\ c \in Cells /\ q \in Pairs /\ q[1] = m.a /\ q[2] = m.b /\ m.count \in Nat
        /\ m.op \in {"RootAdd", "RootRemove", "RootCheck", "EdgeAdd", "EdgeRemove"}
    BY HandlesFinite DEF Messages, Pairs
  <1>2. e.root[c] \in Nat /\ e.edge[c] \in Nat /\ e.out[q] \in Nat
    BY <1>1 DEF EngineType, Engines, Pairs
  <1>3. CASE m.op = "RootAdd"
    <2> DEFINE r == [e EXCEPT !.root[c] = @ + m.count]
    <2>1. Process(e, pl, m) = r
      BY <1>3 DEF Process, RootAdd
    <2>2. /\ EngineType(r) /\ r.edge = e.edge /\ r.out = e.out /\ r.errors = e.errors
          /\ r.zero = e.zero /\ r.marks = e.marks /\ r.stack = e.stack
          /\ \A d \in Cells : r.root[d] = IF d = c THEN e.root[d] + m.count ELSE e.root[d]
      BY <1>1, <1>2 DEF EngineType, Engines
    <2>3. ~IsEdgeOp(m) /\ Change(m) = m.count
      BY <1>3 DEF IsEdgeOp, Change
    <2> HIDE DEF r
    <2>4. EdgesExact(r)
      BY <2>2 DEF EdgesExact
    <2>5. Total(r, c) = 0 => Total(e, c) = 0
      BY <1>1, <1>2, <2>2 DEF Total
    <2>6. \A d \in Cells : d # c => Total(r, d) = Total(e, d)
      BY <2>2 DEF Total
    <2>7. Applied(e, r, m)
      BY <2>2, <2>3, <2>4, <2>5, <2>6 DEF Applied
    <2> QED
      BY <2>1, <2>7
  <1>4. CASE m.op = "RootRemove"
    <2> DEFINE b == [e EXCEPT !.root[c] = @ - m.count]
    <2>1. m.count <= e.root[c]
      BY <1>4
    <2>2. Process(e, pl, m) = MarkLoss(b, c)
      BY <1>1, <1>2, <1>4, <2>1 DEF Process, RootRemove
    <2>3. /\ EngineType(b) /\ b.edge = e.edge /\ b.out = e.out /\ b.errors = e.errors
          /\ b.zero = e.zero /\ b.marks = e.marks /\ b.stack = e.stack
          /\ \A d \in Cells : b.root[d] = IF d = c THEN e.root[d] - m.count ELSE e.root[d]
      <3> DEFINE f == [e.root EXCEPT ![c] = @ - m.count]
      <3>1. e.root[c] - m.count \in Nat /\ e.root \in [Cells -> Nat]
        BY <1>1, <1>2, <2>1 DEF EngineType, Engines
      <3>2. f \in [Cells -> Nat]
            /\ \A d \in Cells : f[d] = IF d = c THEN e.root[d] - m.count ELSE e.root[d]
        BY <3>1
      <3>3. b = [e EXCEPT !.root = f]
        OBVIOUS
      <3> HIDE DEF b, f
      <3> QED
        BY <3>2, <3>3 DEF EngineType, Engines
    <2>4. ~IsEdgeOp(m) /\ e.root[c] + Change(m) = e.root[c] - m.count
      BY <1>1, <1>2, <1>4 DEF IsEdgeOp, Change
    <2> HIDE DEF b
    <2>5. EdgesExact(b)
      BY <2>3 DEF EdgesExact
    <2> QED
      BY <2>2, <2>3, <2>4, <2>5, MarkedApplied
  <1>5. CASE m.op = "RootCheck"
    <2>1. Process(e, pl, m) = MarkLoss(e, c)
      BY <1>5 DEF Process, RootCheck
    <2>2. ~IsEdgeOp(m) /\ Change(m) = 0 /\ \A d \in Cells : e.root[d] + 0 = e.root[d]
      BY <1>5 DEF IsEdgeOp, Change, EngineType, Engines
    <2> QED
      BY <2>1, <2>2, MarkedApplied
  <1>6. CASE m.op = "EdgeAdd"
    <2> DEFINE r == [e EXCEPT !.edge[c] = @ + 1, !.out[q] = @ + 1]
    <2>1. Process(e, pl, m) = r
      BY <1>6 DEF Process, EdgeAdd
    <2>2. /\ EngineType(r) /\ r.root = e.root /\ r.errors = e.errors
          /\ r.zero = e.zero /\ r.marks = e.marks /\ r.stack = e.stack
          /\ r.out = [e.out EXCEPT ![q] = e.out[q] + 1]
          /\ r.edge = [e.edge EXCEPT ![c] = e.edge[c] + 1]
      <3> DEFINE f == [e.out EXCEPT ![q] = e.out[q] + 1]
                 g == [e.edge EXCEPT ![c] = e.edge[c] + 1]
      <3>1. f \in [Pairs -> Nat] /\ g \in [Cells -> Nat]
        BY <1>1, <1>2 DEF EngineType, Engines, Pairs
      <3>2. r = [e EXCEPT !.edge = g, !.out = f]
        OBVIOUS
      <3> HIDE DEF r, f, g
      <3>3. /\ EngineType(r) /\ r.root = e.root /\ r.errors = e.errors
            /\ r.zero = e.zero /\ r.marks = e.marks /\ r.stack = e.stack
            /\ r.out = f /\ r.edge = g
        BY <3>1, <3>2 DEF EngineType, Engines, Pairs
      <3> QED
        BY <3>3 DEF f, g
    <2>3. IsEdgeOp(m) /\ Change(m) = 1
      BY <1>6 DEF IsEdgeOp, Change
    <2> HIDE DEF r, q
    <2>4. /\ \A u \in Pairs : r.out[u] = IF u = q THEN e.out[u] + 1 ELSE e.out[u]
          /\ \A d \in Cells : r.edge[d] = IF d = c THEN e.edge[d] + 1 ELSE e.edge[d]
      BY <1>1, <2>2 DEF EngineType, Engines, Pairs
    <2>5. EdgesExact(r)
      <3>1. r.out[q] = e.out[q] + 1
        BY <1>1, <2>4
      <3>2. e.edge[c] + 1 = e.edge[c] + r.out[q] - e.out[q]
        BY <1>2, <3>1
      <3>3. r.out = [e.out EXCEPT ![q] = r.out[q]]
        BY <2>2, <3>1
      <3>4. r.edge = [e.edge EXCEPT ![Index(q[2])] = @ + r.out[q] - e.out[q]]
        BY <1>1, <2>2, <3>2
      <3> QED
        BY <1>1, <2>2, <3>3, <3>4, EdgeUpdate
    <2>6. Total(r, c) = 0 => Total(e, c) = 0
      BY <1>1, <1>2, <2>2, <2>4 DEF Total
    <2>7. \A d \in Cells : d # c => Total(r, d) = Total(e, d)
      BY <2>2, <2>4 DEF Total
    <2>8. Applied(e, r, m)
      BY <2>2, <2>3, <2>4, <2>5, <2>6, <2>7 DEF Applied, q
    <2> QED
      BY <2>1, <2>8
  <1>7. CASE m.op = "EdgeRemove"
    <2> DEFINE b == [[e EXCEPT !.out[q] = @ - 1] EXCEPT !.edge[c] = @ - 1]
    <2>1. e.out[q] > 0
      BY <1>7
    <2>2. e.edge[c] > 0
      <3> DEFINE S == Into(c)
                 f == e.out
      <3>1. IsFiniteSet(S) /\ q \in S /\ \A u \in S : f[u] \in Nat
        BY <1>1, HandlesFinite DEF Into, EngineType, Engines, Pairs
      <3>2. e.edge[c] = Cardinality(Copies(S, f))
        BY <1>1 DEF EdgesExact
      <3> HIDE DEF S, f
      <3>3. f[q] <= e.edge[c]
        BY <3>1, <3>2, CopiesBound
      <3> QED
        BY <1>2, <2>1, <3>3 DEF f
    <2>3. Process(e, pl, m) = MarkLoss(b, c)
      <3>1. [e EXCEPT !.out[q] = @ - 1].edge = e.edge
        BY DEF EngineType, Engines
      <3> QED
        BY <1>2, <1>7, <2>1, <2>2 DEF Process, EdgeRemove
    <2>4. /\ EngineType(b) /\ b.root = e.root /\ b.errors = e.errors
          /\ b.zero = e.zero /\ b.marks = e.marks /\ b.stack = e.stack
          /\ b.out = [e.out EXCEPT ![q] = e.out[q] - 1]
          /\ b.edge = [e.edge EXCEPT ![c] = e.edge[c] - 1]
      <3>1. e.out[q] - 1 \in Nat /\ e.edge[c] - 1 \in Nat
        BY <1>2, <2>1, <2>2
      <3> QED
        BY <1>1, <3>1 DEF EngineType, Engines, Pairs
    <2>5. IsEdgeOp(m) /\ Change(m) = -1
      BY <1>7 DEF IsEdgeOp, Change
    <2> HIDE DEF b, q
    <2>6. /\ \A u \in Pairs : b.out[u] = IF u = q THEN e.out[u] - 1 ELSE e.out[u]
          /\ \A d \in Cells : d # c => b.edge[d] = e.edge[d]
      BY <1>1, <2>4 DEF EngineType, Engines, Pairs
    <2>7. EdgesExact(b)
      <3>1. b.out[q] = e.out[q] - 1
        BY <1>1, <2>6
      <3>2. e.edge[c] - 1 = e.edge[c] + b.out[q] - e.out[q]
        BY <1>2, <3>1
      <3>3. b.out = [e.out EXCEPT ![q] = b.out[q]]
        BY <2>4, <3>1
      <3>4. b.edge = [e.edge EXCEPT ![Index(q[2])] = @ + b.out[q] - e.out[q]]
        BY <1>1, <2>4, <3>2
      <3> QED
        BY <1>1, <2>4, <3>3, <3>4, EdgeUpdate
    <2>8. \A u \in Pairs : b.out[u] = IF u = <<m.a, m.b>> /\ IsEdgeOp(m) THEN e.out[u] + Change(m)
                                      ELSE e.out[u]
      <3>1. e.out[q] - 1 = e.out[q] + Change(m)
        BY <1>2, <2>5
      <3> QED
        BY <2>5, <2>6, <3>1 DEF q
    <2>9. \A d \in Cells : b.root[d] = IF d = Index(m.b) /\ ~IsEdgeOp(m) THEN e.root[d] + Change(m)
                                       ELSE e.root[d]
      BY <2>4, <2>5
    <2>10. Applied(e, MarkLoss(b, Index(m.b)), m)
      BY <2>4, <2>6, <2>7, <2>8, <2>9, MarkedApplied
    <2> QED
      BY <2>3, <2>10
  <1> QED
    BY <1>1, <1>3, <1>4, <1>5, <1>6, <1>7

-----------------------------------------------------------------------------
(* Nothing is forgotten: the anchors of a table *)

\* Some object in cell x has an edge record to one in cell y.
Refers(e, x, y) == \E q \in Pairs : e.out[q] > 0 /\ Index(q[1]) = x /\ Index(q[2]) = y

\* A cell the engine need not be reminded of: it is rooted, it counts nothing at all,
\* or it is a suspect the next scan starts from.
Anchor(e, c) == e.root[c] > 0 \/ Total(e, c) = 0 \/ c \in e.marks \cap e.stack

\* X holds every live anchor and everything its members have records to.
Covers(e, lv, X) ==
    /\ \A x \in X : \A y \in Cells : Refers(e, x, y) => y \in X
    /\ \A c \in Cells : lv[c] /\ Anchor(e, c) => c \in X

\* Every live cell is in X.
AllIn(lv, X) == \A c \in Cells : lv[c] => c \in X

\* Every live cell hangs off an anchor.
Anchored(e, lv) == \A X \in SUBSET Cells : Covers(e, lv, X) => AllIn(lv, X)

\* The cells without a record of their own.
Leaves(e) == {c \in Cells : ~HasOutgoing(e, c)}

\* The ends of an edge record are live, and a row with one has outgoing edges.
LEMMA ReferrerLives ==
  ASSUME NEW e, NEW pl, RecordsLive(e, pl), NEW x, NEW y, Refers(e, x, y)
  PROVE  x \in Cells /\ y \in Cells /\ pl.live[x] /\ pl.live[y]
  BY HandlesFinite DEF Refers, RecordsLive, Valid, Pairs

\* A row with an edge record has outgoing edges.
LEMMA OutgoingRefers ==
  ASSUME NEW e, NEW c
  PROVE  HasOutgoing(e, c) <=> \E y \in Cells : Refers(e, c, y)
  BY HandlesFinite DEF HasOutgoing, Refers, Pairs

\* A counted edge has its record.
LEMMA CountedHasReferrer ==
  ASSUME NEW e, EngineType(e), EdgesExact(e), NEW c \in Cells, e.edge[c] # 0
  PROVE  \E y \in Cells : Refers(e, y, c)
  <1>1. /\ IsFiniteSet(Into(c)) /\ \A q \in Into(c) : e.out[q] \in Nat
        /\ \A q \in Into(c) : q \in Pairs /\ Index(q[1]) \in Cells /\ Index(q[2]) = c
    BY HandlesFinite DEF EngineType, Engines, Into, Pairs
  <1>2. ~ \A q \in Into(c) : e.out[q] = 0
    BY <1>1, CopiesZero DEF EdgesExact
  <1>3. PICK q \in Into(c) : e.out[q] # 0
    BY <1>2
  <1>4. e.out[q] > 0
    BY <1>1, <1>3
  <1> QED
    BY <1>1, <1>4 DEF Refers

\* A record is counted.
LEMMA RecordIsCounted ==
  ASSUME NEW e, EngineType(e), EdgesExact(e), NEW x, NEW c, Refers(e, x, c)
  PROVE  c \in Cells /\ e.edge[c] > 0 /\ Total(e, c) > 0
  <1>1. PICK q \in Pairs : e.out[q] > 0 /\ Index(q[1]) = x /\ Index(q[2]) = c
    BY DEF Refers
  <1>2. c \in Cells /\ q \in Into(c)
    BY <1>1, HandlesFinite DEF Into, Pairs
  <1>3. /\ IsFiniteSet(Into(c)) /\ \A u \in Into(c) : e.out[u] \in Nat
        /\ e.root[c] \in Nat /\ e.edge[c] \in Nat
    BY <1>2, HandlesFinite DEF EngineType, Engines, Into, Pairs
  <1>4. e.out[q] <= e.edge[c] /\ e.out[q] \in Nat
    BY <1>2, <1>3, CopiesBound DEF EdgesExact
  <1> QED
    BY <1>1, <1>2, <1>3, <1>4 DEF Total

\* A cell that is no anchor is held by records only.
LEMMA UnanchoredIsReferred ==
  ASSUME NEW e, NEW pl, EngineType(e), EdgesExact(e), RecordsLive(e, pl), NEW c \in Cells,
         ~Anchor(e, c)
  PROVE  /\ e.root[c] = 0 /\ Total(e, c) > 0
         /\ \E y \in Cells : Refers(e, y, c) /\ pl.live[y]
  <1>1. e.root[c] \in Nat /\ e.edge[c] \in Nat /\ ~(e.root[c] > 0) /\ e.root[c] + e.edge[c] # 0
    BY DEF EngineType, Engines, Anchor, Total
  <1>2. e.root[c] = 0 /\ e.edge[c] # 0 /\ e.root[c] + e.edge[c] > 0
    BY <1>1
  <1>3. PICK y \in Cells : Refers(e, y, c)
    BY <1>2, CountedHasReferrer
  <1>4. pl.live[y]
    BY <1>3, ReferrerLives
  <1> QED
    BY <1>2, <1>3, <1>4 DEF Total

\* Leaves are covered with the rest: whoever refers to one is no leaf.
LEMMA LeavesFollow ==
  ASSUME NEW e, NEW pl, EngineType(e), EdgesExact(e), RecordsLive(e, pl),
         NEW X \in SUBSET Cells, Covers(e, pl.live, X), AllIn(pl.live, X \cup Leaves(e))
  PROVE  AllIn(pl.live, X)
  <1> SUFFICES ASSUME NEW c \in Cells, pl.live[c], c \notin X PROVE FALSE
    BY DEF AllIn
  <1>1. ~Anchor(e, c)
    BY DEF Covers
  <1>2. PICK y \in Cells : Refers(e, y, c) /\ pl.live[y]
    BY <1>1, UnanchoredIsReferred
  <1>3. y \in X
    BY <1>2, OutgoingRefers DEF AllIn, Leaves
  <1> QED
    BY <1>2, <1>3 DEF Covers

-----------------------------------------------------------------------------
(* Applying a message *)

\* What an applied message must leave behind for the cell it is about: the roots of a
\* RootAdd, or after a loss a candidate of one kind unless the cell has no records.
Answered(r, m) ==
    LET c == Index(m.b) IN
    CASE m.op = "RootAdd" -> r.root[c] > 0
      [] m.op = "EdgeAdd" -> r.root[Index(m.a)] > 0
      [] OTHER -> Anchor(r, c) \/ ~HasOutgoing(r, c)

\* Every live cell hangs off an anchor after a message as before it.
LEMMA MessageAnchored ==
  ASSUME NEW e, NEW r, NEW pl, NEW m \in Messages, EngineType(r), EdgesExact(r),
         RecordsLive(e, pl), RecordsLive(r, pl), Anchored(e, pl.live),
         pl.live[Index(m.a)], Answered(r, m),
         \A c \in Cells : c # Index(m.b) => r.root[c] = e.root[c] /\ Total(r, c) = Total(e, c),
         e.marks \cap e.stack \subseteq r.marks \cap r.stack,
         \A q \in Pairs : q # <<m.a, m.b>> => r.out[q] = e.out[q],
         m.op \in {"RootAdd", "EdgeAdd"} => \A q \in Pairs : e.out[q] > 0 => r.out[q] > 0,
         m.op = "RootAdd" => \A c \in Cells : r.root[c] >= e.root[c],
         m.op = "EdgeAdd" => r.root = e.root /\ r.out[<<m.a, m.b>>] > 0
  PROVE  Anchored(r, pl.live)
  <1> DEFINE d == Index(m.b)
  <1> SUFFICES ASSUME NEW X \in SUBSET Cells, Covers(r, pl.live, X) PROVE AllIn(pl.live, X)
    BY DEF Anchored
  <1>1. d \in Cells /\ Index(m.a) \in Cells /\ m.a \in Handles /\ m.b \in Handles
        /\ <<m.a, m.b>> \in Pairs
    BY HandlesFinite DEF Messages, Pairs
  <1>2. \A x, y \in Cells : Refers(e, x, y) => Refers(r, x, y) \/ y = d
    <2> SUFFICES ASSUME NEW q \in Pairs, e.out[q] > 0, Index(q[2]) # d PROVE r.out[q] > 0
      BY DEF Refers
    <2> QED
      BY DEF Pairs
  <1>3. \A x \in Cells : pl.live[x] /\ Anchor(e, x) /\ x # d => Anchor(r, x)
    BY DEF Anchor
  <1>4. \A Y \in SUBSET Cells : Covers(e, pl.live, Y) => AllIn(pl.live, Y)
    BY DEF Anchored
  <1>5. CASE d \in X
    <2>1. Covers(e, pl.live, X)
      BY <1>1, <1>2, <1>3, <1>5 DEF Covers
    <2> QED
      BY <1>4, <2>1
  <1>6. CASE d \notin X
    <2>1. ~Anchor(r, d) \/ ~pl.live[d]
      BY <1>1, <1>6 DEF Covers
    <2>2. CASE m.op = "RootAdd" \/ m.op = "EdgeAdd"
      <3>1. CASE m.op = "RootAdd"
        <4>1. \A x, y \in Cells : Refers(e, x, y) => Refers(r, x, y)
          BY <3>1 DEF Refers
        <4>2. ~pl.live[d]
          BY <2>1, <3>1 DEF Answered, Anchor
        <4>3. Covers(e, pl.live, X)
          BY <1>3, <4>1, <4>2 DEF Covers
        <4> QED
          BY <1>4, <4>3
      <3>2. CASE m.op = "EdgeAdd"
        <4>1. Index(m.a) \in X
          BY <1>1, <3>2 DEF Answered, Anchor, Covers
        <4>2. Refers(r, Index(m.a), d)
          BY <1>1, <3>2 DEF Refers
        <4> QED
          BY <1>1, <1>6, <4>1, <4>2 DEF Covers
      <3> QED
        BY <2>2, <3>1, <3>2
    <2>3. CASE m.op \notin {"RootAdd", "EdgeAdd"}
      <3>1. pl.live[d] => ~HasOutgoing(r, d)
        BY <2>1, <2>3 DEF Answered
      <3>2. \A y \in Cells : ~Refers(r, d, y)
        BY <3>1, OutgoingRefers, ReferrerLives
      <3>3. Covers(e, pl.live, X \cup {d})
        BY <1>1, <1>2, <1>3, <3>2 DEF Covers
      <3>4. AllIn(pl.live, X \cup {d}) /\ d \in Leaves(r)
        BY <1>1, <1>4, <3>2, <3>3, OutgoingRefers DEF Leaves
      <3>5. AllIn(pl.live, X \cup Leaves(r))
        BY <3>4 DEF AllIn
      <3> QED
        BY <3>5, LeavesFollow
    <2> QED
      BY <2>2, <2>3
  <1> QED
    BY <1>5, <1>6

-----------------------------------------------------------------------------
(* Reclaiming *)

\* A cell that lost a reference to a reclaimed one: it counts nothing any more, it has
\* no records, or it is marked.
Noticed(b, r, c) ==
    Total(r, c) = 0 \/ ~HasOutgoing(b, c) \/ c \in b.marks \/ c \in r.marks \cap r.stack

\* Release: a cell it takes references from is noticed.
LEMMA ReleaseNotices ==
  ASSUME NEW b, EngineType(b), NEW rel \in [Cells -> Nat], NEW G \in SUBSET Cells,
         NEW t \in Cells \ G, rel[t] > 0
  PROVE  Noticed(b, ResetRows(Release(b, rel), G), t)
  <1> DEFINE r == Release(b, rel)
             hit == {c \in Cells : rel[c] > 0}
             left(c) == IF b.edge[c] > rel[c] THEN b.edge[c] - rel[c] ELSE 0
             one(c) == IF b.edge[c] > 0 THEN b.edge[c] - 1 ELSE 0
             M == {c \in hit : b.root[c] + one(c) > 0 /\ HasOutgoing(b, c)} \ b.marks
  <1>1. EngineType(r) /\ r.root = b.root /\ r.edge[t] = left(t)
    BY ReleaseShape
  <1>2. M \subseteq r.marks \cap r.stack
    BY DEF Release, EngineType, Engines
  <1>3. /\ Total(ResetRows(r, G), t) = Total(r, t)
        /\ ResetRows(r, G).marks = r.marks /\ ResetRows(r, G).stack = r.stack
    BY <1>1, ResetShape DEF Total
  <1>4. t \in hit /\ rel[t] \in Nat /\ b.root[t] \in Nat /\ b.edge[t] \in Nat
    BY DEF EngineType, Engines
  <1>5. Total(r, t) # 0 => b.root[t] + one(t) > 0
    BY <1>1, <1>4 DEF Total
  <1> HIDE DEF r, hit, one, left
  <1>6. Total(r, t) # 0 /\ HasOutgoing(b, t) /\ t \notin b.marks => t \in M
    BY <1>4, <1>5
  <1> QED
    BY <1>2, <1>3, <1>6 DEF Noticed, r

\* A set of pairs with a record among them has copies.
LEMMA CopiesSome ==
  ASSUME NEW e, EngineType(e), NEW S \in SUBSET Pairs, NEW q \in S, e.out[q] > 0
  PROVE  Cardinality(Copies(S, e.out)) \in Nat /\ Cardinality(Copies(S, e.out)) > 0
  <1>1. IsFiniteSet(S) /\ \A y \in S : e.out[y] \in Nat
    BY HandlesFinite, FS_Subset DEF EngineType, Engines, Pairs
  <1>2. Cardinality(Copies(S, e.out)) \in Nat
    BY <1>1, CopiesFinite
  <1>3. e.out[q] <= Cardinality(Copies(S, e.out)) /\ e.out[q] \in Nat
    BY <1>1, CopiesBound
  <1> QED
    BY <1>2, <1>3

\* The targets of a reclaimed cell are noticed.
LEMMA CellNotices ==
  ASSUME NEW e, NEW pl, EngineType(e), RecordsLive(e, pl), NEW c \in Cells,
         NEW t \in Cells \ {c}, Refers(e, c, t)
  PROVE  Noticed(ClearSuspects(e, {c}), ReclaimCell(e, pl, c), t)
  <1> DEFINE b == ClearSuspects(e, {c})
             Live(u) == {q \in Handles \X Handles :
                            Index(q[1]) \in {c} /\ Index(q[2]) = u /\ pl.live[Index(q[2])]}
             rel == [u \in Cells |-> Cardinality(Copies(Live(u), e.out))]
  <1>1. ASSUME NEW u \in Cells PROVE Cardinality(Copies(Live(u), e.out)) \in Nat
    <2>1. IsFiniteSet(Live(u)) /\ \A q \in Live(u) : e.out[q] \in Nat
      BY HandlesFinite, FS_Subset DEF EngineType, Engines, Pairs
    <2> HIDE DEF Live
    <2> QED
      BY <2>1, CopiesFinite
  <1>2. PICK q \in Pairs : e.out[q] > 0 /\ Index(q[1]) = c /\ Index(q[2]) = t
    BY DEF Refers
  <1>3. q \in Live(t) /\ Live(t) \in SUBSET Pairs
    BY <1>2 DEF RecordsLive, Valid, Pairs
  <1>4. rel[t] > 0
    <2> HIDE DEF Live
    <2>1. Cardinality(Copies(Live(t), e.out)) > 0
      BY <1>2, <1>3, CopiesSome
    <2> QED
      BY <2>1
  <1>5. rel \in [Cells -> Nat] /\ EngineType(b)
    BY <1>1 DEF ClearSuspects, EngineType, Engines
  <1>6. ReclaimCell(e, pl, c) = ResetRows(Release(b, rel), {c})
    BY DEF ReclaimCell, EdgesInto
  <1> HIDE DEF rel, b
  <1>7. Noticed(b, ResetRows(Release(b, rel), {c}), t)
    BY <1>4, <1>5, ReleaseNotices
  <1> QED
    BY <1>6, <1>7 DEF b

\* The targets of reclaimed components are noticed.
LEMMA CycleNotices ==
  ASSUME NEW e, NEW pl, EngineType(e), EdgesExact(e), RecordsLive(e, pl),
         NEW c \in GarbageIn(e, pl), NEW t \in Cells \ GarbageIn(e, pl), Refers(e, c, t)
  PROVE  Noticed(Scanned(e, pl), ReclaimCycles(e, pl, GarbageIn(e, pl)), t)
  <1> DEFINE G == GarbageIn(e, pl)
             b == Scanned(e, pl)
             Leaving(u) == {q \in Handles \X Handles : Index(q[1]) \in G /\ Index(q[2]) = u
                               /\ (Valid(pl, q[2]) /\ Index(q[2]) \notin SccOf(e, pl, Index(q[1])))}
             rel == [u \in Cells |-> Cardinality(Copies(Leaving(u), e.out))]
             r == ResetRows(Release(b, rel), G)
  <1>1. G \subseteq Cells /\ \A d \in G : SccOf(e, pl, d) \subseteq G
    BY GarbageIsClosed
  <1>2. ReclaimCycles(e, pl, G) = ClearSuspects(r, G)
    BY DEF ReclaimCycles, EdgesInto, Scanned
  <1> HIDE DEF G
  <1>3. ASSUME NEW u \in Cells PROVE Cardinality(Copies(Leaving(u), e.out)) \in Nat
    <2>1. IsFiniteSet(Leaving(u)) /\ \A q \in Leaving(u) : e.out[q] \in Nat
      BY HandlesFinite, FS_Subset DEF EngineType, Engines, Pairs
    <2> HIDE DEF Leaving
    <2> QED
      BY <2>1, CopiesFinite
  <1>4. PICK q \in Pairs : e.out[q] > 0 /\ Index(q[1]) = c /\ Index(q[2]) = t
    BY DEF Refers
  <1>5. q \in Leaving(t) /\ Leaving(t) \in SUBSET Pairs
    <2>1. c \in G /\ t \notin G
      BY DEF G
    <2> QED
      BY <1>1, <1>4, <2>1 DEF RecordsLive, Pairs
  <1>6. rel[t] > 0
    <2> HIDE DEF Leaving
    <2>1. Cardinality(Copies(Leaving(t), e.out)) > 0
      BY <1>4, <1>5, CopiesSome
    <2> QED
      BY <2>1
  <1>7. rel \in [Cells -> Nat] /\ EngineType(b) /\ t \in Cells \ G
    BY <1>3 DEF Scanned, ClearSuspects, EngineType, Engines, G
  <1> HIDE DEF rel, b
  <1>8. Noticed(b, r, t)
    BY <1>1, <1>6, <1>7, ReleaseNotices
  <1> HIDE DEF r
  <1>9. Noticed(b, ClearSuspects(r, G), t)
    BY <1>7, <1>8 DEF Noticed, ClearSuspects, Total
  <1> QED
    BY <1>2, <1>9 DEF G, b

\* sweepZero: every live cell still hangs off an anchor once a cell without references
\* is gone.
LEMMA ZeroAnchored ==
  ASSUME NEW e, NEW pl, NEW r, NEW pl2, EngineType(e), EdgesExact(e), RecordsLive(e, pl),
         Anchored(e, pl.live), NEW c \in Cells, Total(e, c) = 0,
         r = ReclaimCell(e, pl, c), RecordsLive(r, pl2),
         \A d \in Cells : pl2.live[d] <=> pl.live[d] /\ d # c,
         \A d \in e.marks : d \notin e.stack => Total(e, d) = 0
  PROVE  Anchored(r, pl2.live)
  <1> DEFINE b == ClearSuspects(e, {c})
  <1>1. e.edge[c] = 0 /\ e.root[c] = 0
    BY DEF Total, EngineType, Engines
  <1>2. Reclaimed(b, r, {c}) /\ NoRecordInto(e, {c})
    BY <1>1, ReclaimCellExact
  <1>3. /\ b.out = e.out /\ b.root = e.root /\ b.edge = e.edge /\ b.stack = e.stack
        /\ b.marks = e.marks \ {c} /\ EngineType(b)
    BY DEF ClearSuspects, EngineType, Engines
  <1> HIDE DEF b
  <1>4. \A d \in Cells : Total(b, d) = Total(e, d) /\ Total(e, d) \in Nat
    BY <1>3 DEF Total, EngineType, Engines
  <1>5. \A x \in Cells \ {c} : \A y \in Cells : Refers(e, x, y) <=> Refers(r, x, y)
    BY <1>2, <1>3 DEF Refers, Reclaimed
  <1>6. \A y \in Cells : ~Refers(r, c, y) /\ ~(Refers(e, c, c))
    <2>1. \A q \in Pairs : Index(q[1]) = c => ~(r.out[q] > 0)
      BY <1>2 DEF Reclaimed
    <2>2. ~Refers(e, c, c)
      BY <1>1, RecordIsCounted
    <2> QED
      BY <2>1, <2>2 DEF Refers
  <1>7. \A d \in Cells \ {c} : Total(r, d) \in Nat /\ Total(r, d) <= Total(e, d) /\ r.root[d] = e.root[d]
    BY <1>2, <1>3, <1>4 DEF Reclaimed, Total, EngineType, Engines
  <1>8. e.marks \ {c} \subseteq r.marks /\ e.stack \subseteq r.stack
    BY <1>2, <1>3 DEF Reclaimed
  <1>9. EngineType(r) /\ EdgesExact(r)
    BY <1>2 DEF Reclaimed
  <1> SUFFICES ASSUME NEW X \in SUBSET Cells, Covers(r, pl2.live, X) PROVE AllIn(pl2.live, X)
    BY DEF Anchored
  <1>10. ASSUME NEW t \in Cells, Refers(e, c, t) PROVE t \in X \cup Leaves(r)
    <2>1. t # c
      BY <1>6, <1>10
    <2>2. Noticed(b, r, t)
      BY <1>10, <2>1, CellNotices DEF b
    <2>3. HasOutgoing(b, t) <=> HasOutgoing(r, t)
      <3>1. HasOutgoing(b, t) <=> HasOutgoing(e, t)
        BY <1>3 DEF HasOutgoing
      <3>2. /\ HasOutgoing(e, t) <=> \E y \in Cells : Refers(e, t, y)
            /\ HasOutgoing(r, t) <=> \E y \in Cells : Refers(r, t, y)
        BY OutgoingRefers
      <3> QED
        BY <1>5, <2>1, <3>1, <3>2
    <2>4. pl2.live[t]
      BY <1>10, <2>1, ReferrerLives
    <2>5. CASE t \in b.marks
      <3>1. t \notin e.stack => Total(r, t) = 0
        BY <1>3, <1>7, <2>1, <2>5
      <3>2. Anchor(r, t)
        BY <1>3, <1>8, <2>1, <2>5, <3>1 DEF Anchor
      <3> QED
        BY <2>4, <3>2 DEF Covers
    <2>6. CASE t \notin b.marks
      <3>1. Anchor(r, t) \/ t \in Leaves(r)
        BY <2>2, <2>3, <2>6 DEF Noticed, Anchor, Leaves
      <3> QED
        BY <2>4, <3>1 DEF Covers
    <2> QED
      BY <2>5, <2>6
  <1>11. Covers(e, pl.live, X \cup {c} \cup Leaves(r))
    <2>1. ASSUME NEW x \in X \cup {c} \cup Leaves(r), NEW y \in Cells, Refers(e, x, y)
          PROVE  y \in X \cup {c} \cup Leaves(r)
      <3>1. CASE x = c
        BY <1>10, <2>1, <3>1
      <3>2. CASE x # c /\ x \in X
        BY <1>5, <2>1, <3>2 DEF Covers
      <3>3. CASE x # c /\ x \in Leaves(r)
        BY <1>5, <2>1, <3>3, OutgoingRefers DEF Leaves
      <3> QED
        BY <2>1, <3>1, <3>2, <3>3
    <2>2. ASSUME NEW d \in Cells, pl.live[d], Anchor(e, d), d # c PROVE d \in X
      <3>1. Anchor(r, d)
        BY <1>7, <1>8, <2>2 DEF Anchor
      <3> QED
        BY <2>2, <3>1 DEF Covers
    <2> QED
      BY <2>1, <2>2 DEF Covers
  <1>12. AllIn(pl.live, X \cup {c} \cup Leaves(r))
    <2>1. X \cup {c} \cup Leaves(r) \in SUBSET Cells
      BY DEF Leaves
    <2> QED
      BY <1>11, <2>1 DEF Anchored
  <1>13. AllIn(pl2.live, X \cup Leaves(r))
    BY <1>12 DEF AllIn
  <1> QED
    BY <1>9, <1>13, LeavesFollow

-----------------------------------------------------------------------------
(* Cycle collection: a component nobody else refers to is found *)

\* The edges the scan follows are the records.
LEMMA GraphIsRecords ==
  ASSUME NEW e, NEW pl, RecordsLive(e, pl), NEW x, NEW y
  PROVE  <<x, y>> \in GraphOf(e, pl) <=> Refers(e, x, y)
  BY DEF GraphOf, Refers, RecordsLive, Pairs

\* hasNoExternalRefs, the other way round: rootless cells without records from outside
\* pass the test.
LEMMA InnerRefsOnly ==
  ASSUME NEW e, NEW pl, EngineType(e), EdgesExact(e), RecordsLive(e, pl), NEW S \in SUBSET Cells,
         NoRecordInto(e, S), \A c \in S : e.root[c] = 0
  PROVE  HasNoExternalRefs(e, pl, S)
  <1> DEFINE Of == [c \in S |-> Into(c)]
             To == {q \in Pairs : Index(q[2]) \in S}
             Within == {q \in Pairs : Index(q[1]) \in S /\ Index(q[2]) \in S /\ Valid(pl, q[2])}
  <1>1. /\ IsFiniteSet(S) /\ IsFiniteSet(Pairs)
        /\ \A q \in Pairs : e.out[q] \in Nat
    BY HandlesFinite, EngineAssumption, FS_Subset DEF EngineType, Engines, Pairs
  <1>2. /\ \A c \in S : e.edge[c] = Cardinality(Copies(Of[c], e.out))
        /\ \A q : q \in To <=> \E c \in S : q \in Of[c]
        /\ \A c, d \in S : \A q : q \in Of[c] /\ q \in Of[d] => c = d
    BY DEF EdgesExact, Into
  <1>3. Cardinality(Copies(S, e.edge)) = Cardinality(Copies(To, e.out))
    <2>1. IsFiniteSet(To) /\ \A q \in To : e.out[q] \in Nat
      BY <1>1, FS_Subset
    <2> HIDE DEF Of, To
    <2> QED
      BY <2>1, <1>1, <1>2, CopiesByPart
  <1>4. Copies(To, e.out) = Copies(Within, e.out)
    <2>1. /\ \A q \in To \cup Within : e.out[q] \in Nat
          /\ \A q \in To \cup Within : e.out[q] > 0 => (q \in To <=> q \in Within)
      BY <1>1 DEF NoRecordInto, RecordsLive
    <2> HIDE DEF To, Within
    <2> QED
      BY <2>1, CopiesSupport
  <1> QED
    BY <1>3, <1>4 DEF HasNoExternalRefs, Pairs

\* The cells that lead to c.
Before(e, pl, c) == {d \in Cells : c \in ReachIn(Cells, GraphOf(e, pl), {d})}

\* What leads to a cell that leads to c leads to c; so does everything that refers to one.
LEMMA BeforeIsClosed ==
  ASSUME NEW e, NEW pl, RecordsLive(e, pl), NEW c \in Cells
  PROVE  /\ c \in Before(e, pl, c)
         /\ \A d \in Before(e, pl, c) : Before(e, pl, d) \subseteq Before(e, pl, c)
         /\ \A d \in Before(e, pl, c) : \A x \in Cells : Refers(e, x, d) => x \in Before(e, pl, c)
  <1> DEFINE Reach(d) == ReachIn(Cells, GraphOf(e, pl), {d})
  <1>1. ASSUME NEW d \in Cells
        PROVE  d \in Reach(d) /\ Reach(d) \subseteq Cells /\ ClosedIn(Cells, GraphOf(e, pl), Reach(d))
    BY ReachClosed
  <1>2. ASSUME NEW d \in Cells, NEW x \in Reach(d) PROVE Reach(x) \subseteq Reach(d)
    BY ReachFrom
  <1>3. ASSUME NEW x \in Cells, NEW d \in Cells, Refers(e, x, d) PROVE d \in Reach(x)
    BY <1>1, <1>3, GraphIsRecords DEF ClosedIn
  <1>4. \A d : Before(e, pl, d) = {x \in Cells : d \in Reach(x)}
    BY DEF Before
  <1> HIDE DEF Reach
  <1> QED
    BY <1>1, <1>2, <1>3, <1>4

\* A set of cells that only its members refer to holds everything that leads to one.
LEMMA BeforeStaysIn ==
  ASSUME NEW e, NEW pl, RecordsLive(e, pl), NEW B \in SUBSET Cells, NoRecordInto(e, B), NEW c \in B
  PROVE  Before(e, pl, c) \subseteq B
  <1>1. \A x, y \in Cells : Refers(e, x, y) /\ y \in B => x \in B
    BY DEF Refers, NoRecordInto
  <1>2. ClosedIn(Cells, GraphOf(e, pl), Cells \ B)
    BY <1>1, GraphIsRecords DEF ClosedIn
  <1>3. ASSUME NEW d \in Before(e, pl, c), d \notin B PROVE FALSE
    <2>1. d \in Cells /\ c \in ReachIn(Cells, GraphOf(e, pl), {d})
      BY DEF Before
    <2>2. {d} \subseteq Cells \ B
      BY <1>3, <2>1
    <2>3. ReachIn(Cells, GraphOf(e, pl), {d}) \subseteq Cells \ B
      BY <1>2, <2>2, ReachLeast
    <2> QED
      BY <2>1, <2>3
  <1> QED
    BY <1>3

\* Among cells that only they themselves refer to, some component is first: only its own
\* members refer to it.
LEMMA FirstComponent ==
  ASSUME NEW e, NEW pl, RecordsLive(e, pl), NEW B \in SUBSET Cells, B # {}, NoRecordInto(e, B)
  PROVE  \E c \in B : SccOf(e, pl, c) \subseteq B /\ NoRecordInto(e, SccOf(e, pl, c))
  <1> DEFINE size(c) == Cardinality(Before(e, pl, c))
             W == {size(c) : c \in B}
  <1>1. \A c \in Cells : IsFiniteSet(Before(e, pl, c)) /\ size(c) \in Nat
    <2>1. \A c \in Cells : IsFiniteSet(Before(e, pl, c))
      BY EngineAssumption, FS_Subset DEF Before
    <2> QED
      BY <2>1, FS_CardinalityType
  <1>2. W \in SUBSET Nat /\ W # {}
    BY <1>1
  <1>3. PICK n \in W : \A k \in W : n <= k
    BY <1>2, LeastNatural
  <1>4. PICK c \in B : n = size(c)
    BY <1>3
  <1>5. \A d \in B : size(c) <= size(d)
    BY <1>3, <1>4
  <1>6. Before(e, pl, c) \subseteq B
    BY BeforeStaysIn
  <1>7. ASSUME NEW d \in Before(e, pl, c) PROVE d \in SccOf(e, pl, c)
    <2>1. d \in B /\ d \in Cells /\ Before(e, pl, d) \subseteq Before(e, pl, c)
      BY <1>6, BeforeIsClosed
    <2>2. size(c) <= size(d)
      BY <1>5, <2>1
    <2>3. Before(e, pl, d) = Before(e, pl, c)
      <3>1. size(d) <= size(c) /\ (size(d) = size(c) => Before(e, pl, d) = Before(e, pl, c))
        BY <1>1, <2>1, FS_Subset
      <3>2. size(d) = size(c)
        <4> HIDE DEF size
        <4> QED
          BY <1>1, <2>1, <2>2, <3>1
      <3> QED
        BY <3>1, <3>2
    <2>4. c \in Before(e, pl, d)
      BY <2>3, BeforeIsClosed
    <2> QED
      BY <2>4 DEF Before, SccOf
  <1>8. SccOf(e, pl, c) \subseteq Before(e, pl, c)
    <2>1. SccOf(e, pl, c) \subseteq Cells
      BY ComponentsAgree
    <2> QED
      BY <2>1 DEF SccOf, Before
  <1>9. SccOf(e, pl, c) = Before(e, pl, c)
    BY <1>7, <1>8
  <1>10. NoRecordInto(e, Before(e, pl, c))
    BY BeforeIsClosed, HandlesFinite DEF NoRecordInto, Refers, Pairs
  <1> QED
    BY <1>6, <1>9, <1>10

\* collectCyclePass: every live cell still hangs off an anchor once the garbage components
\* of the scan are gone.  Of the visited cells that no anchor leads to, one component is
\* first; nothing refers to it from outside, so the scan would have taken it.
LEMMA CycleAnchored ==
  ASSUME NEW e, NEW pl, NEW r, NEW pl2, EngineType(e), EdgesExact(e), RecordsLive(e, pl),
         Anchored(e, pl.live), NEW G, G = GarbageIn(e, pl),
         r = ReclaimCycles(e, pl, G), RecordsLive(r, pl2),
         \A d \in Cells : pl2.live[d] <=> pl.live[d] /\ d \notin G
  PROVE  Anchored(r, pl2.live)
  <1>1. PICK V : V = Visited(e, pl)
    OBVIOUS
  <1>2. PICK b : b = Scanned(e, pl)
    OBVIOUS
  <1>3. /\ V \subseteq Cells /\ ScanRoots(e, pl) \subseteq V
        /\ \A c \in V : pl.live[c] /\ Total(e, c) > 0
        /\ \A x \in V : \A y \in Cells : Refers(e, x, y) => y \in V
    BY <1>1, VisitedIsCounted, GraphIsRecords DEF ClosedIn
  <1>4. /\ G \subseteq V /\ \A c \in G : pl.live[c] /\ Total(e, c) > 0 /\ e.root[c] = 0
        /\ NoRecordInto(e, G)
    BY <1>1, GarbageIsClosed
  <1>5. Reclaimed(b, r, G)
    BY <1>2, ReclaimCyclesExact
  <1>6. /\ b.out = e.out /\ b.root = e.root /\ b.edge = e.edge
        /\ b.marks = e.marks \ V /\ EngineType(b)
    BY <1>1, <1>2 DEF Scanned, ClearSuspects, EngineType, Engines
  <1>7. \A x \in Cells \ G : \A y \in Cells : Refers(e, x, y) <=> Refers(r, x, y)
    BY <1>5, <1>6 DEF Refers, Reclaimed
  <1>8. EngineType(r) /\ EdgesExact(r)
    BY <1>5 DEF Reclaimed
  <1>9. ASSUME NEW d \in Cells \ G
        PROVE  r.root[d] = e.root[d] /\ (Total(e, d) = 0 => Total(r, d) = 0)
    <2>1. Total(b, d) = Total(e, d)
      BY <1>6 DEF Total
    <2>2. r.root[d] = e.root[d] /\ Total(r, d) <= Total(e, d) /\ Total(r, d) \in Nat
      BY <1>5, <1>6, <1>8, <2>1 DEF Reclaimed, EngineType, Engines, Total
    <2> QED
      BY <2>2
  <1> SUFFICES ASSUME NEW X \in SUBSET Cells, Covers(r, pl2.live, X) PROVE AllIn(pl2.live, X)
    BY DEF Anchored
  <1>10. Covers(e, pl.live, X \cup V)
    <2>1. ASSUME NEW x \in X \cup V, NEW y \in Cells, Refers(e, x, y) PROVE y \in X \cup V
      <3>1. CASE x \in V
        BY <1>3, <2>1, <3>1
      <3>2. CASE x \notin V
        BY <1>4, <1>7, <2>1, <3>2 DEF Covers
      <3> QED
        BY <3>1, <3>2
    <2>2. ASSUME NEW d \in Cells, pl.live[d], Anchor(e, d), d \notin V PROVE d \in X
      <3>1. d \notin G
        BY <1>4, <2>2
      <3>2. Anchor(r, d)
        <4>1. Total(e, d) \in Nat
          BY DEF EngineType, Engines, Total
        <4>2. d \in e.marks \cap e.stack => Total(e, d) = 0
          BY <1>3, <2>2, <4>1 DEF ScanRoots
        <4> QED
          BY <1>9, <2>2, <3>1, <4>2 DEF Anchor
      <3> QED
        BY <2>2, <3>1, <3>2 DEF Covers
    <2> QED
      BY <2>1, <2>2 DEF Covers
  <1>11. AllIn(pl.live, X \cup V)
    <2>1. X \cup V \in SUBSET Cells
      BY <1>3
    <2> QED
      BY <1>10, <2>1 DEF Anchored
  <1> DEFINE B == {d \in Cells : pl2.live[d] /\ d \notin X /\ HasOutgoing(r, d)}
  <1>12. \A d \in B : d \in Cells \ G /\ d \in V /\ ~Anchor(r, d)
    BY <1>11 DEF AllIn, Covers
  <1>13. NoRecordInto(e, B)
    <2> SUFFICES ASSUME NEW q \in Pairs, e.out[q] > 0, Index(q[2]) \in B PROVE Index(q[1]) \in B
      BY DEF NoRecordInto
    <2>1. PICK x, y : x = Index(q[1]) /\ y = Index(q[2])
      OBVIOUS
    <2>2. Refers(e, x, y) /\ y \in B /\ x \in Cells /\ y \in Cells /\ pl.live[x]
      BY <2>1, ReferrerLives DEF Refers
    <2>3. ASSUME x \in G PROVE FALSE
      <3>1. Noticed(b, r, y)
        BY <1>2, <1>12, <2>2, <2>3, CycleNotices
      <3>2. HasOutgoing(r, y)
        BY <2>2
      <3>3. HasOutgoing(e, y)
        BY <1>7, <1>12, <2>2, <3>2, OutgoingRefers
      <3>4. HasOutgoing(b, y)
        BY <1>6, <3>3 DEF HasOutgoing
      <3>5. y \notin b.marks
        BY <1>6, <1>12, <2>2
      <3> QED
        BY <1>12, <2>2, <3>1, <3>4, <3>5 DEF Noticed, Anchor
    <2>4. Refers(r, x, y) /\ pl2.live[x]
      BY <1>7, <2>2, <2>3
    <2>5. x \notin X
      BY <2>2, <2>4 DEF Covers
    <2>6. HasOutgoing(r, x)
      BY <2>2, <2>4, OutgoingRefers
    <2> QED
      BY <2>1, <2>2, <2>4, <2>5, <2>6
  <1>14. ASSUME B # {} PROVE FALSE
    <2>1. PICK c \in B : SccOf(e, pl, c) \subseteq B /\ NoRecordInto(e, SccOf(e, pl, c))
      <3>1. B \in SUBSET Cells
        OBVIOUS
      <3> HIDE DEF B
      <3> QED
        BY <1>13, <1>14, <3>1, FirstComponent
    <2>2. \A d \in SccOf(e, pl, c) : e.root[d] = 0
      BY <1>8, <1>9, <1>12, <2>1, UnanchoredIsReferred
    <2>3. SccOf(e, pl, c) \in SUBSET Cells
      BY <1>12, <2>1
    <2>4. HasNoExternalRefs(e, pl, SccOf(e, pl, c))
      BY <2>1, <2>2, <2>3, InnerRefsOnly
    <2>5. c \in G
      BY <1>1, <1>12, <2>1, <2>4 DEF GarbageIn
    <2> QED
      BY <1>12, <2>1, <2>5
  <1>15. AllIn(pl2.live, X \cup Leaves(r))
    BY <1>14 DEF AllIn, Leaves
  <1> QED
    BY <1>8, <1>15, LeavesFollow

\* markLoss: the cell is a candidate of one kind or the other, or it has no records.
LEMMA MarkLossAnswers ==
  ASSUME NEW b, EngineType(b), NEW c \in Cells, NEW r, r = MarkLoss(b, c)
  PROVE  /\ Total(r, c) = 0 => c \in r.zero
         /\ Total(r, c) = 0 \/ c \in r.marks \/ ~HasOutgoing(r, c)
  <1>1. CASE Total(b, c) = 0
    BY <1>1 DEF MarkLoss, MarkZero, EngineType, Engines, Total
  <1>2. CASE Total(b, c) # 0 /\ HasOutgoing(b, c)
    <2>1. r = MarkSuspect(b, c)
      BY <1>2 DEF MarkLoss
    <2>2. c \in r.marks /\ Total(r, c) = Total(b, c)
      BY <2>1 DEF MarkSuspect, EngineType, Engines, Total
    <2> QED
      BY <1>2, <2>2
  <1>3. CASE Total(b, c) # 0 /\ ~HasOutgoing(b, c)
    BY <1>3 DEF MarkLoss
  <1> QED
    BY <1>1, <1>2, <1>3

\* A table with one count changed ...
LEMMA CountUpdate ==
  ASSUME NEW e, EngineType(e), NEW c \in Cells, NEW n \in Nat
  PROVE  EngineType([e EXCEPT !.root[c] = n]) /\ EngineType([e EXCEPT !.edge[c] = n])
  BY DEF EngineType, Engines

\* ... or one record.
LEMMA RecordUpdate ==
  ASSUME NEW e, EngineType(e), NEW q \in Handles \X Handles, NEW n \in Nat
  PROVE  EngineType([e EXCEPT !.out[q] = n]) /\ [e EXCEPT !.out[q] = n].edge = e.edge
  <1>1. e.out \in [Handles \X Handles -> Nat] /\ [e.out EXCEPT ![q] = n] \in [Handles \X Handles -> Nat]
    BY DEF EngineType, Engines
  <1>2. [e EXCEPT !.out[q] = n] = [e EXCEPT !.out = [e.out EXCEPT ![q] = n]]
    BY DEF EngineType, Engines
  <1>3. PICK o \in [Handles \X Handles -> Nat] : o = [e.out EXCEPT ![q] = n]
    BY <1>1
  <1>4. EngineType([e EXCEPT !.out = o]) /\ [e EXCEPT !.out = o].edge = e.edge
    BY DEF EngineType, Engines
  <1> QED
    BY <1>2, <1>3, <1>4

\* A removal that is not refused ends in markLoss.
LEMMA LossAnswered ==
  ASSUME NEW e, NEW pl, EngineType(e), NEW m \in Messages, NEW r, r = Process(e, pl, m),
         r.errors = {}, m.op \in {"RootRemove", "RootCheck", "EdgeRemove"}
  PROVE  LET c == Index(m.b) IN
         /\ Total(r, c) = 0 => c \in r.zero
         /\ Total(r, c) = 0 \/ c \in r.marks \/ ~HasOutgoing(r, c)
  <1> DEFINE c == Index(m.b)
             q == <<m.a, m.b>>
  <1>1. /\ c \in Cells /\ q \in Handles \X Handles /\ m.count \in Nat
        /\ e.root[c] \in Nat /\ e.edge[c] \in Nat /\ e.out[q] \in Nat
    BY HandlesFinite DEF Messages, EngineType, Engines
  <1>2. \A b, err : EngineType(b) => Fail(b, err).errors = b.errors \cup {err}
    BY DEF Fail, EngineType, Engines
  <1>3. \A b, err : EngineType(b) => Fail(b, err) # r
    BY <1>2
  <1>4. CASE m.op = "RootRemove"
    <2>1. r = RootRemove(e, pl, m)
      BY <1>4 DEF Process
    <2>2. EngineType([e EXCEPT !.root[c] = 0])
      BY <1>1, CountUpdate
    <2>3. Valid(pl, m.b) /\ ~(e.root[c] < m.count)
      BY <1>3, <2>1, <2>2 DEF RootRemove
    <2>4. PICK n \in Nat : n = e.root[c] - m.count
      BY <1>1, <2>3
    <2>5. PICK b : b = [e EXCEPT !.root[c] = n]
      OBVIOUS
    <2>6. EngineType(b)
      BY <1>1, <2>5, CountUpdate
    <2>7. r = MarkLoss(b, c)
      BY <2>1, <2>3, <2>4, <2>5 DEF RootRemove
    <2> QED
      BY <1>1, <2>6, <2>7, MarkLossAnswers
  <1>5. CASE m.op = "RootCheck"
    <2>1. r = RootCheck(e, pl, m)
      BY <1>5 DEF Process
    <2>2. r = MarkLoss(e, c)
      BY <1>3, <2>1 DEF RootCheck
    <2> QED
      BY <1>1, <2>2, MarkLossAnswers
  <1>6. CASE m.op = "EdgeRemove"
    <2>1. r = EdgeRemove(e, pl, m)
      BY <1>6 DEF Process
    <2>2. Valid(pl, m.a) /\ e.out[q] # 0
      BY <1>3, <2>1 DEF EdgeRemove
    <2>3. PICK n \in Nat : n = e.out[q] - 1
      BY <1>1, <2>2
    <2>4. PICK gone : gone = [e EXCEPT !.out[q] = n]
      OBVIOUS
    <2>5. EngineType(gone) /\ gone.edge = e.edge
      BY <1>1, <2>4, RecordUpdate
    <2>6. r = IF ~Valid(pl, m.b) THEN Fail(gone, "stale")
              ELSE IF e.edge[c] = 0 THEN Fail(gone, "edgeUnderflow")
              ELSE MarkLoss([gone EXCEPT !.edge[c] = @ - 1], c)
      BY <2>1, <2>2, <2>3, <2>4 DEF EdgeRemove
    <2>7. e.edge[c] # 0 /\ r = MarkLoss([gone EXCEPT !.edge[c] = @ - 1], c)
      BY <1>3, <2>5, <2>6
    <2>8. PICK k \in Nat : k = gone.edge[c] - 1
      BY <1>1, <2>5, <2>7
    <2>9. PICK b : b = [gone EXCEPT !.edge[c] = k]
      OBVIOUS
    <2>10. EngineType(b)
      BY <1>1, <2>5, <2>9, CountUpdate
    <2>11. r = MarkLoss(b, c)
      BY <2>7, <2>8, <2>9
    <2> QED
      BY <1>1, <2>10, <2>11, MarkLossAnswers
  <1> QED
    BY <1>4, <1>5, <1>6

=============================================================================
