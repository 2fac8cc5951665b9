---------------------------- MODULE LoxisVmProofs ----------------------------
(***************************************************************************)
(* Proofs about module LoxisVm: the barriers of the virtual machine keep   *)
(* both collectors in agreement with the references the program has.       *)
(*                                                                         *)
(* The invariant (VmInv) says that between two instructions the counts of  *)
(* the backend are exactly the registers, globals, spilled registers,      *)
(* saved locals and fields that refer to an object (ArcGood, EngGood), and *)
(* that the inline engine's table leaves nothing unnoticed (Anchored,      *)
(* ZerosQueued).  Inside an instruction the same is said with corrections: *)
(* roots the instruction itself holds (Held), the field that is just being *)
(* overwritten (View), an object that is just being made (x).  Every       *)
(* routine of the VM is a lemma that leads from one such statement to the  *)
(* next; its loops are runs of IsLoop, whose rounds LoopStays follows.     *)
(***************************************************************************)
EXTENDS LoxisVm, AarcEngineProofs, SequenceTheorems

-----------------------------------------------------------------------------
(* Loops *)

\* f is the run of a loop from lo to hi that starts at s and whose step is k.
IsLoop(f, k, s, lo, hi) ==
    f = [n \in (lo - 1)..hi |-> IF n < lo THEN s ELSE k[<<f[n - 1], n>>]]

\* Step n leads from T[n - 1] to T[n].
StepsWithin(k, T, lo, hi) == \A n \in lo..hi : \A x \in T[n - 1] : k[<<x, n>>] \in T[n]

\* A loop has a run, round by round.
LEMMA LoopExists ==
  ASSUME NEW lo \in Int, NEW hi \in Int, lo <= hi, NEW s, NEW k
  PROVE  \E f : IsLoop(f, k, s, lo, hi)
  <1> DEFINE Bad == {m \in Nat : m <= hi - lo + 1 /\ ~\E f : IsLoop(f, k, s, lo, lo - 1 + m)}
  <1>1. hi - lo + 1 \in Nat /\ lo - 1 + (hi - lo + 1) = hi
    OBVIOUS
  <1>2. CASE Bad = {}
    <2>1. PICK m \in Nat : m = hi - lo + 1
      BY <1>1
    <2>2. m \notin Bad
      BY <1>2
    <2>3. m <= hi - lo + 1 /\ lo - 1 + m = hi
      BY <1>1, <2>1
    <2>4. \E f : IsLoop(f, k, s, lo, lo - 1 + m)
      BY <2>2, <2>3
    <2> QED
      BY <2>3, <2>4
  <1>3. CASE Bad # {}
    <2>1. PICK m \in Bad : \A j \in Bad : m <= j
      BY <1>3, LeastNatural
    <2>2. CASE m = 0
      <3> DEFINE f == [n \in (lo - 1)..(lo - 1) |-> s]
      <3>1. f = [n \in (lo - 1)..(lo - 1 + 0) |-> IF n < lo THEN s ELSE k[<<f[n - 1], n>>]]
        OBVIOUS
      <3>2. IsLoop(f, k, s, lo, lo - 1 + m)
        BY <2>2, <3>1 DEF IsLoop
      <3> QED
        BY <2>1, <3>2
    <2>3. CASE m # 0
      <3>1. m \in Nat /\ m - 1 \in Nat /\ m - 1 \notin Bad
        BY <2>1, <2>3
      <3>2. PICK b \in Int : b = lo - 1 + m
        OBVIOUS
      <3>3. lo - 1 + (m - 1) = b - 1 /\ b >= lo
        BY <2>3, <3>1, <3>2
      <3>4. PICK f : IsLoop(f, k, s, lo, b - 1)
        BY <3>1, <3>3
      <3> DEFINE g == [n \in (lo - 1)..b |-> IF n = b THEN k[<<f[b - 1], b>>] ELSE f[n]]
      <3>5. \A n \in (lo - 1)..(b - 1) : f[n] = IF n < lo THEN s ELSE k[<<f[n - 1], n>>]
        BY <3>4 DEF IsLoop
      <3>6. \A n \in (lo - 1)..(b - 1) : g[n] = f[n] /\ n \in (lo - 1)..b
        BY <3>2
      <3>8. g = [n \in (lo - 1)..b |-> g[n]] /\ g[b] = k[<<f[b - 1], b>>]
        BY <3>3
      <3> HIDE DEF g
      <3>7. \A n \in (lo - 1)..b : g[n] = IF n < lo THEN s ELSE k[<<g[n - 1], n>>]
        <4> SUFFICES ASSUME NEW n \in (lo - 1)..b PROVE g[n] = IF n < lo THEN s ELSE k[<<g[n - 1], n>>]
          OBVIOUS
        <4>1. CASE n = b
          <5>1. b - 1 \in (lo - 1)..(b - 1)
            BY <3>3
          <5>2. g[b - 1] = f[b - 1]
            BY <3>6, <5>1
          <5>3. ~(n < lo)
            BY <3>3, <4>1
          <5>4. g[b] = k[<<g[b - 1], b>>]
            BY <3>8, <5>2
          <5> QED
            BY <4>1, <5>3, <5>4
        <4>2. CASE n # b /\ n < lo
          <5>1. n \in (lo - 1)..(b - 1)
            BY <3>3, <4>2
          <5> QED
            BY <3>5, <3>6, <4>2, <5>1
        <4>3. CASE n # b /\ ~(n < lo)
          <5>1. n \in (lo - 1)..(b - 1) /\ n - 1 \in (lo - 1)..(b - 1)
            BY <3>2, <4>3
          <5>2. g[n] = f[n] /\ g[n - 1] = f[n - 1]
            BY <3>6, <5>1
          <5>3. f[n] = k[<<f[n - 1], n>>]
            BY <3>5, <4>3, <5>1
          <5> QED
            BY <4>3, <5>2, <5>3
        <4> QED
          BY <4>1, <4>2, <4>3
      <3>9. IsLoop(g, k, s, lo, b)
        BY <3>7, <3>8 DEF IsLoop
      <3> QED
        BY <2>1, <3>2, <3>9
    <2> QED
      BY <2>2, <2>3
  <1> QED
    BY <1>2, <1>3

\* What holds at the start of a loop and is carried by each round holds at its end.
LEMMA LoopStays ==
  ASSUME NEW lo \in Int, NEW hi \in Int, NEW g, NEW T,
         g[lo - 1] \in T[lo - 1],
         \A n \in lo..hi : g[n - 1] \in T[n - 1] => g[n] \in T[n]
  PROVE  \A n \in (lo - 1)..hi : g[n] \in T[n]
  <1> DEFINE Bad == {m \in Nat : lo - 1 + m <= hi /\ g[lo - 1 + m] \notin T[lo - 1 + m]}
  <1>1. CASE Bad = {}
    <2> SUFFICES ASSUME NEW n \in (lo - 1)..hi PROVE g[n] \in T[n]
      OBVIOUS
    <2>1. n - (lo - 1) \in Nat /\ lo - 1 + (n - (lo - 1)) = n /\ n <= hi
      OBVIOUS
    <2> QED
      BY <1>1, <2>1
  <1>2. CASE Bad # {}
    <2>1. PICK m \in Bad : \A j \in Bad : m <= j
      BY <1>2, LeastNatural
    <2>2. m # 0
      BY <2>1
    <2>3. m \in Nat /\ m - 1 \in Nat /\ m - 1 \notin Bad
      BY <2>1, <2>2
    <2>4. PICK n \in Int : n = lo - 1 + m
      OBVIOUS
    <2>5. n \in lo..hi /\ lo - 1 + (m - 1) = n - 1 /\ g[n] \notin T[n]
      BY <2>1, <2>2, <2>3, <2>4
    <2>6. g[n - 1] \in T[n - 1]
      BY <2>3, <2>5
    <2> QED
      BY <2>5, <2>6
  <1> QED
    BY <1>1, <1>2

\* A function that steps like k inside T is a loop's run if its equation has a solution
\* at all, and it has one: the run of k.
LEMMA LoopRuns ==
  ASSUME NEW lo \in Int, NEW hi \in Int, lo <= hi, NEW s, NEW T, NEW k,
         s \in T[lo - 1], StepsWithin(k, T, lo, hi)
  PROVE  \E f : IsLoop(f, k, s, lo, hi) /\ \A n \in (lo - 1)..hi : f[n] \in T[n]
  <1>1. PICK f : IsLoop(f, k, s, lo, hi)
    BY LoopExists
  <1>2. \A n \in (lo - 1)..hi : f[n] = IF n < lo THEN s ELSE k[<<f[n - 1], n>>]
    BY <1>1 DEF IsLoop
  <1>3. f[lo - 1] \in T[lo - 1]
    <2>1. lo - 1 \in (lo - 1)..hi /\ lo - 1 < lo
      OBVIOUS
    <2>2. f[lo - 1] = s
      BY <1>2, <2>1
    <2> QED
      BY <2>2
  <1>4. \A n \in lo..hi : f[n - 1] \in T[n - 1] => f[n] \in T[n]
    <2> SUFFICES ASSUME NEW n \in lo..hi, f[n - 1] \in T[n - 1] PROVE f[n] \in T[n]
      OBVIOUS
    <2>1. n \in (lo - 1)..hi /\ ~(n < lo)
      OBVIOUS
    <2>2. f[n] = k[<<f[n - 1], n>>]
      BY <1>2, <2>1
    <2> QED
      BY <2>2 DEF StepsWithin
  <1>5. \A n \in (lo - 1)..hi : f[n] \in T[n]
    BY <1>3, <1>4, LoopStays
  <1> QED
    BY <1>1, <1>5

-----------------------------------------------------------------------------
(* Counting references *)

One(v, c) == IF v = c THEN 1 ELSE 0

\* How many members of S the function f sends to c.
Hits(S, f, c) == Cardinality({x \in S : f[x] = c})

\* A count of hits is a number.
LEMMA HitsType ==
  ASSUME NEW S, IsFiniteSet(S), NEW f, NEW c
  PROVE  Hits(S, f, c) \in Nat
  <1>1. IsFiniteSet({x \in S : f[x] = c})
    BY FS_Subset
  <1> QED
    BY <1>1, FS_CardinalityType DEF Hits

\* It is not zero exactly when there is a hit.
LEMMA HitsSome ==
  ASSUME NEW S, IsFiniteSet(S), NEW f, NEW c
  PROVE  Hits(S, f, c) > 0 <=> \E x \in S : f[x] = c
  <1> DEFINE H == {x \in S : f[x] = c}
  <1>1. IsFiniteSet(H)
    BY FS_Subset
  <1>2. Cardinality(H) \in Nat /\ (Cardinality(H) = 0 <=> H = {})
    BY <1>1, FS_CardinalityType, FS_EmptySet
  <1>3. Hits(S, f, c) = Cardinality(H)
    BY DEF Hits
  <1>4. H # {} <=> \E x \in S : f[x] = c
    OBVIOUS
  <1> HIDE DEF H
  <1>5. Hits(S, f, c) > 0 <=> H # {}
    BY <1>2, <1>3
  <1> QED
    BY <1>4, <1>5

\* Functions that agree have the same hits.
LEMMA HitsSame ==
  ASSUME NEW S, NEW f, NEW g, NEW c, \A x \in S : f[x] = c <=> g[x] = c
  PROVE  Hits(S, g, c) = Hits(S, f, c)
  BY DEF Hits

\* The hits of two disjoint sets add up.
LEMMA HitsSplit ==
  ASSUME NEW S, NEW A, NEW B, IsFiniteSet(S), S = A \cup B, A \cap B = {}, NEW f, NEW c
  PROVE  /\ IsFiniteSet(A) /\ IsFiniteSet(B)
         /\ Hits(S, f, c) = Hits(A, f, c) + Hits(B, f, c)
  <1> DEFINE HA == {x \in A : f[x] = c}
             HB == {x \in B : f[x] = c}
             HS == {x \in S : f[x] = c}
  <1>1. IsFiniteSet(A) /\ IsFiniteSet(B)
    BY FS_Subset
  <1>2. IsFiniteSet(HA) /\ IsFiniteSet(HB) /\ HA \cap HB = {} /\ HS = HA \cup HB
    BY <1>1, FS_Subset
  <1> HIDE DEF HA, HB, HS
  <1>3. Cardinality(HS) = Cardinality(HA) + Cardinality(HB)
    BY <1>2, CardinalitySplit
  <1> QED
    BY <1>1, <1>3 DEF Hits, HA, HB, HS

\* One member counts once if it is a hit.
LEMMA HitsOne ==
  ASSUME NEW r, NEW f, NEW c
  PROVE  Hits({r}, f, c) = One(f[r], c)
  <1>1. CASE f[r] = c
    <2>1. {x \in {r} : f[x] = c} = {r}
      BY <1>1
    <2> QED
      BY <1>1, <2>1, FS_Singleton DEF Hits, One
  <1>2. CASE f[r] # c
    <2>1. {x \in {r} : f[x] = c} = {}
      BY <1>2
    <2> QED
      BY <1>2, <2>1, FS_EmptySet DEF Hits, One
  <1> QED
    BY <1>1, <1>2

\* Taking one member out of a set.
LEMMA HitsWithout ==
  ASSUME NEW S, IsFiniteSet(S), NEW r \in S, NEW f, NEW c
  PROVE  Hits(S, f, c) = Hits(S \ {r}, f, c) + One(f[r], c)
  <1>1. S = (S \ {r}) \cup {r} /\ (S \ {r}) \cap {r} = {}
    OBVIOUS
  <1>2. Hits(S, f, c) = Hits(S \ {r}, f, c) + Hits({r}, f, c)
    BY <1>1, HitsSplit
  <1> QED
    BY <1>2, HitsOne

\* Changing a function at one place.
LEMMA HitsUpdate ==
  ASSUME NEW S, IsFiniteSet(S), NEW r \in S, NEW f, NEW g, NEW c,
         \A y \in S \ {r} : g[y] = f[y]
  PROVE  Hits(S, g, c) + One(f[r], c) = Hits(S, f, c) + One(g[r], c)
  <1>1. Hits(S, f, c) = Hits(S \ {r}, f, c) + One(f[r], c)
    BY HitsWithout
  <1>2. Hits(S, g, c) = Hits(S \ {r}, g, c) + One(g[r], c)
    BY HitsWithout
  <1>3. Hits(S \ {r}, g, c) = Hits(S \ {r}, f, c)
    BY HitsSame
  <1>4. IsFiniteSet(S \ {r})
    BY FS_Subset
  <1>5. Hits(S \ {r}, f, c) \in Nat
    BY <1>4, HitsType
  <1>6. One(f[r], c) \in Nat /\ One(g[r], c) \in Nat
    BY DEF One
  <1> QED
    BY <1>1, <1>2, <1>3, <1>5, <1>6

-----------------------------------------------------------------------------
(* The table of the inline engine *)

\* The one handle a slot has here, and the pool as AarcCellSource shows it.
At(c) == <<c, 0>>
Src(lv) == [live |-> lv, gen |-> [c \in Cells |-> 0]]

\* The records of a table are the fields of the objects.
OutExact(e, cl) == \A a, b \in Cells : e.out[<<At(a), At(b)>>] = Hits(Fields, cl[a], b)

\* A mark is on a live cell that is a suspect, or counts nothing and waits to be swept.
MarksQueued(e, lv) ==
    \A d \in e.marks : lv[d] /\ (d \in e.stack \/ (Total(e, d) = 0 /\ d \in e.zero))

\* A live cell that counts nothing waits to be swept, but for x, which is being made.
ZerosQueued(e, lv, x) == \A c \in Cells : lv[c] /\ Total(e, c) = 0 /\ c # x => c \in e.zero

\* The table agrees with the references the program has: R of them are roots, the rest are
\* fields cl; and every live cell hangs off an anchor.
EngGood(e, lv, cl, R, x) ==
    /\ EngineType(e) /\ e.errors = {} /\ EdgesExact(e) /\ RecordsLive(e, Src(lv))
    /\ Anchored(e, lv) /\ OutExact(e, cl) /\ MarksQueued(e, lv) /\ ZerosQueued(e, lv, x)
    /\ \A c \in Cells : e.root[c] = R[c] /\ (R[c] > 0 => lv[c])

Blanked(cl, G) == [c \in Cells |-> IF c \in G THEN Blank ELSE cl[c]]
Without(lv, G) == [c \in Cells |-> lv[c] /\ c \notin G]

\* The constants of the machine.
LEMMA Sizes ==
  /\ MaxGen = 0 /\ IsFiniteSet(Cells) /\ 0 \notin Cells /\ Cells \subseteq Nat
  /\ NArgs \in Nat /\ NLocals \in Nat /\ NGlobals \in Nat
  /\ FirstLocal = NArgs + 1 /\ LastLocal = NArgs + NLocals
  /\ IsFiniteSet(Regs) /\ IsFiniteSet(Globals) /\ IsFiniteSet(Fields)
  <1>1. IsFiniteSet(0..LastLocal) /\ IsFiniteSet(1..NGlobals)
    BY VmAssumption, FS_Interval DEF LastLocal
  <1> QED
    BY <1>1, VmAssumption, EngineAssumption DEF FirstLocal, LastLocal, Regs, Globals

\* With a single generation a handle is a slot.
LEMMA OneGeneration ==
  /\ \A c \in Cells : At(c) \in Handles /\ Index(At(c)) = c /\ Gen(At(c)) = 0
  /\ \A h \in Handles : h = At(Index(h)) /\ Index(h) \in Cells /\ Gen(h) = 0
  /\ \A q \in Pairs : /\ q = <<At(Index(q[1])), At(Index(q[2]))>>
                      /\ Index(q[1]) \in Cells /\ Index(q[2]) \in Cells
  /\ \A a, b \in Cells : <<At(a), At(b)>> \in Pairs
  <1>1. MaxGen = 0
    BY Sizes
  <1>2. \A c \in Cells : At(c) \in Handles /\ Index(At(c)) = c /\ Gen(At(c)) = 0
    BY <1>1 DEF Handles, At, Index, Gen
  <1>3. \A h \in Handles : h = At(Index(h)) /\ Index(h) \in Cells /\ Gen(h) = 0
    BY <1>1, HandlesFinite DEF At
  <1>4. \A q \in Pairs : q[1] \in Handles /\ q[2] \in Handles /\ q = <<q[1], q[2]>>
    BY DEF Pairs
  <1> QED
    BY <1>2, <1>3, <1>4 DEF Pairs

\* Validity in the pool of AarcCellSource is being alive.
LEMMA SrcValid ==
  ASSUME NEW lv, NEW h \in Handles
  PROVE  Valid(Src(lv), h) <=> lv[Index(h)]
  BY OneGeneration DEF Valid, Src

\* A blank object refers to nothing.
LEMMA BlankHits ==
  ASSUME NEW c \in Cells
  PROVE  Hits(Fields, Blank, c) = 0
  <1>1. ~\E f \in Fields : Blank[f] = c
    BY Sizes DEF Blank
  <1>2. IsFiniteSet(Fields)
    BY Sizes
  <1>3. Hits(Fields, Blank, c) \in Nat
    BY <1>2, HitsType
  <1>4. Hits(Fields, Blank, c) > 0 <=> \E f \in Fields : Blank[f] = c
    BY <1>2, HitsSome
  <1> QED
    BY <1>1, <1>3, <1>4

\* Reclaiming cells nobody refers to from outside leaves no record of a dead cell.
LEMMA ReclaimLive ==
  ASSUME NEW e, NEW lv, RecordsLive(e, Src(lv)), NEW G \in SUBSET Cells, NoRecordInto(e, G),
         NEW r, \A q \in Pairs : r.out[q] = IF Index(q[1]) \in G THEN 0 ELSE e.out[q]
  PROVE  RecordsLive(r, Src(Without(lv, G)))
  <1> SUFFICES ASSUME NEW q \in Pairs, r.out[q] > 0
               PROVE  Valid(Src(Without(lv, G)), q[1]) /\ Valid(Src(Without(lv, G)), q[2])
    BY DEF RecordsLive
  <1>1. Index(q[1]) \notin G /\ e.out[q] > 0
    OBVIOUS
  <1>2. Index(q[2]) \notin G
    BY <1>1 DEF NoRecordInto
  <1>3. q[1] \in Handles /\ q[2] \in Handles /\ Index(q[1]) \in Cells /\ Index(q[2]) \in Cells
    BY OneGeneration DEF Pairs
  <1>4. lv[Index(q[1])] /\ lv[Index(q[2])]
    BY <1>1, <1>3, SrcValid DEF RecordsLive
  <1> QED
    BY <1>1, <1>2, <1>3, <1>4, SrcValid DEF Without

\* Reclaiming cells without roots and without records from outside keeps the table in
\* agreement with what the program has left.
LEMMA ReclaimGood ==
  ASSUME NEW e, NEW lv, NEW cl, NEW R, EngGood(e, lv, cl, R, 0),
         NEW G \in SUBSET Cells, NoRecordInto(e, G), \A c \in G : e.root[c] = 0,
         NEW b, b.root = e.root, b.out = e.out, b.errors = e.errors,
         NEW r, Reclaimed(b, r, G),
         Anchored(r, Without(lv, G)), MarksQueued(r, Without(lv, G)),
         ZerosQueued(r, Without(lv, G), 0)
  PROVE  EngGood(r, Without(lv, G), Blanked(cl, G), R, 0)
  <1>1. /\ EngineType(r) /\ EdgesExact(r) /\ r.errors = {}
        /\ \A c \in Cells : r.root[c] = IF c \in G THEN 0 ELSE e.root[c]
        /\ \A q \in Pairs : r.out[q] = IF Index(q[1]) \in G THEN 0 ELSE e.out[q]
    BY DEF Reclaimed, EngGood
  <1>2. RecordsLive(r, Src(Without(lv, G)))
    BY <1>1, ReclaimLive DEF EngGood
  <1>3. OutExact(r, Blanked(cl, G))
    <2> SUFFICES ASSUME NEW a \in Cells, NEW c \in Cells
                 PROVE  r.out[<<At(a), At(c)>>] = Hits(Fields, Blanked(cl, G)[a], c)
      BY DEF OutExact
    <2>1. <<At(a), At(c)>> \in Pairs /\ Index(At(a)) = a
      BY OneGeneration
    <2>2. r.out[<<At(a), At(c)>>] = IF a \in G THEN 0 ELSE e.out[<<At(a), At(c)>>]
      BY <1>1, <2>1
    <2>3. Blanked(cl, G)[a] = IF a \in G THEN Blank ELSE cl[a]
      BY DEF Blanked
    <2> QED
      BY <2>2, <2>3, BlankHits DEF EngGood, OutExact
  <1>4. \A c \in Cells : r.root[c] = R[c] /\ (R[c] > 0 => Without(lv, G)[c])
    <2> SUFFICES ASSUME NEW c \in Cells PROVE r.root[c] = R[c] /\ (R[c] > 0 => Without(lv, G)[c])
      OBVIOUS
    <2>1. e.root[c] = R[c] /\ (R[c] > 0 => lv[c])
      BY DEF EngGood
    <2>2. r.root[c] = IF c \in G THEN 0 ELSE e.root[c]
      BY <1>1
    <2>3. Without(lv, G)[c] <=> lv[c] /\ c \notin G
      BY DEF Without
    <2>4. CASE c \in G
      <3>1. R[c] = 0
        BY <2>1, <2>4
      <3> QED
        BY <2>2, <2>4, <3>1
    <2>5. CASE c \notin G
      BY <2>1, <2>2, <2>3, <2>5
    <2> QED
      BY <2>4, <2>5
  <1> QED
    BY <1>1, <1>2, <1>3, <1>4 DEF EngGood

\* Taking a candidate off the stack of zero cells changes nothing else.
Popped(e, c) == [e EXCEPT !.zero = @ \ {c}]

\* ... and keeps what is known of the table.
LEMMA PoppedShape ==
  ASSUME NEW e, EngineType(e), NEW c
  PROVE  LET p == Popped(e, c) IN
         /\ EngineType(p) /\ p.root = e.root /\ p.edge = e.edge /\ p.out = e.out
         /\ p.zero = e.zero \ {c} /\ p.marks = e.marks /\ p.stack = e.stack /\ p.errors = e.errors
         /\ \A d : Total(p, d) = Total(e, d)
         /\ EdgesExact(e) => EdgesExact(p)
         /\ \A lv : /\ Anchored(e, lv) => Anchored(p, lv)
                    /\ RecordsLive(e, Src(lv)) => RecordsLive(p, Src(lv))
         /\ \A cl : OutExact(e, cl) => OutExact(p, cl)
  <1> DEFINE p == Popped(e, c)
  <1>1. /\ EngineType(p) /\ p.root = e.root /\ p.edge = e.edge /\ p.out = e.out
        /\ p.zero = e.zero \ {c} /\ p.marks = e.marks /\ p.stack = e.stack /\ p.errors = e.errors
    BY DEF Popped, EngineType, Engines
  <1> HIDE DEF p
  <1>2. \A d : Total(p, d) = Total(e, d)
    BY <1>1 DEF Total
  <1>3. EdgesExact(e) => EdgesExact(p)
    BY <1>1 DEF EdgesExact
  <1>4. \A d : Anchor(p, d) <=> Anchor(e, d)
    BY <1>1, <1>2 DEF Anchor
  <1>5. \A x, y : Refers(p, x, y) <=> Refers(e, x, y)
    BY <1>1 DEF Refers
  <1>6. \A lv, X : Covers(p, lv, X) <=> Covers(e, lv, X)
    BY <1>4, <1>5 DEF Covers
  <1>7. \A lv : Anchored(e, lv) => Anchored(p, lv)
    BY <1>6 DEF Anchored
  <1>8. \A lv : RecordsLive(e, Src(lv)) => RecordsLive(p, Src(lv))
    BY <1>1 DEF RecordsLive
  <1>9. \A cl : OutExact(e, cl) => OutExact(p, cl)
    BY <1>1 DEF OutExact
  <1> QED
    BY <1>1, <1>2, <1>3, <1>7, <1>8, <1>9 DEF p

-----------------------------------------------------------------------------
(* The steps of the inline engine *)

\* One candidate of a sweep: reclaimed if nothing refers to it, dropped otherwise.
LEMMA PopGood ==
  ASSUME NEW e, NEW lv, lv \in [Cells -> BOOLEAN], NEW cl, NEW R, EngGood(e, lv, cl, R, 0),
         NEW c \in e.zero, NEW p, p = Popped(e, c)
  PROVE  /\ c \in Cells /\ p.zero = e.zero \ {c}
         /\ IsZeroGarbage(p, Src(lv), c) =>
              EngGood(ReclaimCell(p, Src(lv), c), Without(lv, {c}), Blanked(cl, {c}), R, 0)
         /\ ~IsZeroGarbage(p, Src(lv), c) => EngGood(p, lv, cl, R, 0)
  <1>1. /\ EngineType(p) /\ p.root = e.root /\ p.edge = e.edge /\ p.out = e.out
        /\ p.zero = e.zero \ {c} /\ p.marks = e.marks /\ p.stack = e.stack /\ p.errors = e.errors
        /\ \A d : Total(p, d) = Total(e, d)
        /\ EdgesExact(p) /\ Anchored(p, lv) /\ RecordsLive(p, Src(lv)) /\ OutExact(p, cl)
    BY PoppedShape DEF EngGood
  <1>2. c \in Cells /\ Src(lv).live = lv
    BY DEF EngGood, EngineType, Engines, Src
  <1>3. ASSUME ~IsZeroGarbage(p, Src(lv), c) PROVE EngGood(p, lv, cl, R, 0)
    <2>1. ~(lv[c] /\ Total(e, c) = 0)
      BY <1>1, <1>2, <1>3 DEF IsZeroGarbage
    <2>2. MarksQueued(p, lv)
      BY <1>1, <2>1 DEF MarksQueued, EngGood
    <2>3. ZerosQueued(p, lv, 0)
      BY <1>1, <2>1 DEF ZerosQueued, EngGood
    <2> QED
      BY <1>1, <2>2, <2>3 DEF EngGood
  <1>4. ASSUME IsZeroGarbage(p, Src(lv), c)
        PROVE  EngGood(ReclaimCell(p, Src(lv), c), Without(lv, {c}), Blanked(cl, {c}), R, 0)
    <2>1. PICK r : r = ReclaimCell(p, Src(lv), c)
      OBVIOUS
    <2>2. PICK b : b = ClearSuspects(p, {c})
      OBVIOUS
    <2>3. lv[c] /\ Total(p, c) = 0
      BY <1>2, <1>4 DEF IsZeroGarbage
    <2>4. p.root[c] = 0 /\ p.edge[c] = 0
      BY <1>1, <1>2, <2>3 DEF Total, EngineType, Engines
    <2>5. Reclaimed(b, r, {c}) /\ NoRecordInto(p, {c})
      BY <1>1, <1>2, <2>1, <2>2, <2>4, ReclaimCellExact
    <2>6. /\ b.root = e.root /\ b.out = e.out /\ b.errors = e.errors /\ b.edge = e.edge
          /\ b.zero = p.zero /\ b.marks = e.marks \ {c} /\ b.stack = e.stack /\ EngineType(b)
      BY <1>1, <2>2 DEF ClearSuspects, EngineType, Engines
    <2>7. \A d \in Cells : Total(b, d) = Total(e, d) /\ Total(e, d) \in Nat
      BY <2>6 DEF Total, EngineType, Engines
    <2>8. PICK lv2 : lv2 = Without(lv, {c})
      OBVIOUS
    <2>9. \A d \in Cells : lv2[d] <=> lv[d] /\ d # c
      BY <2>8 DEF Without
    <2>10. RecordsLive(r, Src(lv2))
      <3>1. \A q \in Pairs : r.out[q] = IF Index(q[1]) \in {c} THEN 0 ELSE p.out[q]
        BY <1>1, <2>5, <2>6 DEF Reclaimed
      <3> QED
        BY <1>1, <1>2, <2>5, <2>8, <3>1, ReclaimLive
    <2>11. Anchored(r, lv2)
      <3>1. PICK s1 : s1 = Src(lv)
        OBVIOUS
      <3>2. PICK s2 : s2 = Src(lv2)
        OBVIOUS
      <3>3. s1.live = lv /\ s2.live = lv2
        BY <3>1, <3>2 DEF Src
      <3>4. \A d \in p.marks : d \notin p.stack => Total(p, d) = 0
        BY <1>1 DEF EngGood, MarksQueued
      <3>5. \A d \in Cells : s2.live[d] <=> s1.live[d] /\ d # c
        BY <2>9, <3>3
      <3>6. /\ EngineType(p) /\ EdgesExact(p) /\ RecordsLive(p, s1) /\ Anchored(p, s1.live)
            /\ Total(p, c) = 0 /\ r = ReclaimCell(p, s1, c) /\ RecordsLive(r, s2)
        BY <1>1, <2>1, <2>3, <2>10, <3>1, <3>2, <3>3
      <3>7. Anchored(r, s2.live)
        BY <1>2, <3>4, <3>5, <3>6, ZeroAnchored
      <3> QED
        BY <3>3, <3>7
    <2>12. PICK hit \in SUBSET (Cells \ {c}) : \E M \in SUBSET hit :
             /\ \A d \in (Cells \ {c}) \ hit : Total(r, d) = Total(b, d)
             /\ \A d \in hit : \E q \in Pairs : b.out[q] > 0 /\ Index(q[1]) \in {c} /\ Index(q[2]) = d
             /\ r.zero = b.zero \cup {d \in hit : Total(r, d) = 0}
             /\ r.marks = b.marks \cup M /\ r.stack = b.stack \cup M
      BY <2>5 DEF Reclaimed
    <2>13. PICK M \in SUBSET hit :
             /\ \A d \in (Cells \ {c}) \ hit : Total(r, d) = Total(b, d)
             /\ \A d \in hit : \E q \in Pairs : b.out[q] > 0 /\ Index(q[1]) \in {c} /\ Index(q[2]) = d
             /\ r.zero = b.zero \cup {d \in hit : Total(r, d) = 0}
             /\ r.marks = b.marks \cup M /\ r.stack = b.stack \cup M
      BY <2>12
    <2>14. ASSUME NEW d \in hit PROVE lv[d] /\ d # c /\ d \in Cells
      <3>1. PICK q \in Pairs : e.out[q] > 0 /\ Index(q[2]) = d
        BY <2>6, <2>13
      <3>2. q[2] \in Handles /\ Valid(Src(lv), q[2])
        BY <1>1, <3>1 DEF RecordsLive, Pairs
      <3> QED
        BY <3>1, <3>2, SrcValid
    <2>15. /\ EngineType(r) /\ \A d \in Cells \ {c} : Total(r, d) <= Total(b, d)
           /\ \A d \in Cells : Total(r, d) \in Nat
      BY <2>5 DEF Reclaimed, EngineType, Engines, Total
    <2>16. MarksQueued(r, lv2)
      <3> SUFFICES ASSUME NEW d \in r.marks
                   PROVE  lv2[d] /\ (d \in r.stack \/ (Total(r, d) = 0 /\ d \in r.zero))
        BY DEF MarksQueued
      <3>1. CASE d \in M
        BY <2>9, <2>13, <2>14, <3>1
      <3>2. CASE d \notin M
        <4>1. d \in e.marks /\ d # c /\ d \in Cells
          BY <2>6, <2>13, <3>2 DEF EngineType, Engines
        <4>2. lv[d] /\ (d \in e.stack \/ (Total(e, d) = 0 /\ d \in e.zero))
          BY <4>1 DEF EngGood, MarksQueued
        <4>3. d \in r.stack \/ (Total(r, d) = 0 /\ d \in r.zero)
          <5>1. CASE d \in e.stack
            BY <2>6, <2>13, <5>1
          <5>2. CASE Total(e, d) = 0 /\ d \in e.zero
            <6>1. Total(r, d) <= 0 /\ Total(r, d) \in Nat
              BY <2>7, <2>15, <4>1, <5>2
            <6>2. d \in r.zero
              BY <1>1, <2>6, <2>13, <4>1, <5>2
            <6> QED
              BY <6>1, <6>2
          <5> QED
            BY <4>2, <5>1, <5>2
        <4> QED
          BY <2>9, <4>1, <4>2, <4>3
      <3> QED
        BY <3>1, <3>2
    <2>17. ZerosQueued(r, lv2, 0)
      <3> SUFFICES ASSUME NEW d \in Cells, lv2[d], Total(r, d) = 0 PROVE d \in r.zero
        BY DEF ZerosQueued
      <3>1. lv[d] /\ d # c
        BY <2>9
      <3>2. CASE d \in hit
        BY <2>13, <3>2
      <3>3. CASE d \notin hit
        <4>1. Total(e, d) = 0
          BY <2>7, <2>13, <3>1, <3>3
        <4>2. d # 0
          BY Sizes
        <4>3. d \in e.zero
          BY <3>1, <4>1, <4>2 DEF EngGood, ZerosQueued
        <4> QED
          BY <1>1, <2>6, <2>13, <3>1, <4>3
      <3> QED
        BY <3>2, <3>3
    <2>18. NoRecordInto(e, {c})
      BY <1>1, <2>5 DEF NoRecordInto
    <2>19. \A d \in {c} : e.root[d] = 0
      BY <1>1, <2>4
    <2>20. {c} \in SUBSET Cells
      BY <1>2
    <2>21. EngGood(r, Without(lv, {c}), Blanked(cl, {c}), R, 0)
      BY <2>5, <2>6, <2>8, <2>11, <2>16, <2>17, <2>18, <2>19, <2>20, ReclaimGood
    <2> QED
      BY <2>1, <2>21
  <1> QED
    BY <1>1, <1>2, <1>3, <1>4

\* One pass of the cycle collector: what no visited component is held by from outside goes.
LEMMA ScanGood ==
  ASSUME NEW e, NEW lv, lv \in [Cells -> BOOLEAN], NEW cl, NEW R, EngGood(e, lv, cl, R, 0),
         NEW G, G = GarbageIn(e, Src(lv)), NEW r, r = ReclaimCycles(e, Src(lv), G)
  PROVE  /\ EngGood(r, Without(lv, G), Blanked(cl, G), R, 0)
         /\ G \subseteq Cells /\ \A c \in G : lv[c]
         /\ G = {} => r.stack = {} /\ r.zero = e.zero
  <1>1. PICK pl : pl = Src(lv)
    OBVIOUS
  <1>2. PICK V : V = Visited(e, pl)
    OBVIOUS
  <1>3. PICK b : b = Scanned(e, pl)
    OBVIOUS
  <1>4. PICK lv2 : lv2 = Without(lv, G)
    OBVIOUS
  <1>5. EngineType(e) /\ EdgesExact(e) /\ RecordsLive(e, pl) /\ Anchored(e, lv) /\ pl.live = lv
    BY <1>1 DEF EngGood, Src
  <1>6. /\ G \subseteq V /\ G \subseteq Cells /\ NoRecordInto(e, G)
        /\ \A c \in G : lv[c] /\ Total(e, c) > 0 /\ e.root[c] = 0
    <2>1. G = GarbageIn(e, pl)
      BY <1>1
    <2>2. /\ G \subseteq V /\ G \subseteq Cells /\ NoRecordInto(e, G)
          /\ \A c \in G : pl.live[c] /\ Total(e, c) > 0 /\ e.root[c] = 0
      BY <1>2, <1>5, <2>1, GarbageIsClosed
    <2> QED
      BY <1>5, <2>2
  <1>7. /\ V \subseteq Cells /\ ScanRoots(e, pl) \subseteq V
        /\ \A c \in V : lv[c] /\ Total(e, c) > 0
    BY <1>2, <1>5, VisitedIsCounted
  <1>8. Reclaimed(b, r, G)
    BY <1>1, <1>3, <1>5, ReclaimCyclesExact
  <1>9. /\ b.out = e.out /\ b.root = e.root /\ b.edge = e.edge /\ b.errors = e.errors
        /\ b.marks = e.marks \ V /\ b.stack = {} /\ b.zero = e.zero /\ EngineType(b)
    BY <1>2, <1>3, <1>5 DEF Scanned, ClearSuspects, EngineType, Engines
  <1>10. \A d \in Cells : Total(b, d) = Total(e, d) /\ Total(e, d) \in Nat
    BY <1>9 DEF Total, EngineType, Engines
  <1>11. \A d \in Cells : lv2[d] <=> lv[d] /\ d \notin G
    BY <1>4 DEF Without
  <1>12. RecordsLive(r, Src(lv2))
    <2>1. \A q \in Pairs : r.out[q] = IF Index(q[1]) \in G THEN 0 ELSE e.out[q]
      BY <1>8, <1>9 DEF Reclaimed
    <2> QED
      BY <1>1, <1>4, <1>5, <1>6, <2>1, ReclaimLive
  <1>13. Anchored(r, lv2)
    <2>1. PICK s2 : s2 = Src(lv2)
      OBVIOUS
    <2>2. s2.live = lv2
      BY <2>1 DEF Src
    <2>3. \A d \in Cells : s2.live[d] <=> pl.live[d] /\ d \notin G
      BY <1>5, <1>11, <2>2
    <2>4. /\ Anchored(e, pl.live) /\ G = GarbageIn(e, pl) /\ r = ReclaimCycles(e, pl, G)
          /\ RecordsLive(r, s2)
      BY <1>1, <1>5, <1>12, <2>1
    <2>5. Anchored(r, s2.live)
      BY <1>5, <2>3, <2>4, CycleAnchored
    <2> QED
      BY <2>2, <2>5
  <1>14. PICK hit \in SUBSET (Cells \ G) : \E M \in SUBSET hit :
           /\ \A d \in (Cells \ G) \ hit : Total(r, d) = Total(b, d)
           /\ \A d \in hit : \E q \in Pairs : b.out[q] > 0 /\ Index(q[1]) \in G /\ Index(q[2]) = d
           /\ r.zero = b.zero \cup {d \in hit : Total(r, d) = 0}
           /\ r.marks = b.marks \cup M /\ r.stack = b.stack \cup M
    BY <1>8 DEF Reclaimed
  <1>15. PICK M \in SUBSET hit :
           /\ \A d \in (Cells \ G) \ hit : Total(r, d) = Total(b, d)
           /\ \A d \in hit : \E q \in Pairs : b.out[q] > 0 /\ Index(q[1]) \in G /\ Index(q[2]) = d
           /\ r.zero = b.zero \cup {d \in hit : Total(r, d) = 0}
           /\ r.marks = b.marks \cup M /\ r.stack = b.stack \cup M
    BY <1>14
  <1>16. ASSUME NEW d \in hit PROVE lv[d] /\ d \notin G /\ d \in Cells
    <2>1. PICK q \in Pairs : e.out[q] > 0 /\ Index(q[2]) = d
      BY <1>9, <1>15
    <2>2. q[2] \in Handles /\ Valid(Src(lv), q[2])
      BY <1>1, <1>5, <2>1 DEF RecordsLive, Pairs
    <2> QED
      BY <2>1, <2>2, SrcValid
  <1>17. /\ \A d \in Cells \ G : Total(r, d) <= Total(b, d)
         /\ \A d \in Cells : Total(r, d) \in Nat
    BY <1>8 DEF Reclaimed, EngineType, Engines, Total
  <1>18. MarksQueued(r, lv2)
    <2> SUFFICES ASSUME NEW d \in r.marks
                 PROVE  lv2[d] /\ (d \in r.stack \/ (Total(r, d) = 0 /\ d \in r.zero))
      BY DEF MarksQueued
    <2>1. CASE d \in M
      BY <1>11, <1>15, <1>16, <2>1
    <2>2. CASE d \notin M
      <3>1. d \in e.marks /\ d \notin V /\ d \in Cells /\ d # 0
        BY <1>5, <1>9, <1>15, <2>2, Sizes DEF EngineType, Engines
      <3>2. lv[d] /\ d \notin G /\ (d \in e.stack \/ (Total(e, d) = 0 /\ d \in e.zero))
        BY <1>6, <3>1 DEF EngGood, MarksQueued
      <3>3. Total(e, d) = 0
        <4>1. ASSUME Total(e, d) # 0 PROVE FALSE
          <5>1. d \in e.stack /\ Total(e, d) > 0
            BY <1>10, <3>1, <3>2, <4>1
          <5>2. d \in ScanRoots(e, pl)
            BY <1>5, <3>1, <3>2, <5>1 DEF ScanRoots
          <5> QED
            BY <1>7, <3>1, <5>2
        <4> QED
          BY <4>1
      <3>4. d \in e.zero
        BY <3>1, <3>2, <3>3 DEF EngGood, ZerosQueued
      <3>5. Total(r, d) <= 0 /\ Total(r, d) \in Nat
        BY <1>10, <1>17, <3>1, <3>2, <3>3
      <3>6. d \in r.zero
        BY <1>9, <1>15, <3>4
      <3> QED
        BY <1>11, <3>1, <3>2, <3>5, <3>6
    <2> QED
      BY <2>1, <2>2
  <1>19. ZerosQueued(r, lv2, 0)
    <2> SUFFICES ASSUME NEW d \in Cells, lv2[d], Total(r, d) = 0 PROVE d \in r.zero
      BY DEF ZerosQueued
    <2>1. lv[d] /\ d \notin G /\ d # 0
      BY <1>11, Sizes
    <2>2. CASE d \in hit
      BY <1>15, <2>2
    <2>3. CASE d \notin hit
      <3>1. Total(e, d) = 0
        BY <1>10, <1>15, <2>1, <2>3
      <3>2. d \in e.zero
        BY <2>1, <3>1 DEF EngGood, ZerosQueued
      <3> QED
        BY <1>9, <1>15, <3>2
    <2> QED
      BY <2>2, <2>3
  <1>20. EngGood(r, lv2, Blanked(cl, G), R, 0)
    <2>1. G \in SUBSET Cells /\ \A c \in G : e.root[c] = 0
      BY <1>6
    <2> QED
      BY <1>4, <1>6, <1>8, <1>9, <1>13, <1>18, <1>19, <2>1, ReclaimGood
  <1>21. ASSUME G = {} PROVE r.stack = {} /\ r.zero = e.zero
    <2>1. hit = {}
      BY <1>15, <1>21
    <2> QED
      BY <1>9, <1>15, <2>1
  <1> QED
    BY <1>4, <1>6, <1>20, <1>21

\* One message about live objects: the table follows the program's references, and
\* whatever lost one is noted.
LEMMA MessageGood ==
  ASSUME NEW e, NEW lv, lv \in [Cells -> BOOLEAN], NEW cl, NEW R, NEW x,
         EngGood(e, lv, cl, R, x), e.zero = {},
         NEW m \in Messages, m.count = 1, m.op \in {"RootAdd", "RootRemove", "EdgeAdd", "EdgeRemove"},
         NEW a \in Cells, NEW c \in Cells, m.a = At(a), m.b = At(c), lv[a], lv[c],
         NEW cl2, NEW R2,
         \A d \in Cells : R2[d] = IF d = c /\ ~IsEdgeOp(m) THEN R[d] + Change(m) ELSE R[d],
         \A d, k \in Cells : Hits(Fields, cl2[d], k) =
            IF d = a /\ k = c /\ IsEdgeOp(m) THEN Hits(Fields, cl[d], k) + Change(m)
            ELSE Hits(Fields, cl[d], k),
         m.op = "RootRemove" => R[c] > 0,
         m.op = "EdgeRemove" => Hits(Fields, cl[a], c) > 0,
         m.op = "EdgeAdd" => R[a] > 0,
         x = 0 \/ (x = c /\ m.op = "RootAdd")
  PROVE  EngGood(Process(e, Src(lv), m), lv, cl2, R2, 0)
  <1>1. PICK pl : pl = Src(lv)
    OBVIOUS
  <1>2. PICK r : r = Process(e, pl, m)
    OBVIOUS
  <1>3. PICK q : q = <<m.a, m.b>>
    OBVIOUS
  <1>4. /\ q \in Pairs /\ m.a \in Handles /\ m.b \in Handles /\ Index(m.a) = a /\ Index(m.b) = c
        /\ Valid(pl, m.a) /\ Valid(pl, m.b) /\ pl.live = lv
    BY <1>1, <1>3, OneGeneration, SrcValid DEF Src
  <1>5. /\ EngineType(e) /\ EdgesExact(e) /\ RecordsLive(e, pl) /\ Anchored(e, lv) /\ e.errors = {}
        /\ \A d \in Cells : e.root[d] = R[d] /\ e.root[d] \in Nat /\ e.edge[d] \in Nat
        /\ \A u \in Pairs : e.out[u] \in Nat
    BY <1>1 DEF EngGood, EngineType, Engines, Pairs
  <1>6. e.out[q] = Hits(Fields, cl[a], c)
    BY <1>3 DEF EngGood, OutExact
  <1>7. Applied(e, r, m)
    <2>1. m.op = "RootRemove" => m.count <= e.root[Index(m.b)]
      BY <1>4, <1>5
    <2>2. m.op = "EdgeRemove" => e.out[<<m.a, m.b>>] > 0
      BY <1>3, <1>6
    <2> QED
      BY <1>2, <1>4, <1>5, <2>1, <2>2, ProcessApplies
  <1>8. /\ EngineType(r) /\ EdgesExact(r) /\ r.errors = {}
        /\ \A d \in Cells : r.root[d] = IF d = c /\ ~IsEdgeOp(m) THEN e.root[d] + Change(m) ELSE e.root[d]
        /\ \A u \in Pairs : r.out[u] = IF u = q /\ IsEdgeOp(m) THEN e.out[u] + Change(m) ELSE e.out[u]
        /\ \A d \in Cells : d # c => Total(r, d) = Total(e, d)
        /\ r.zero \subseteq {c}
        /\ e.marks \subseteq r.marks /\ r.marks \subseteq e.marks \cup {c} /\ e.stack \subseteq r.stack
        /\ c \in r.marks => c \in e.marks \/ c \in r.stack
    BY <1>3, <1>4, <1>5, <1>7 DEF Applied
  <1>9. /\ IsEdgeOp(m) <=> m.op \in {"EdgeAdd", "EdgeRemove"}
        /\ m.op \in {"RootAdd", "EdgeAdd"} => Change(m) = 1
        /\ m.op \in {"RootRemove", "EdgeRemove"} => Change(m) = -1
    BY DEF IsEdgeOp, Change
  <1>10. RecordsLive(r, pl)
    <2> SUFFICES ASSUME NEW u \in Pairs, r.out[u] > 0 PROVE Valid(pl, u[1]) /\ Valid(pl, u[2])
      BY DEF RecordsLive
    <2>1. CASE u = q
      BY <1>3, <1>4, <2>1
    <2>2. CASE u # q
      BY <1>5, <1>8, <2>2 DEF RecordsLive
    <2> QED
      BY <2>1, <2>2
  <1>11. m.op = "EdgeAdd" => r.out[q] > 0
    BY <1>4, <1>5, <1>8, <1>9
  <1>12. m.op = "RootAdd" => r.root[c] > 0
    BY <1>5, <1>8, <1>9
  <1>13. m.op \in {"RootRemove", "EdgeRemove"} =>
           (Total(r, c) = 0 => c \in r.zero) /\ (Total(r, c) = 0 \/ c \in r.marks \/ ~HasOutgoing(r, c))
    BY <1>2, <1>4, <1>5, <1>8, LossAnswered
  <1>14. e.marks \subseteq e.stack /\ e.marks \subseteq Cells /\ \A d \in e.marks : lv[d]
    BY <1>5 DEF EngGood, MarksQueued, EngineType, Engines
  <1>15. MarksQueued(r, lv)
    BY <1>8, <1>14 DEF MarksQueued
  <1>16. ZerosQueued(r, lv, 0)
    <2> SUFFICES ASSUME NEW d \in Cells, lv[d], Total(r, d) = 0 PROVE d \in r.zero
      BY DEF ZerosQueued
    <2>1. CASE d # c
      <3>1. Total(e, d) = 0 /\ d # x
        BY <1>8, <2>1, Sizes
      <3> QED
        BY <3>1 DEF EngGood, ZerosQueued
    <2>2. CASE d = c /\ m.op = "RootAdd"
      BY <1>8, <1>12, <2>2 DEF Total, EngineType, Engines
    <2>3. CASE d = c /\ m.op = "EdgeAdd"
      <3>1. Refers(r, a, c)
        BY <1>3, <1>4, <1>11, <2>3 DEF Refers
      <3> QED
        BY <1>8, <2>3, <3>1, RecordIsCounted
    <2>4. CASE d = c /\ m.op \in {"RootRemove", "EdgeRemove"}
      BY <1>13, <2>4
    <2> QED
      BY <2>1, <2>2, <2>3, <2>4
  <1>17. OutExact(r, cl2)
    <2> SUFFICES ASSUME NEW d \in Cells, NEW k \in Cells PROVE r.out[<<At(d), At(k)>>] = Hits(Fields, cl2[d], k)
      BY DEF OutExact
    <2>1. PICK u : u = <<At(d), At(k)>>
      OBVIOUS
    <2>2. u \in Pairs /\ e.out[u] = Hits(Fields, cl[d], k)
      BY <2>1, OneGeneration DEF EngGood, OutExact
    <2>3. u = q <=> d = a /\ k = c
      BY <1>3, <2>1 DEF At
    <2> QED
      BY <1>8, <2>1, <2>2, <2>3
  <1>18. Anchored(r, lv)
    <2>1. Answered(r, m)
      <3>1. CASE m.op = "RootAdd"
        BY <1>4, <1>12, <3>1 DEF Answered
      <3>2. CASE m.op = "EdgeAdd"
        BY <1>4, <1>5, <1>8, <1>9, <3>2 DEF Answered
      <3>3. CASE m.op \in {"RootRemove", "EdgeRemove"}
        <4>1. Anchor(r, c) \/ ~HasOutgoing(r, c)
          BY <1>8, <1>13, <1>14, <3>3 DEF Anchor
        <4> QED
          BY <1>4, <3>3, <4>1 DEF Answered
      <3> QED
        BY <3>1, <3>2, <3>3
    <2>2. \A d \in Cells : d # Index(m.b) => r.root[d] = e.root[d] /\ Total(r, d) = Total(e, d)
      BY <1>4, <1>8
    <2>3. e.marks \cap e.stack \subseteq r.marks \cap r.stack
      BY <1>8
    <2>4. \A u \in Pairs : u # <<m.a, m.b>> => r.out[u] = e.out[u]
      BY <1>3, <1>8
    <2>5. m.op \in {"RootAdd", "EdgeAdd"} => \A u \in Pairs : e.out[u] > 0 => r.out[u] > 0
      BY <1>5, <1>8, <1>9
    <2>6. m.op = "RootAdd" => \A d \in Cells : r.root[d] >= e.root[d]
      BY <1>5, <1>8, <1>9
    <2>7. m.op = "EdgeAdd" => r.root = e.root /\ r.out[<<m.a, m.b>>] > 0
      <3>1. m.op = "EdgeAdd" => \A d \in Cells : r.root[d] = e.root[d]
        BY <1>8, <1>9
      <3>2. r.root \in [Cells -> Nat] /\ e.root \in [Cells -> Nat]
        BY <1>5, <1>8 DEF EngineType, Engines
      <3> QED
        BY <1>3, <1>11, <3>1, <3>2
    <2>8. /\ Anchored(e, pl.live) /\ pl.live[Index(m.a)]
          /\ EngineType(r) /\ EdgesExact(r) /\ RecordsLive(e, pl) /\ RecordsLive(r, pl)
      BY <1>4, <1>5, <1>8, <1>10
    <2>9. Anchored(r, pl.live)
      BY <2>1, <2>2, <2>3, <2>4, <2>5, <2>6, <2>7, <2>8, MessageAnchored, SMTT(90)
    <2> QED
      BY <1>4, <2>9
  <1>19. \A d \in Cells : r.root[d] = R2[d] /\ (R2[d] > 0 => lv[d])
    <2> SUFFICES ASSUME NEW d \in Cells PROVE r.root[d] = R2[d] /\ (R2[d] > 0 => lv[d])
      OBVIOUS
    <2>1. r.root[d] = R2[d]
      BY <1>5, <1>8
    <2>2. d # c => R2[d] = R[d]
      OBVIOUS
    <2> QED
      BY <2>1, <2>2 DEF EngGood
  <1> QED
    BY <1>1, <1>2, <1>8, <1>10, <1>15, <1>16, <1>17, <1>18, <1>19 DEF EngGood

-----------------------------------------------------------------------------
(* Counting the fields that refer to a cell *)

\* The fields of the objects in S that refer to c, and how many they are.
RefsAt(cl, S, c) == {x \in S \X Fields : cl[x[1]][x[2]] = c}
Refs(cl, S, c) == Cardinality(RefsAt(cl, S, c))

\* The fields that refer to c are finitely many.
LEMMA RefsFinite ==
  ASSUME NEW cl, NEW S \in SUBSET Cells, NEW c
  PROVE  IsFiniteSet(S \X Fields) /\ IsFiniteSet(RefsAt(cl, S, c))
  <1>1. IsFiniteSet(S) /\ IsFiniteSet(Fields)
    BY Sizes, FS_Subset
  <1>2. IsFiniteSet(S \X Fields)
    BY <1>1, FS_Product
  <1>3. RefsAt(cl, S, c) \subseteq S \X Fields
    BY DEF RefsAt
  <1> QED
    BY <1>2, <1>3, FS_Subset

\* So their count is a number ...
LEMMA RefsType ==
  ASSUME NEW cl, NEW S \in SUBSET Cells, NEW c
  PROVE  Refs(cl, S, c) \in Nat
  BY RefsFinite, FS_CardinalityType DEF Refs

\* ... and not zero when a field refers to the cell ...
LEMMA RefsSome ==
  ASSUME NEW cl, NEW S \in SUBSET Cells, NEW c, NEW a \in S, NEW f \in Fields, cl[a][f] = c
  PROVE  Refs(cl, S, c) > 0
  <1>1. <<a, f>> \in RefsAt(cl, S, c)
    BY DEF RefsAt
  <1>2. IsFiniteSet(RefsAt(cl, S, c)) /\ RefsAt(cl, S, c) # {}
    BY <1>1, RefsFinite
  <1> QED
    BY <1>2, FS_CardinalityType, FS_EmptySet DEF Refs

\* ... but zero when none does.
LEMMA RefsNone ==
  ASSUME NEW cl, NEW S \in SUBSET Cells, NEW c, \A a \in S : \A f \in Fields : cl[a][f] # c
  PROVE  Refs(cl, S, c) = 0
  <1>1. RefsAt(cl, S, c) = {}
    BY DEF RefsAt
  <1> QED
    BY <1>1, FS_EmptySet DEF Refs

\* The fields of two disjoint sets of objects.
LEMMA RefsSplit ==
  ASSUME NEW cl, NEW S \in SUBSET Cells, NEW A, NEW B, S = A \cup B, A \cap B = {}, NEW c
  PROVE  Refs(cl, S, c) = Refs(cl, A, c) + Refs(cl, B, c)
  <1>1. A \in SUBSET Cells /\ B \in SUBSET Cells
    OBVIOUS
  <1>2. IsFiniteSet(RefsAt(cl, A, c)) /\ IsFiniteSet(RefsAt(cl, B, c))
    BY <1>1, RefsFinite
  <1>3. /\ RefsAt(cl, A, c) \cap RefsAt(cl, B, c) = {}
        /\ RefsAt(cl, S, c) = RefsAt(cl, A, c) \cup RefsAt(cl, B, c)
    BY DEF RefsAt
  <1>4. Cardinality(RefsAt(cl, S, c)) = Cardinality(RefsAt(cl, A, c)) + Cardinality(RefsAt(cl, B, c))
    BY <1>2, <1>3, CardinalitySplit
  <1> QED
    BY <1>4 DEF Refs

\* Objects that agree on which fields refer to a cell.
LEMMA RefsSame ==
  ASSUME NEW cl, NEW cl2, NEW S, NEW c,
         \A a \in S : \A f \in Fields : cl[a][f] = c <=> cl2[a][f] = c
  PROVE  Refs(cl2, S, c) = Refs(cl, S, c)
  <1>1. RefsAt(cl, S, c) = RefsAt(cl2, S, c)
    BY DEF RefsAt
  <1> QED
    BY <1>1 DEF Refs

\* The fields of one object.
LEMMA RefsRow ==
  ASSUME NEW cl, NEW a \in Cells, NEW c
  PROVE  Refs(cl, {a}, c) = Hits(Fields, cl[a], c)
  <1> DEFINE F == {f \in Fields : cl[a][f] = c}
             H == RefsAt(cl, {a}, c)
             g == [f \in F |-> <<a, f>>]
  <1>1. IsFiniteSet(F)
    BY Sizes, FS_Subset
  <1>2. g \in [F -> H]
    BY DEF RefsAt
  <1>3. \A x, y \in F : g[x] = g[y] => x = y
    OBVIOUS
  <1>4. \A t \in H : \E x \in F : g[x] = t
    <2> SUFFICES ASSUME NEW t \in H PROVE \E x \in F : g[x] = t
      OBVIOUS
    <2>1. t = <<a, t[2]>> /\ t[2] \in Fields /\ cl[a][t[2]] = c
      BY DEF RefsAt
    <2> QED
      BY <2>1
  <1> HIDE DEF F, H, g
  <1>5. Cardinality(H) = Cardinality(F)
    BY <1>1, <1>2, <1>3, <1>4, CardinalityByBijection
  <1> QED
    BY <1>5 DEF Refs, Hits, F, H

\* Two heaps that agree but for one field.
SameBut(cl, cl2, o, f) ==
    \A a \in Cells : \A k \in Fields : <<a, k>> # <<o, f>> => cl2[a][k] = cl[a][k]

\* What that field refers to in one is gone in the other, and conversely.
Moved(cl, cl2, o, f, c) ==
    /\ Refs(cl2, Cells, c) + One(cl[o][f], c) = Refs(cl, Cells, c) + One(cl2[o][f], c)
    /\ Hits(Fields, cl2[o], c) + One(cl[o][f], c) = Hits(Fields, cl[o], c) + One(cl2[o][f], c)
    /\ \A a \in Cells \ {o} : Hits(Fields, cl2[a], c) = Hits(Fields, cl[a], c)

\* Writing one field.
LEMMA RefsUpdate ==
  ASSUME NEW cl, NEW cl2, NEW o \in Cells, NEW f \in Fields, NEW c, SameBut(cl, cl2, o, f)
  PROVE  Moved(cl, cl2, o, f, c)
  <1> USE DEF SameBut, Moved
  <1> DEFINE S == Cells \X Fields
             g == [x \in S |-> cl[x[1]][x[2]]]
             g2 == [x \in S |-> cl2[x[1]][x[2]]]
  <1>1. IsFiniteSet(S) /\ <<o, f>> \in S
    BY RefsFinite
  <1>2. \A y \in S \ {<<o, f>>} : g2[y] = g[y]
    <2> SUFFICES ASSUME NEW y \in S \ {<<o, f>>} PROVE g2[y] = g[y]
      OBVIOUS
    <2>1. y = <<y[1], y[2]>> /\ y[1] \in Cells /\ y[2] \in Fields /\ <<y[1], y[2]>> # <<o, f>>
      OBVIOUS
    <2>2. cl2[y[1]][y[2]] = cl[y[1]][y[2]]
      BY <2>1
    <2> QED
      BY <2>2
  <1>3. g[<<o, f>>] = cl[o][f] /\ g2[<<o, f>>] = cl2[o][f]
    OBVIOUS
  <1>4. Refs(cl, Cells, c) = Hits(S, g, c) /\ Refs(cl2, Cells, c) = Hits(S, g2, c)
    <2>1. {x \in S : g[x] = c} = {x \in S : cl[x[1]][x[2]] = c}
      OBVIOUS
    <2>2. {x \in S : g2[x] = c} = {x \in S : cl2[x[1]][x[2]] = c}
      OBVIOUS
    <2> QED
      BY <2>1, <2>2 DEF Refs, RefsAt, Hits
  <1> HIDE DEF S, g, g2
  <1>5. Hits(S, g2, c) + One(g[<<o, f>>], c) = Hits(S, g, c) + One(g2[<<o, f>>], c)
    BY <1>1, <1>2, HitsUpdate
  <1>6. Hits(Fields, cl2[o], c) + One(cl[o][f], c) = Hits(Fields, cl[o], c) + One(cl2[o][f], c)
    <2>1. IsFiniteSet(Fields) /\ \A y \in Fields \ {f} : cl2[o][y] = cl[o][y]
      BY Sizes
    <2> QED
      BY <2>1, HitsUpdate
  <1>7. ASSUME NEW a \in Cells \ {o} PROVE Hits(Fields, cl2[a], c) = Hits(Fields, cl[a], c)
    <2>1. \A k \in Fields : cl2[a][k] = cl[a][k]
      OBVIOUS
    <2>2. \A k \in Fields : cl[a][k] = c <=> cl2[a][k] = c
      BY <2>1
    <2> QED
      BY <2>2, HitsSame
  <1> QED
    BY <1>3, <1>4, <1>5, <1>6, <1>7

-----------------------------------------------------------------------------
(* The counting backend *)

\* The counts are the references the program has: R of them are roots, the rest are fields
\* cl; what is counted is live, and what is live is counted, but for x, which is being made.
ArcGood(rc, lv, cl, R, x) ==
    \A c \in Cells :
        /\ rc[c] = R[c] + Refs(cl, Cells, c)
        /\ rc[c] > 0 => lv[c]
        /\ lv[c] /\ c # x => rc[c] > 0
        /\ ~lv[c] => \A f \in Fields : cl[c][f] = 0

\* One reference more, to a live object.
LEMMA RetainGood ==
  ASSUME NEW rc, NEW lv, NEW cl, NEW R, NEW x, ArcGood(rc, lv, cl, R, x), NEW R2, NEW cl2, NEW rc2,
         NEW v \in Cells, lv[v], x \in {0, v}, rc \in [Cells -> Nat],
         \A c \in Cells : rc2[c] = rc[c] + One(v, c),
         \A c \in Cells : R2[c] + Refs(cl2, Cells, c) = R[c] + Refs(cl, Cells, c) + One(v, c),
         \A c \in Cells : ~lv[c] => \A f \in Fields : cl2[c][f] = 0
  PROVE  ArcGood(rc2, lv, cl2, R2, 0)
  <1> SUFFICES ASSUME NEW c \in Cells
               PROVE  /\ rc2[c] = R2[c] + Refs(cl2, Cells, c)
                      /\ rc2[c] > 0 => lv[c]
                      /\ lv[c] /\ c # 0 => rc2[c] > 0
    BY DEF ArcGood
  <1>1. /\ rc[c] = R[c] + Refs(cl, Cells, c) /\ rc[c] \in Nat
        /\ rc[c] > 0 => lv[c]
        /\ lv[c] /\ c # x => rc[c] > 0
    BY DEF ArcGood
  <1>2. rc2[c] = rc[c] + One(v, c)
    OBVIOUS
  <1>3. rc2[c] = R2[c] + Refs(cl2, Cells, c)
    BY <1>1, <1>2
  <1>4. CASE c = v
    BY <1>1, <1>2, <1>3, <1>4 DEF One
  <1>5. CASE c # v
    <2>1. c # 0
      BY Sizes
    <2> QED
      BY <1>1, <1>2, <1>3, <1>5, <2>1 DEF One
  <1> QED
    BY <1>4, <1>5

\* One reference less, and others are left.
LEMMA ReleaseGood ==
  ASSUME NEW rc, NEW lv, NEW cl, NEW R, ArcGood(rc, lv, cl, R, 0), NEW R2, NEW cl2, NEW rc2,
         NEW v \in Cells, rc \in [Cells -> Nat], rc[v] > 1,
         \A c \in Cells : rc2[c] = rc[c] - One(v, c),
         \A c \in Cells : R2[c] + Refs(cl2, Cells, c) + One(v, c) = R[c] + Refs(cl, Cells, c),
         \A c \in Cells : R2[c] \in Nat,
         \A c \in Cells : ~lv[c] => \A f \in Fields : cl2[c][f] = 0
  PROVE  ArcGood(rc2, lv, cl2, R2, 0)
  <1> SUFFICES ASSUME NEW c \in Cells
               PROVE  /\ rc2[c] = R2[c] + Refs(cl2, Cells, c)
                      /\ rc2[c] > 0 => lv[c]
                      /\ lv[c] /\ c # 0 => rc2[c] > 0
    BY DEF ArcGood
  <1>1. /\ rc[c] = R[c] + Refs(cl, Cells, c) /\ rc[c] \in Nat
        /\ rc[c] > 0 => lv[c]
        /\ lv[c] /\ c # 0 => rc[c] > 0
    BY DEF ArcGood
  <1>2. rc2[c] = rc[c] - One(v, c) /\ R2[c] \in Nat /\ Refs(cl2, Cells, c) \in Nat /\ c # 0
    BY RefsType, Sizes
  <1>3. R2[c] + Refs(cl2, Cells, c) + One(v, c) = R[c] + Refs(cl, Cells, c)
    OBVIOUS
  <1>4. CASE c = v
    BY <1>1, <1>2, <1>3, <1>4 DEF One
  <1>5. CASE c # v
    BY <1>1, <1>2, <1>3, <1>5 DEF One
  <1> QED
    BY <1>4, <1>5

\* Counts are numbers; two heaps agree but for object o, or on what the objects of X refer
\* to; the objects of X, v one of them, are live, without roots and referred to by each other
\* only, and whoever is outside keeps a reference.
Numbers(R) == \A c \in Cells : R[c] \in Nat
AgreesBut(cl, cells, o) == \A a \in Cells \ {o} : \A f \in Fields : cl[a][f] = cells[a][f]
RefersLike(s, cl, X) == \A d \in Cells : RefsFrom(s, X, d) = Refs(cl, X, d)
Doomed(rc, lv, cl, R, X, v) ==
    /\ X \in SUBSET Cells /\ v \in X
    /\ \A d \in X : lv[d] /\ R[d] = 0 /\ Refs(cl, Cells \ X, d) = 0
    /\ \A d \in Cells \ X : rc[d] = 0 \/ Refs(cl, X, d) < rc[d]

\* What reclaim() puts on its worklist for an object whose last reference has gone: live
\* objects without roots, referred to by each other only.  Object o, whose field is just
\* being overwritten, is rooted and not among them.
LEMMA WorklistIs ==
  ASSUME NEW s, NEW v \in Cells, NEW cl, NEW R, NEW X, X = ReclaimSet(s, v), NEW o,
         s.rc \in [Cells -> Nat], Numbers(R), ArcGood(s.rc, s.live, cl, R, v), s.live[v], s.rc[v] = 0,
         AgreesBut(cl, s.cells, o), o \in Cells => R[o] > 0
  PROVE  Doomed(s.rc, s.live, cl, R, X, v) /\ RefersLike(s, cl, X)
  <1> USE DEF Numbers, AgreesBut
  <1> DEFINE Cand == {Y \in SUBSET Cells : v \in Y /\ Drained(s, Y)}
  <1>1. X \in SUBSET Cells /\ \A d \in Cells : d \in X <=> \A Y \in Cand : d \in Y
    BY DEF ReclaimSet
  <1>2. v \in X
    BY <1>1
  <1>3. \A Y : RefsFrom(s, Y, v) = Refs(s.cells, Y, v)
    BY DEF RefsFrom, Refs, RefsAt
  <1>4. ASSUME NEW Y \in SUBSET Cells, o \notin Y, NEW d \in Cells
        PROVE  RefsFrom(s, Y, d) = Refs(cl, Y, d)
    <2>1. RefsFrom(s, Y, d) = Refs(s.cells, Y, d)
      BY DEF RefsFrom, Refs, RefsAt
    <2>2. \A a \in Y : \A f \in Fields : cl[a][f] = d <=> s.cells[a][f] = d
      BY <1>4
    <2> QED
      BY <2>1, <2>2, RefsSame
  <1>5. ASSUME NEW d, NEW w, NEW Y \in SUBSET Cells, NEW Z \in SUBSET Y
        PROVE  Refs(w, Z, d) <= Refs(w, Y, d) /\ Refs(w, Z, d) \in Nat /\ Refs(w, Y, d) \in Nat
               /\ Refs(w, Y \ Z, d) \in Nat /\ Refs(w, Y, d) = Refs(w, Z, d) + Refs(w, Y \ Z, d)
    <2>1. Y = Z \cup (Y \ Z) /\ Z \cap (Y \ Z) = {} /\ Z \in SUBSET Cells /\ Y \ Z \in SUBSET Cells
      OBVIOUS
    <2>2. Refs(w, Y, d) = Refs(w, Z, d) + Refs(w, Y \ Z, d)
      BY <2>1, RefsSplit
    <2>3. Refs(w, Z, d) \in Nat /\ Refs(w, Y \ Z, d) \in Nat /\ Refs(w, Y, d) \in Nat
      BY <2>1, RefsType
    <2> QED
      BY <2>2, <2>3
  <1>6. o \notin X
    <2> SUFFICES ASSUME o \in Cells, o \in X PROVE FALSE
      BY <1>1
    <2>1. PICK Y : Y = Cells \ {o}
      OBVIOUS
    <2>2. s.rc[o] > 0 /\ R[o] > 0 /\ s.rc[o] = R[o] + Refs(cl, Cells, o) /\ s.rc[o] \in Nat /\ R[o] \in Nat
      <3>1. s.rc[o] = R[o] + Refs(cl, Cells, o) /\ Refs(cl, Cells, o) \in Nat /\ R[o] > 0
        BY RefsType DEF ArcGood
      <3> QED
        BY <3>1
    <2>3. v # o
      BY <2>2
    <2>4. Refs(cl, Y, o) <= Refs(cl, Cells, o) /\ Refs(cl, Y, o) \in Nat /\ Refs(cl, Cells, o) \in Nat
      BY <1>5, <2>1
    <2>5. RefsFrom(s, Y, o) = Refs(cl, Y, o)
      BY <1>4, <2>1
    <2>6. RefsFrom(s, Y, o) < s.rc[o]
      BY <2>2, <2>4, <2>5
    <2>7. Drained(s, Y)
      BY <2>1, <2>6 DEF Drained
    <2>8. Y \in Cand
      BY <2>1, <2>3, <2>7
    <2> QED
      BY <1>1, <2>1, <2>8
  <1>7. \A d \in X : s.live[d]
    <2>1. PICK Y : Y = {c \in Cells : s.live[c]}
      OBVIOUS
    <2>2. \A d \in Cells \ Y : s.rc[d] = 0
      BY <2>1 DEF ArcGood
    <2>3. Y \in Cand
      BY <2>1, <2>2 DEF Drained
    <2> QED
      BY <1>1, <2>1, <2>3
  <1>8. \A d \in Cells : RefsFrom(s, X, d) = Refs(cl, X, d)
    BY <1>1, <1>4, <1>6
  <1>9. ASSUME NEW d \in Cells \ X PROVE s.rc[d] = 0 \/ Refs(cl, X, d) < s.rc[d]
    <2>1. PICK Y \in Cand : d \notin Y
      BY <1>1
    <2>2. s.rc[d] = 0 \/ RefsFrom(s, Y, d) < s.rc[d]
      BY <2>1 DEF Drained
    <2>3. X \in SUBSET Y
      BY <1>1, <2>1
    <2>4. RefsFrom(s, X, d) <= RefsFrom(s, Y, d) /\ RefsFrom(s, X, d) \in Nat /\ RefsFrom(s, Y, d) \in Nat
      <3>1. RefsFrom(s, X, d) = Refs(s.cells, X, d) /\ RefsFrom(s, Y, d) = Refs(s.cells, Y, d)
        BY DEF RefsFrom, Refs, RefsAt
      <3>2. Y \in SUBSET Cells
        BY <2>1
      <3>3. /\ Refs(s.cells, X, d) <= Refs(s.cells, Y, d)
            /\ Refs(s.cells, X, d) \in Nat /\ Refs(s.cells, Y, d) \in Nat
        BY <1>5, <2>3, <3>2
      <3> QED
        BY <3>1, <3>3
    <2>5. s.rc[d] \in Nat /\ RefsFrom(s, X, d) = Refs(cl, X, d)
      BY <1>8 DEF Doomed
    <2> QED
      BY <2>2, <2>4, <2>5
  <1>10. ASSUME NEW d \in X PROVE R[d] = 0 /\ Refs(cl, Cells \ X, d) = 0
    <2>1. PICK Y : Y = {c \in X : Refs(cl, X, c) = s.rc[c]}
      OBVIOUS
    <2>2. Y \in SUBSET Cells /\ Y \in SUBSET X /\ o \notin Y
      BY <1>1, <1>6, <2>1
    <2>3. v \in Y
      <3>1. Refs(cl, X, v) <= Refs(cl, Cells, v) /\ Refs(cl, X, v) \in Nat /\ Refs(cl, Cells, v) \in Nat
        BY <1>1, <1>5
      <3>2. s.rc[v] = R[v] + Refs(cl, Cells, v) /\ s.rc[v] = 0 /\ R[v] \in Nat
        BY DEF ArcGood
      <3>3. Refs(cl, X, v) = s.rc[v]
        BY <3>1, <3>2
      <3> QED
        BY <1>2, <2>1, <3>3
    <2>4. ASSUME NEW c \in Cells \ Y PROVE s.rc[c] = 0 \/ RefsFrom(s, Y, c) < s.rc[c]
      <3>1. RefsFrom(s, Y, c) = Refs(cl, Y, c)
        BY <1>4, <2>2
      <3>2. Refs(cl, Y, c) <= Refs(cl, X, c) /\ Refs(cl, Y, c) \in Nat /\ Refs(cl, X, c) \in Nat
        BY <1>1, <1>5, <2>2
      <3>3. CASE c \notin X
        <4>1. s.rc[c] = 0 \/ Refs(cl, X, c) < s.rc[c]
          BY <1>9, <3>3
        <4> QED
          BY <3>1, <3>2, <4>1
      <3>4. CASE c \in X
        <4>1. Refs(cl, X, c) # s.rc[c]
          BY <2>1, <3>4
        <4>2. Refs(cl, X, c) <= Refs(cl, Cells, c) /\ Refs(cl, Cells, c) \in Nat
          BY <1>1, <1>5
        <4>3. s.rc[c] = R[c] + Refs(cl, Cells, c) /\ R[c] \in Nat
          BY DEF ArcGood
        <4> QED
          BY <3>1, <3>2, <4>1, <4>2, <4>3
      <3> QED
        BY <3>3, <3>4
    <2>5. Y \in Cand
      BY <2>2, <2>3, <2>4 DEF Drained
    <2>6. d \in Y
      BY <1>1, <2>5
    <2>7. Refs(cl, X, d) = s.rc[d]
      BY <2>1, <2>6
    <2>8. /\ Refs(cl, Cells, d) = Refs(cl, X, d) + Refs(cl, Cells \ X, d)
          /\ Refs(cl, Cells \ X, d) \in Nat /\ Refs(cl, X, d) \in Nat
      <3>1. /\ Cells = X \cup (Cells \ X) /\ X \cap (Cells \ X) = {} /\ Cells \in SUBSET Cells
            /\ X \in SUBSET Cells /\ Cells \ X \in SUBSET Cells
        BY <1>1
      <3>2. Refs(cl, Cells, d) = Refs(cl, X, d) + Refs(cl, Cells \ X, d)
        BY <3>1, RefsSplit
      <3>3. Refs(cl, Cells \ X, d) \in Nat /\ Refs(cl, X, d) \in Nat
        BY <3>1, RefsType
      <3> QED
        BY <3>2, <3>3
    <2>9. s.rc[d] = R[d] + Refs(cl, Cells, d) /\ R[d] \in Nat
      BY <1>1 DEF ArcGood
    <2> QED
      BY <2>7, <2>8, <2>9
  <1> QED
    BY <1>1, <1>2, <1>7, <1>8, <1>9, <1>10 DEF Doomed, RefersLike

\* The counts after reclaim(): exactly the references from outside the worklist.
LEMMA FreedGood ==
  ASSUME NEW rc, rc \in [Cells -> Nat], NEW lv, NEW cl, NEW R, NEW v, NEW X \in SUBSET Cells,
         Numbers(R), ArcGood(rc, lv, cl, R, v), Doomed(rc, lv, cl, R, X, v),
         NEW rc2, \A d \in Cells : rc2[d] = IF Refs(cl, X, d) < rc[d] THEN rc[d] - Refs(cl, X, d) ELSE 0
  PROVE  ArcGood(rc2, Without(lv, X), Blanked(cl, X), R, 0)
  <1> SUFFICES ASSUME NEW c \in Cells
               PROVE  /\ rc2[c] = R[c] + Refs(Blanked(cl, X), Cells, c)
                      /\ rc2[c] > 0 => Without(lv, X)[c]
                      /\ Without(lv, X)[c] => rc2[c] > 0
                      /\ ~Without(lv, X)[c] => \A f \in Fields : Blanked(cl, X)[c][f] = 0
    BY DEF ArcGood
  <1>1. Without(lv, X)[c] <=> lv[c] /\ c \notin X
    BY DEF Without
  <1>2. \A a \in Cells : Blanked(cl, X)[a] = IF a \in X THEN Blank ELSE cl[a]
    BY DEF Blanked
  <1>3. Refs(Blanked(cl, X), Cells, c) = Refs(cl, Cells \ X, c)
    <2>1. Cells = X \cup (Cells \ X) /\ X \cap (Cells \ X) = {} /\ Cells \in SUBSET Cells
          /\ Cells \ X \in SUBSET Cells
      OBVIOUS
    <2>2. Refs(Blanked(cl, X), Cells, c) = Refs(Blanked(cl, X), X, c) + Refs(Blanked(cl, X), Cells \ X, c)
      BY <2>1, RefsSplit
    <2>3. \A a \in X : \A f \in Fields : Blanked(cl, X)[a][f] # c
      BY <1>2, Sizes DEF Blank
    <2>4. Refs(Blanked(cl, X), X, c) = 0
      BY <2>3, RefsNone
    <2>5. Refs(Blanked(cl, X), Cells \ X, c) = Refs(cl, Cells \ X, c)
      <3>1. \A a \in Cells \ X : \A f \in Fields : cl[a][f] = c <=> Blanked(cl, X)[a][f] = c
        BY <1>2
      <3> QED
        BY <3>1, RefsSame
    <2>6. Refs(cl, Cells \ X, c) \in Nat
      BY <2>1, RefsType
    <2> QED
      BY <2>2, <2>4, <2>5, <2>6
  <1>4. /\ Refs(cl, Cells, c) = Refs(cl, X, c) + Refs(cl, Cells \ X, c)
        /\ Refs(cl, X, c) \in Nat /\ Refs(cl, Cells \ X, c) \in Nat
    <2>1. Cells = X \cup (Cells \ X) /\ X \cap (Cells \ X) = {} /\ Cells \in SUBSET Cells
          /\ Cells \ X \in SUBSET Cells
      OBVIOUS
    <2>2. Refs(cl, X, c) \in Nat /\ Refs(cl, Cells \ X, c) \in Nat
      BY <2>1, RefsType
    <2>3. Refs(cl, Cells, c) = Refs(cl, X, c) + Refs(cl, Cells \ X, c)
      BY <2>1, RefsSplit
    <2> QED
      BY <2>2, <2>3
  <1>5. /\ rc[c] = R[c] + Refs(cl, Cells, c)
        /\ rc[c] > 0 => lv[c]
        /\ lv[c] /\ c # v => rc[c] > 0
        /\ rc[c] \in Nat /\ R[c] \in Nat
        /\ rc2[c] = IF Refs(cl, X, c) < rc[c] THEN rc[c] - Refs(cl, X, c) ELSE 0
    BY DEF ArcGood, Numbers
  <1>6. ~Without(lv, X)[c] => \A f \in Fields : Blanked(cl, X)[c][f] = 0
    BY <1>1, <1>2 DEF Blank, ArcGood
  <1>7. CASE c \in X
    <2>1. R[c] = 0 /\ Refs(cl, Cells \ X, c) = 0
      BY <1>7 DEF Doomed
    <2> QED
      BY <1>1, <1>3, <1>4, <1>5, <1>6, <1>7, <2>1
  <1>8. CASE c \notin X
    <2>1. rc[c] = 0 \/ Refs(cl, X, c) < rc[c]
      BY <1>8 DEF Doomed
    <2>2. rc2[c] = R[c] + Refs(Blanked(cl, X), Cells, c)
      BY <1>3, <1>4, <1>5, <2>1
    <2>3. lv[c] /\ c # v => rc2[c] > 0
      BY <1>4, <1>5, <2>1
    <2>4. rc2[c] > 0 => rc[c] > 0
      BY <1>4, <1>5
    <2>5. c # v
      BY <1>8 DEF Doomed
    <2> QED
      BY <1>1, <1>5, <1>6, <1>8, <2>2, <2>3, <2>4, <2>5
  <1> QED
    BY <1>7, <1>8

-----------------------------------------------------------------------------
(* The roots of the machine *)

\* The spilled values, and the saved locals of all frames by frame and register.
Spilled(data) == [i \in 1..Len(data) |-> data[i].value]
SavedAt(frames) == {x \in (1..Len(frames)) \X Regs : x[2] \in DOMAIN frames[x[1]]}
SavedIn(frames) == [x \in SavedAt(frames) |-> frames[x[1]][x[2]]]

SpillRecords == [reg : Regs, value : Values]
HandlerRecords == [reg : Regs, callDepth : Nat, dataDepth : Nat]

\* The parts of a state that hold roots.
LEMMA Holders ==
  ASSUME NEW s \in VmStates
  PROVE  /\ s.regs \in [Regs -> Values] /\ s.globals \in [Globals -> Values]
         /\ s.data \in Seq(SpillRecords) /\ s.frames \in Seq(SavedFrames)
         /\ s.handlers \in Seq(HandlerRecords)
         /\ Len(s.data) \in Nat /\ Len(s.frames) \in Nat /\ Len(s.handlers) \in Nat
         /\ IsFiniteSet(1..Len(s.data)) /\ IsFiniteSet(SavedAt(s.frames))
  <1>1. /\ s.regs \in [Regs -> Values] /\ s.globals \in [Globals -> Values]
        /\ s.data \in Seq(SpillRecords) /\ s.frames \in Seq(SavedFrames)
        /\ s.handlers \in Seq(HandlerRecords)
    BY DEF VmStates, SpillRecords, HandlerRecords
  <1>2. Len(s.data) \in Nat /\ Len(s.frames) \in Nat /\ Len(s.handlers) \in Nat
    BY <1>1, LenProperties
  <1>3. IsFiniteSet(1..Len(s.data)) /\ IsFiniteSet(1..Len(s.frames)) /\ IsFiniteSet(Regs)
    <2>1. \A n \in Nat : IsFiniteSet(1..n)
      BY FS_Interval
    <2> QED
      BY <1>2, <2>1, Sizes
  <1>4. IsFiniteSet((1..Len(s.frames)) \X Regs)
    BY <1>3, FS_Product
  <1>5. SavedAt(s.frames) \subseteq (1..Len(s.frames)) \X Regs
    BY DEF SavedAt
  <1> QED
    BY <1>1, <1>2, <1>3, <1>4, <1>5, FS_Subset

\* The roots on a cell, holder by holder.
LEMMA RootsAre ==
  ASSUME NEW s, NEW c
  PROVE  RootsOn(s, c) = Hits(Regs, s.regs, c) + Hits(Globals, s.globals, c)
                         + Hits(1..Len(s.data), Spilled(s.data), c)
                         + Hits(SavedAt(s.frames), SavedIn(s.frames), c)
  <1>1. {i \in 1..Len(s.data) : s.data[i].value = c} = {i \in 1..Len(s.data) : Spilled(s.data)[i] = c}
    BY DEF Spilled
  <1>2. {x \in (1..Len(s.frames)) \X Regs :
            x[2] \in DOMAIN s.frames[x[1]] /\ s.frames[x[1]][x[2]] = c}
        = {x \in SavedAt(s.frames) : SavedIn(s.frames)[x] = c}
    BY DEF SavedAt, SavedIn
  <1> QED
    BY <1>1, <1>2 DEF RootsOn, Hits

\* They are finitely many, and whatever a register, a global or a spilled register refers to
\* has one.
LEMMA RootsType ==
  ASSUME NEW s \in VmStates, NEW c
  PROVE  /\ RootsOn(s, c) \in Nat
         /\ \A r \in Regs : s.regs[r] = c => RootsOn(s, c) > 0
         /\ \A g \in Globals : s.globals[g] = c => RootsOn(s, c) > 0
         /\ \A i \in 1..Len(s.data) : s.data[i].value = c => RootsOn(s, c) > 0
         /\ RootsOn(s, c) > 0 =>
              \/ \E r \in Regs : s.regs[r] = c
              \/ \E g \in Globals : s.globals[g] = c
              \/ s.data # <<>>
              \/ s.frames # <<>>
  <1> DEFINE A == Hits(Regs, s.regs, c)
             B == Hits(Globals, s.globals, c)
             C == Hits(1..Len(s.data), Spilled(s.data), c)
             D == Hits(SavedAt(s.frames), SavedIn(s.frames), c)
  <1>1. RootsOn(s, c) = A + B + C + D
    BY RootsAre
  <1>2. /\ IsFiniteSet(Regs) /\ IsFiniteSet(Globals) /\ IsFiniteSet(1..Len(s.data))
        /\ IsFiniteSet(SavedAt(s.frames))
    BY Sizes, Holders
  <1>3. A \in Nat /\ B \in Nat /\ C \in Nat /\ D \in Nat
    BY <1>2, HitsType
  <1>4. (A > 0 <=> \E r \in Regs : s.regs[r] = c) /\ (B > 0 <=> \E g \in Globals : s.globals[g] = c)
    BY <1>2, HitsSome
  <1>5. C > 0 <=> \E i \in 1..Len(s.data) : Spilled(s.data)[i] = c
    BY <1>2, HitsSome
  <1>6. D > 0 <=> \E x \in SavedAt(s.frames) : SavedIn(s.frames)[x] = c
    BY <1>2, HitsSome
  <1>7. C > 0 <=> \E i \in 1..Len(s.data) : s.data[i].value = c
    BY <1>5 DEF Spilled
  <1>8. C > 0 => s.data # <<>>
    BY <1>7
  <1>9. D > 0 => s.frames # <<>>
    BY <1>6 DEF SavedAt
  <1> HIDE DEF A, B, C, D
  <1> QED
    BY <1>1, <1>3, <1>4, <1>7, <1>8, <1>9

\* Another value in one register ...
LEMMA RootsReg ==
  ASSUME NEW s \in VmStates, NEW t \in VmStates, NEW r \in Regs, NEW v, NEW c,
         t.regs = [s.regs EXCEPT ![r] = v], t.globals = s.globals, t.data = s.data, t.frames = s.frames
  PROVE  RootsOn(t, c) + One(s.regs[r], c) = RootsOn(s, c) + One(v, c)
  <1> DEFINE A == Hits(Regs, s.regs, c)
             A2 == Hits(Regs, t.regs, c)
             B == Hits(Globals, s.globals, c)
             C == Hits(1..Len(s.data), Spilled(s.data), c)
             D == Hits(SavedAt(s.frames), SavedIn(s.frames), c)
  <1>1. RootsOn(s, c) = A + B + C + D /\ RootsOn(t, c) = A2 + B + C + D
    BY RootsAre
  <1>2. A \in Nat /\ A2 \in Nat /\ B \in Nat /\ C \in Nat /\ D \in Nat
    BY Sizes, Holders, HitsType
  <1>3. t.regs[r] = v /\ \A y \in Regs \ {r} : t.regs[y] = s.regs[y]
    BY Holders
  <1>4. A2 + One(s.regs[r], c) = A + One(v, c)
    <2>1. IsFiniteSet(Regs)
      BY Sizes
    <2>2. PICK f : f = s.regs
      OBVIOUS
    <2>3. PICK g : g = t.regs
      OBVIOUS
    <2>4. \A y \in Regs \ {r} : g[y] = f[y]
      BY <1>3, <2>2, <2>3
    <2>5. Hits(Regs, g, c) + One(f[r], c) = Hits(Regs, f, c) + One(g[r], c)
      BY <2>1, <2>4, HitsUpdate
    <2> QED
      BY <1>3, <2>2, <2>3, <2>5
  <1>5. One(s.regs[r], c) \in Nat /\ One(v, c) \in Nat
    BY DEF One
  <1> HIDE DEF A, A2, B, C, D
  <1> QED
    BY <1>1, <1>2, <1>4, <1>5

\* ... or in one global.
LEMMA RootsGlobal ==
  ASSUME NEW s \in VmStates, NEW t \in VmStates, NEW g \in Globals, NEW v, NEW c,
         t.globals = [s.globals EXCEPT ![g] = v], t.regs = s.regs, t.data = s.data, t.frames = s.frames
  PROVE  RootsOn(t, c) + One(s.globals[g], c) = RootsOn(s, c) + One(v, c)
  <1> DEFINE A == Hits(Regs, s.regs, c)
             B == Hits(Globals, s.globals, c)
             B2 == Hits(Globals, t.globals, c)
             C == Hits(1..Len(s.data), Spilled(s.data), c)
             D == Hits(SavedAt(s.frames), SavedIn(s.frames), c)
  <1>1. RootsOn(s, c) = A + B + C + D /\ RootsOn(t, c) = A + B2 + C + D
    BY RootsAre
  <1>2. A \in Nat /\ B \in Nat /\ B2 \in Nat /\ C \in Nat /\ D \in Nat
    BY Sizes, Holders, HitsType
  <1>3. t.globals[g] = v /\ \A y \in Globals \ {g} : t.globals[y] = s.globals[y]
    BY Holders
  <1>4. B2 + One(s.globals[g], c) = B + One(v, c)
    <2>1. IsFiniteSet(Globals)
      BY Sizes
    <2>2. PICK p : p = s.globals
      OBVIOUS
    <2>3. PICK q : q = t.globals
      OBVIOUS
    <2>4. \A y \in Globals \ {g} : q[y] = p[y]
      BY <1>3, <2>2, <2>3
    <2>5. Hits(Globals, q, c) + One(p[g], c) = Hits(Globals, p, c) + One(q[g], c)
      BY <2>1, <2>4, HitsUpdate
    <2> QED
      BY <1>3, <2>2, <2>3, <2>5
  <1>5. One(s.globals[g], c) \in Nat /\ One(v, c) \in Nat
    BY DEF One
  <1> HIDE DEF A, B, B2, C, D
  <1> QED
    BY <1>1, <1>2, <1>4, <1>5

\* The sequence q is p and one more element, the n-th.
Longer(q, p, n) ==
    n \in Nat \ {0} /\ Len(q) = n /\ Len(p) = n - 1 /\ \A i \in 1..(n - 1) : q[i] = p[i]

\* One spilled register more.
LEMMA RootsSpill ==
  ASSUME NEW s \in VmStates, NEW t \in VmStates, NEW c, NEW n, Longer(t.data, s.data, n),
         t.globals = s.globals, t.regs = s.regs, t.frames = s.frames
  PROVE  RootsOn(t, c) = RootsOn(s, c) + One(t.data[n].value, c)
  <1> DEFINE A == Hits(Regs, s.regs, c)
             B == Hits(Globals, s.globals, c)
             C == Hits(1..(n - 1), Spilled(s.data), c)
             C2 == Hits(1..n, Spilled(t.data), c)
             E == Hits((1..n) \ {n}, Spilled(t.data), c)
             D == Hits(SavedAt(s.frames), SavedIn(s.frames), c)
  <1>1. RootsOn(s, c) = A + B + C + D /\ RootsOn(t, c) = A + B + C2 + D
    BY RootsAre DEF Longer
  <1>2. IsFiniteSet(1..n) /\ IsFiniteSet(1..(n - 1)) /\ (1..n) \ {n} = 1..(n - 1)
    <2>1. \A k \in Int : IsFiniteSet(1..k)
      BY FS_Interval
    <2> QED
      BY <2>1 DEF Longer
  <1>3. A \in Nat /\ B \in Nat /\ C \in Nat /\ D \in Nat
    BY <1>2, Sizes, Holders, HitsType
  <1>4. n \in 1..n /\ Spilled(t.data)[n] = t.data[n].value
    BY DEF Spilled, Longer
  <1>5. C2 = E + One(Spilled(t.data)[n], c)
    <2>1. IsFiniteSet(1..n)
      BY <1>2
    <2>2. n \in 1..n
      BY <1>4
    <2>3. PICK q : q = Spilled(t.data)
      OBVIOUS
    <2>4. PICK S : S = 1..n
      OBVIOUS
    <2>5. IsFiniteSet(S) /\ n \in S
      BY <2>1, <2>2, <2>4
    <2>6. Hits(S, q, c) = Hits(S \ {n}, q, c) + One(q[n], c)
      BY <2>5, HitsWithout
    <2> QED
      BY <2>3, <2>4, <2>6
  <1>6. E = C
    <2>1. \A i \in 1..(n - 1) : Spilled(s.data)[i] = c <=> Spilled(t.data)[i] = c
      BY DEF Spilled, Longer
    <2>2. PICK q : q = Spilled(t.data)
      OBVIOUS
    <2>3. PICK p : p = Spilled(s.data)
      OBVIOUS
    <2>4. PICK S : S = 1..(n - 1)
      OBVIOUS
    <2>5. \A i \in S : p[i] = c <=> q[i] = c
      BY <2>1, <2>2, <2>3, <2>4
    <2>6. Hits(S, q, c) = Hits(S, p, c)
      BY <2>5, HitsSame
    <2> QED
      BY <1>2, <2>2, <2>3, <2>4, <2>6
  <1>7. One(t.data[n].value, c) \in Nat
    BY DEF One
  <1> HIDE DEF A, B, C, C2, D, E
  <1> QED
    BY <1>1, <1>3, <1>4, <1>5, <1>6, <1>7

\* One frame more.
LEMMA RootsFrame ==
  ASSUME NEW s \in VmStates, NEW t \in VmStates, NEW c, NEW n, Longer(t.frames, s.frames, n),
         t.globals = s.globals, t.regs = s.regs, t.data = s.data, DOMAIN t.frames[n] \subseteq Regs
  PROVE  RootsOn(t, c) = RootsOn(s, c) + Hits(DOMAIN t.frames[n], t.frames[n], c)
  <1> DEFINE A == Hits(Regs, s.regs, c)
             B == Hits(Globals, s.globals, c)
             C == Hits(1..Len(s.data), Spilled(s.data), c)
             D == Hits(SavedAt(s.frames), SavedIn(s.frames), c)
             D2 == Hits(SavedAt(t.frames), SavedIn(t.frames), c)
             F == t.frames[n]
             E == {x \in SavedAt(t.frames) : x[1] = n}
             HE == {x \in E : SavedIn(t.frames)[x] = c}
             HF == {r \in DOMAIN F : F[r] = c}
             g == [r \in HF |-> <<n, r>>]
  <1>1. RootsOn(s, c) = A + B + C + D /\ RootsOn(t, c) = A + B + C + D2
    BY RootsAre
  <1>2. A \in Nat /\ B \in Nat /\ C \in Nat /\ D \in Nat
    BY Sizes, Holders, HitsType
  <1>3. SavedAt(t.frames) = SavedAt(s.frames) \cup E /\ SavedAt(s.frames) \cap E = {}
    <2>1. \A x : x \in SavedAt(t.frames) <=> x \in SavedAt(s.frames) \/ x \in E
      <3>1. \A x : x \in SavedAt(s.frames) <=> x \in (1..(n - 1)) \X Regs /\ x[2] \in DOMAIN s.frames[x[1]]
        BY DEF SavedAt, Longer
      <3>2. \A x : x \in SavedAt(t.frames) <=> x \in (1..n) \X Regs /\ x[2] \in DOMAIN t.frames[x[1]]
        BY DEF SavedAt, Longer
      <3>3. \A x : x \in (1..n) \X Regs <=> x \in (1..(n - 1)) \X Regs \/ (x \in (1..n) \X Regs /\ x[1] = n)
        BY DEF Longer
      <3>4. \A x \in (1..(n - 1)) \X Regs : t.frames[x[1]] = s.frames[x[1]]
        BY DEF Longer
      <3> QED
        BY <3>1, <3>2, <3>3, <3>4
    <2>2. \A x \in SavedAt(s.frames) : x[1] # n
      BY DEF SavedAt, Longer
    <2> QED
      BY <2>1, <2>2
  <1>4. IsFiniteSet(SavedAt(t.frames))
    BY Holders
  <1>5. D2 = Hits(SavedAt(s.frames), SavedIn(t.frames), c) + Hits(E, SavedIn(t.frames), c)
    <2>1. PICK q : q = SavedIn(t.frames)
      OBVIOUS
    <2>2. PICK S : S = SavedAt(t.frames)
      OBVIOUS
    <2>3. PICK P : P = SavedAt(s.frames)
      OBVIOUS
    <2>4. PICK Q : Q = E
      OBVIOUS
    <2>5. Hits(S, q, c) = Hits(P, q, c) + Hits(Q, q, c)
      <3>1. IsFiniteSet(S) /\ S = P \cup Q /\ P \cap Q = {}
        BY <1>3, <1>4, <2>2, <2>3, <2>4
      <3> HIDE DEF E
      <3> QED
        BY <3>1, HitsSplit
    <2> QED
      BY <2>1, <2>2, <2>3, <2>4, <2>5
  <1>6. Hits(SavedAt(s.frames), SavedIn(t.frames), c) = D
    <2>1. \A x \in SavedAt(s.frames) : SavedIn(s.frames)[x] = SavedIn(t.frames)[x]
      <3> SUFFICES ASSUME NEW x \in SavedAt(s.frames) PROVE SavedIn(s.frames)[x] = SavedIn(t.frames)[x]
        OBVIOUS
      <3>1. x[1] \in 1..(n - 1) /\ x \in SavedAt(t.frames)
        BY <1>3 DEF SavedAt, Longer
      <3> QED
        BY <3>1 DEF SavedIn, Longer
    <2> QED
      BY <2>1, HitsSame
  <1>7. Hits(E, SavedIn(t.frames), c) = Hits(DOMAIN F, F, c)
    <2>1. \A x : x \in E <=> x \in (1..n) \X Regs /\ x[1] = n /\ x[2] \in DOMAIN F
      BY DEF SavedAt, Longer
    <2>2. \A x \in E : SavedIn(t.frames)[x] = F[x[2]] /\ x = <<n, x[2]>>
      <3> SUFFICES ASSUME NEW x \in E PROVE SavedIn(t.frames)[x] = F[x[2]] /\ x = <<n, x[2]>>
        OBVIOUS
      <3>1. x \in SavedAt(t.frames) /\ x[1] = n
        OBVIOUS
      <3>2. x = <<n, x[2]>>
        BY <2>1
      <3> QED
        BY <3>1, <3>2 DEF SavedIn
    <2>3. \A r \in DOMAIN F : <<n, r>> \in E
      <3> SUFFICES ASSUME NEW r \in DOMAIN F PROVE <<n, r>> \in E
        OBVIOUS
      <3>1. <<n, r>> \in (1..n) \X Regs
        BY DEF Longer
      <3>2. <<n, r>>[1] = n /\ <<n, r>>[2] = r
        OBVIOUS
      <3> HIDE DEF E
      <3> QED
        BY <2>1, <3>1, <3>2
    <2>4. g \in [HF -> HE]
      BY <2>2, <2>3
    <2>5. \A x, y \in HF : g[x] = g[y] => x = y
      OBVIOUS
    <2>6. \A u \in HE : \E x \in HF : g[x] = u
      <3> SUFFICES ASSUME NEW u \in HE PROVE \E x \in HF : g[x] = u
        OBVIOUS
      <3>1. u = <<n, u[2]>> /\ u[2] \in HF
        BY <2>1, <2>2
      <3> QED
        BY <3>1
    <2>7. IsFiniteSet(HF)
      <3>1. HF \subseteq Regs /\ IsFiniteSet(Regs)
        BY Sizes
      <3> QED
        BY <3>1, FS_Subset
    <2> HIDE DEF HE, HF, g
    <2>8. Cardinality(HE) = Cardinality(HF)
      BY <2>4, <2>5, <2>6, <2>7, CardinalityByBijection
    <2> QED
      BY <2>8 DEF Hits, HE, HF
  <1>8. Hits(DOMAIN F, F, c) \in Nat
    <2>1. IsFiniteSet(DOMAIN F)
      BY Sizes, FS_Subset
    <2> QED
      BY <2>1, HitsType
  <1> HIDE DEF A, B, C, D, D2, E, F
  <1>9. RootsOn(t, c) = RootsOn(s, c) + Hits(DOMAIN F, F, c)
    BY <1>1, <1>2, <1>5, <1>6, <1>7, <1>8
  <1> QED
    BY <1>9 DEF F

-----------------------------------------------------------------------------
(* Changing one part of the machine *)

\* What the program holds, and what the heap and its collector hold.
SameProgram(s, t) ==
    /\ t.gc = s.gc /\ t.regs = s.regs /\ t.globals = s.globals /\ t.data = s.data
    /\ t.frames = s.frames /\ t.handlers = s.handlers /\ t.status = s.status
SameStore(s, t) ==
    /\ t.gc = s.gc /\ t.live = s.live /\ t.cells = s.cells /\ t.rc = s.rc /\ t.eng = s.eng
    /\ t.errors = s.errors /\ t.since = s.since

\* Other spilled registers.
LEMMA PutData ==
  ASSUME NEW s \in VmStates, NEW q \in Seq(SpillRecords), NEW t, t = [s EXCEPT !.data = q]
  PROVE  /\ t \in VmStates /\ SameStore(s, t) /\ t.data = q
         /\ t.regs = s.regs /\ t.globals = s.globals /\ t.frames = s.frames
         /\ t.handlers = s.handlers /\ t.status = s.status
  BY DEF VmStates, SameStore, SpillRecords

\* Other frames.
LEMMA PutFrames ==
  ASSUME NEW s \in VmStates, NEW q \in Seq(SavedFrames), NEW t, t = [s EXCEPT !.frames = q]
  PROVE  /\ t \in VmStates /\ SameStore(s, t) /\ t.frames = q
         /\ t.regs = s.regs /\ t.globals = s.globals /\ t.data = s.data
         /\ t.handlers = s.handlers /\ t.status = s.status
  BY DEF VmStates, SameStore

\* Other handlers.
LEMMA PutHandlers ==
  ASSUME NEW s \in VmStates, NEW q \in Seq(HandlerRecords), NEW t, t = [s EXCEPT !.handlers = q]
  PROVE  /\ t \in VmStates /\ SameStore(s, t) /\ t.handlers = q
         /\ t.regs = s.regs /\ t.globals = s.globals /\ t.data = s.data
         /\ t.frames = s.frames /\ t.status = s.status
  BY DEF VmStates, SameStore, HandlerRecords

\* Another table of the engine.
LEMMA PutEngine ==
  ASSUME NEW s \in VmStates, NEW e \in Engines, NEW t, t = [s EXCEPT !.eng = e]
  PROVE  /\ t \in VmStates /\ SameProgram(s, t) /\ t.eng = e
         /\ t.live = s.live /\ t.cells = s.cells /\ t.rc = s.rc /\ t.errors = s.errors
  BY DEF VmStates, SameProgram

\* Other reference counts ...
LEMMA PutCounts ==
  ASSUME NEW s \in VmStates, NEW q \in [Cells -> Nat], NEW t, t = [s EXCEPT !.rc = q]
  PROVE  /\ t \in VmStates /\ SameProgram(s, t) /\ t.rc = q
         /\ t.live = s.live /\ t.cells = s.cells /\ t.eng = s.eng /\ t.errors = s.errors
  BY DEF VmStates, SameProgram

\* ... or one other count.
LEMMA PutCount ==
  ASSUME NEW s \in VmStates, NEW c \in Cells, NEW n \in Nat, NEW t, t = [s EXCEPT !.rc[c] = n]
  PROVE  /\ t \in VmStates /\ SameProgram(s, t) /\ t.rc = [s.rc EXCEPT ![c] = n]
         /\ t.live = s.live /\ t.cells = s.cells /\ t.eng = s.eng /\ t.errors = s.errors
  BY DEF VmStates, SameProgram

\* The count of barriers since the last scan.
LEMMA PutSince ==
  ASSUME NEW s \in VmStates, NEW n \in Nat, NEW t, t = [s EXCEPT !.since = n]
  PROVE  /\ t \in VmStates /\ SameProgram(s, t) /\ t.since = n
         /\ t.live = s.live /\ t.cells = s.cells /\ t.rc = s.rc /\ t.eng = s.eng /\ t.errors = s.errors
  BY DEF VmStates, SameProgram

\* The policy after a scan: its threshold, and the counters from zero.
LEMMA PutPolicy ==
  ASSUME NEW s \in VmStates, NEW n \in ThresholdMin..ThresholdMax,
         NEW t, t = [s EXCEPT !.threshold = n, !.since = 0, !.alloced = 0]
  PROVE  /\ t \in VmStates /\ SameProgram(s, t) /\ t.since = 0
         /\ t.live = s.live /\ t.cells = s.cells /\ t.rc = s.rc /\ t.eng = s.eng /\ t.errors = s.errors
  BY DEF VmStates, SameProgram

\* The payloads of a set of objects.
LEMMA PutPayload ==
  ASSUME NEW s \in VmStates, NEW S, NEW t, t = FreePayload(s, S)
  PROVE  /\ t \in VmStates /\ SameProgram(s, t)
         /\ t.live = Without(s.live, S) /\ t.cells = Blanked(s.cells, S)
         /\ t.rc = s.rc /\ t.eng = s.eng /\ t.errors = s.errors
  <1>1. Blank \in [Fields -> Values]
    BY DEF Blank, Values
  <1>2. s.live \in [Cells -> BOOLEAN] /\ s.cells \in [Cells -> [Fields -> Values]]
    BY DEF VmStates
  <1>3. Without(s.live, S) \in [Cells -> BOOLEAN]
    BY <1>2 DEF Without
  <1>4. Blanked(s.cells, S) \in [Cells -> [Fields -> Values]]
    BY <1>1, <1>2 DEF Blanked
  <1>5. t = [s EXCEPT !.live = Without(s.live, S), !.cells = Blanked(s.cells, S)]
    BY DEF FreePayload, Without, Blanked
  <1> QED
    BY <1>3, <1>4, <1>5, ZenonT(40) DEF VmStates, SameProgram

-----------------------------------------------------------------------------
(* A machine whose collector agrees with the program *)

\* The fields as the collector has been told of them: the field at h is being overwritten.
View(cl, h) == [a \in Cells |-> [f \in Fields |-> IF h = <<a, f>> THEN 0 ELSE cl[a][f]]]
Nowhere == <<0, 0>>

\* The collector agrees with R roots and the fields, and no barrier has failed.  Object x is
\* being made and may have no reference yet.
Sound(s, R, h, x) ==
    /\ s \in VmStates /\ ~s.errors /\ s.eng.errors = {}
    /\ Arc(s) => ArcGood(s.rc, s.live, View(s.cells, h), R, x)
    /\ ~Arc(s) => EngGood(s.eng, s.live, View(s.cells, h), R, x)

\* Between two barriers no candidate is left, and the scan is not overdue.
Settled(s) ==
    ~Arc(s) => s.eng.zero = {} /\ (s.eng.marks # {} => s.since < Interval(s))

\* Blanking objects and hiding a field commute, and nothing need be hidden.
LEMMA ViewIs ==
  ASSUME NEW cl, cl \in [Cells -> [Fields -> Values]], NEW h
  PROVE  /\ View(cl, h) \in [Cells -> [Fields -> Values]]
         /\ View(cl, Nowhere) = cl
         /\ \A S : View(Blanked(cl, S), h) = Blanked(View(cl, h), S)
  <1>1. 0 \in Values /\ 0 \notin Cells
    BY Sizes DEF Values
  <1>2. View(cl, h) \in [Cells -> [Fields -> Values]]
    BY <1>1 DEF View
  <1>3. View(cl, Nowhere) = cl
    BY <1>1 DEF View, Nowhere
  <1>4. ASSUME NEW S PROVE View(Blanked(cl, S), h) = Blanked(View(cl, h), S)
    <2>1. View(Blanked(cl, S), h) = [a \in Cells |-> View(Blanked(cl, S), h)[a]]
      BY DEF View
    <2>2. Blanked(View(cl, h), S) = [a \in Cells |-> Blanked(View(cl, h), S)[a]]
      BY DEF Blanked
    <2>3. ASSUME NEW a \in Cells PROVE View(Blanked(cl, S), h)[a] = Blanked(View(cl, h), S)[a]
      <3>1. CASE a \in S
        BY <3>1 DEF View, Blanked, Blank
      <3>2. CASE a \notin S
        BY <3>2 DEF View, Blanked
      <3> QED
        BY <3>1, <3>2
    <2> QED
      BY <2>1, <2>2, <2>3
  <1> QED
    BY <1>2, <1>3, <1>4

\* The least of a set of slots.
LEMMA LeastSlot ==
  ASSUME NEW S \in SUBSET Cells, S # {}
  PROVE  Min(S) \in S
  <1>1. S \subseteq Nat
    BY Sizes
  <1>2. \E m \in S : \A n \in S : m <= n
    BY <1>1, LeastNatural
  <1> QED
    BY <1>2 DEF Min

\* Freeing objects leaves no more live ones, and fewer if one was live.
LEMMA LiveShrinks ==
  ASSUME NEW lv, NEW G
  PROVE  /\ Cardinality({c \in Cells : lv[c]}) \in Nat
         /\ Cardinality({c \in Cells : lv[c]}) <= Cardinality(Cells)
         /\ Cardinality({c \in Cells : Without(lv, G)[c]}) \in Nat
         /\ Cardinality({c \in Cells : Without(lv, G)[c]}) <= Cardinality({c \in Cells : lv[c]})
         /\ (\E c \in Cells \cap G : lv[c]) =>
               Cardinality({c \in Cells : Without(lv, G)[c]}) < Cardinality({c \in Cells : lv[c]})
  <1> DEFINE L == {c \in Cells : lv[c]}
             M == {c \in Cells : Without(lv, G)[c]}
  <1>1. IsFiniteSet(Cells) /\ L \subseteq Cells /\ M \subseteq L
    BY Sizes DEF Without
  <1>2. IsFiniteSet(L)
    BY <1>1, FS_Subset
  <1>3. (\E c \in Cells \cap G : lv[c]) => M # L
    BY DEF Without
  <1> HIDE DEF L, M
  <1>4. Cardinality(L) <= Cardinality(Cells) /\ Cardinality(L) \in Nat
    BY <1>1, <1>2, FS_Subset, FS_CardinalityType
  <1>5. /\ Cardinality(M) \in Nat /\ Cardinality(M) <= Cardinality(L)
        /\ M # L => Cardinality(M) < Cardinality(L)
    BY <1>1, <1>2, FS_Subset, FS_CardinalityType
  <1> QED
    BY <1>3, <1>4, <1>5 DEF L, M

\* What is sound stays so when the heap and the roots stay the same.
LEMMA SoundSame ==
  ASSUME NEW s, NEW R, NEW h, NEW x, Sound(s, R, h, x), NEW t \in VmStates, SameStore(s, t),
         NEW R2, \A c \in Cells : R2[c] = R[c]
  PROVE  /\ Sound(t, R2, h, x)
         /\ Settled(s) => Settled(t)
  BY DEF Sound, SameStore, Settled, Arc, ArcGood, EngGood, Interval, Adaptive

\* What is known of the collector's state on its own.
LEMMA EngineParts ==
  ASSUME NEW s \in VmStates
  PROVE  /\ s.eng \in Engines /\ s.live \in [Cells -> BOOLEAN]
         /\ s.cells \in [Cells -> [Fields -> Values]] /\ s.rc \in [Cells -> Nat]
         /\ s.since \in Nat /\ s.threshold \in ThresholdMin..ThresholdMax
         /\ s.eng.zero \subseteq Cells /\ s.eng.marks \subseteq Cells /\ s.eng.stack \subseteq Cells
         /\ Source(s) = Src(s.live)
  BY DEF VmStates, Engines, Source, Src

\* The table and the heap after an operation of the engine that frees the objects of S.
LEMMA EngineFrees ==
  ASSUME NEW s, NEW R, NEW h, NEW x, Sound(s, R, h, x), ~Arc(s), NEW e, NEW S,
         EngGood(e, Without(s.live, S), Blanked(View(s.cells, h), S), R, 0),
         NEW t, t = FreePayload([s EXCEPT !.eng = e], S)
  PROVE  /\ Sound(t, R, h, 0) /\ SameProgram(s, t)
         /\ t.eng = e /\ t.live = Without(s.live, S)
  <1>1. s \in VmStates /\ e \in Engines /\ e.errors = {} /\ ~s.errors
    BY DEF Sound, EngGood, EngineType
  <1>2. PICK u : u = [s EXCEPT !.eng = e]
    OBVIOUS
  <1>3. /\ u \in VmStates /\ SameProgram(s, u) /\ u.eng = e
        /\ u.live = s.live /\ u.cells = s.cells /\ u.errors = s.errors
    BY <1>1, <1>2, PutEngine
  <1>4. t = FreePayload(u, S)
    BY <1>2
  <1>5. /\ t \in VmStates /\ SameProgram(u, t)
        /\ t.live = Without(u.live, S) /\ t.cells = Blanked(u.cells, S)
        /\ t.eng = u.eng /\ t.errors = u.errors
    BY <1>3, <1>4, PutPayload
  <1>6. SameProgram(s, t) /\ ~Arc(t)
    BY <1>3, <1>5 DEF SameProgram, Arc
  <1>7. View(t.cells, h) = Blanked(View(s.cells, h), S)
    <2>1. s.cells \in [Cells -> [Fields -> Values]]
      BY <1>1, EngineParts
    <2>2. View(Blanked(s.cells, S), h) = Blanked(View(s.cells, h), S)
      BY <2>1, ViewIs
    <2> QED
      BY <1>3, <1>5, <2>2
  <1> QED
    BY <1>1, <1>3, <1>5, <1>6, <1>7 DEF Sound

-----------------------------------------------------------------------------
(* The loops of the inline collector *)

\* One candidate of a sweep: an object is freed, or there is a candidate less.
LEMMA PopStep ==
  ASSUME NEW s, NEW R, NEW h, Sound(s, R, h, 0), ~Arc(s), s.eng.zero # {}, NEW t, t = SweepNext(s)
  PROVE  /\ Sound(t, R, h, 0) /\ SameProgram(s, t)
         /\ \/ LiveCount(t) < LiveCount(s)
            \/ t.live = s.live /\ Cardinality(t.eng.zero) < Cardinality(s.eng.zero)
  <1> DEFINE V == View(s.cells, h)
  <1>1. s \in VmStates /\ EngGood(s.eng, s.live, V, R, 0) /\ ~s.errors
    BY DEF Sound
  <1>2. /\ s.eng \in Engines /\ s.live \in [Cells -> BOOLEAN] /\ s.eng.zero \subseteq Cells
        /\ Source(s) = Src(s.live)
    BY <1>1, EngineParts
  <1>3. PICK c : c = Min(s.eng.zero)
    OBVIOUS
  <1>4. c \in s.eng.zero
    BY <1>2, <1>3, LeastSlot
  <1>5. PICK p : p = Popped(s.eng, c)
    OBVIOUS
  <1>6. t = IF IsZeroGarbage(p, Src(s.live), c)
            THEN FreePayload([s EXCEPT !.eng = ReclaimCell(p, Src(s.live), c)], {c})
            ELSE [s EXCEPT !.eng = p]
    BY <1>2, <1>3, <1>5 DEF SweepNext, PopZero, Popped
  <1> HIDE DEF V
  <1>7. /\ c \in Cells /\ p.zero = s.eng.zero \ {c}
        /\ IsZeroGarbage(p, Src(s.live), c) =>
             EngGood(ReclaimCell(p, Src(s.live), c), Without(s.live, {c}), Blanked(V, {c}), R, 0)
        /\ ~IsZeroGarbage(p, Src(s.live), c) => EngGood(p, s.live, V, R, 0)
    BY <1>1, <1>2, <1>4, <1>5, PopGood
  <1>8. CASE IsZeroGarbage(p, Src(s.live), c)
    <2>1. PICK e : e = ReclaimCell(p, Src(s.live), c)
      OBVIOUS
    <2>2. EngGood(e, Without(s.live, {c}), Blanked(V, {c}), R, 0)
      BY <1>7, <1>8, <2>1
    <2>3. t = FreePayload([s EXCEPT !.eng = e], {c})
      BY <1>6, <1>8, <2>1
    <2>4. Sound(t, R, h, 0) /\ SameProgram(s, t) /\ t.live = Without(s.live, {c})
      BY <2>2, <2>3, EngineFrees DEF V
    <2>5. s.live[c]
      BY <1>8 DEF IsZeroGarbage, Src
    <2>6. LiveCount(t) < LiveCount(s)
      <3>1. PICK S : S = {c}
        OBVIOUS
      <3>2. \E k \in Cells \cap S : s.live[k]
        BY <1>7, <2>5, <3>1
      <3>3. t.live = Without(s.live, S)
        BY <2>4, <3>1
      <3> QED
        BY <3>2, <3>3, LiveShrinks DEF LiveCount
    <2> QED
      BY <2>4, <2>6
  <1>9. CASE ~IsZeroGarbage(p, Src(s.live), c)
    <2>1. p \in Engines /\ p.errors = {} /\ EngGood(p, s.live, V, R, 0)
      BY <1>7, <1>9 DEF EngGood, EngineType
    <2>2. t = [s EXCEPT !.eng = p]
      BY <1>6, <1>9
    <2>3. /\ t \in VmStates /\ SameProgram(s, t) /\ t.eng = p
          /\ t.live = s.live /\ t.cells = s.cells /\ t.errors = s.errors
      BY <1>1, <2>1, <2>2, PutEngine
    <2>4. ~Arc(t)
      BY <2>3 DEF SameProgram, Arc
    <2>5. Sound(t, R, h, 0)
      BY <1>1, <2>1, <2>3, <2>4 DEF Sound, V
    <2>6. IsFiniteSet(s.eng.zero)
      BY <1>2, Sizes, FS_Subset
    <2>7. Cardinality(s.eng.zero \ {c}) < Cardinality(s.eng.zero)
      <3>1. PICK Z : Z = s.eng.zero
        OBVIOUS
      <3>2. IsFiniteSet(Z) /\ c \in Z
        BY <1>4, <2>6, <3>1
      <3>3. Cardinality(Z \ {c}) = Cardinality(Z) - 1 /\ Cardinality(Z) \in Nat
        BY <3>2, FS_RemoveElement, FS_CardinalityType
      <3> QED
        BY <3>1, <3>3
    <2> QED
      BY <1>7, <2>3, <2>5, <2>7
  <1> QED
    BY <1>8, <1>9

\* One pass of the cycle collector: an object is freed, or no suspect is left and there is
\* no new candidate.
LEMMA ScanStep ==
  ASSUME NEW s, NEW R, NEW h, Sound(s, R, h, 0), ~Arc(s),
         NEW t, t = FreeCycles(s, GarbageIn(s.eng, Source(s)))
  PROVE  /\ Sound(t, R, h, 0) /\ SameProgram(s, t)
         /\ LiveCount(t) <= LiveCount(s)
         /\ \/ LiveCount(t) < LiveCount(s)
            \/ t.eng.stack = {} /\ t.eng.zero = s.eng.zero
         /\ Cardinality(Visited(s.eng, Source(s))) \in Nat
  <1> DEFINE V == View(s.cells, h)
  <1>1. s \in VmStates /\ EngGood(s.eng, s.live, V, R, 0) /\ ~s.errors
    BY DEF Sound
  <1>2. /\ s.eng \in Engines /\ s.live \in [Cells -> BOOLEAN] /\ s.eng.stack \subseteq Cells
        /\ Source(s) = Src(s.live)
    BY <1>1, EngineParts
  <1>3. PICK G : G = GarbageIn(s.eng, Src(s.live))
    OBVIOUS
  <1>4. PICK e : e = ReclaimCycles(s.eng, Src(s.live), G)
    OBVIOUS
  <1>5. t = FreePayload([s EXCEPT !.eng = e], G)
    BY <1>2, <1>3, <1>4 DEF FreeCycles
  <1> HIDE DEF V
  <1>6. /\ EngGood(e, Without(s.live, G), Blanked(V, G), R, 0)
        /\ G \subseteq Cells /\ \A c \in G : s.live[c]
        /\ G = {} => e.stack = {} /\ e.zero = s.eng.zero
    BY <1>1, <1>2, <1>3, <1>4, ScanGood
  <1>7. Sound(t, R, h, 0) /\ SameProgram(s, t) /\ t.live = Without(s.live, G) /\ t.eng = e
    BY <1>5, <1>6, EngineFrees DEF V
  <1>8. /\ LiveCount(t) <= LiveCount(s)
        /\ G # {} => LiveCount(t) < LiveCount(s)
    BY <1>6, <1>7, LiveShrinks DEF LiveCount
  <1>9. Visited(s.eng, Source(s)) \subseteq Cells
    <2>1. ScanRoots(s.eng, Source(s)) \subseteq Cells
      BY <1>2 DEF ScanRoots
    <2> QED
      BY <2>1, ReachClosed DEF Visited
  <1>10. Cardinality(Visited(s.eng, Source(s))) \in Nat
    BY <1>9, Sizes, FS_Subset, FS_CardinalityType
  <1> QED
    BY <1>6, <1>7, <1>8, <1>10

\* Enough rounds: freeing an object makes up for the candidates it leaves, at most N.
LEMMA PopMeasure ==
  ASSUME NEW N \in Nat, NEW L \in Nat, NEW M \in Nat, NEW z \in Nat, NEW y \in Nat, NEW n \in Nat,
         y <= N, z > 0, L * (N + 1) + z + n < (N + 1) * (N + 1),
         M < L \/ (M = L /\ y < z)
  PROVE  M * (N + 1) + y + (n + 1) < (N + 1) * (N + 1)
  <1> DEFINE K == N + 1
             P == L * K
             Q == M * K
             S == K * K
  <1>1. P \in Nat /\ Q \in Nat /\ S \in Nat /\ P + z + n < S
    OBVIOUS
  <1>2. CASE M < L
    <2>1. PICK d \in Nat : L = M + 1 + d
      <3>1. L - M - 1 \in Nat
        BY <1>2
      <3> QED
        BY <3>1
    <2>2. P = Q + K + d * K /\ d * K \in Nat
      BY <2>1
    <2> HIDE DEF P, Q, S
    <2> QED
      BY <1>1, <2>2
  <1>3. CASE M = L /\ y < z
    <2>1. P = Q
      BY <1>3
    <2> HIDE DEF P, Q, S
    <2> QED
      BY <1>1, <1>3, <2>1
  <1> QED
    BY <1>2, <1>3

\* A sweep drains the candidates: what the loop condition of the code
\* leaves to chance is bounded by the objects there are to free.
LEMMA SweepEnds ==
  ASSUME NEW s, NEW R, NEW h, Sound(s, R, h, 0), ~Arc(s), NEW t, t = SweepZero(s)
  PROVE  /\ Sound(t, R, h, 0) /\ SameProgram(s, t) /\ ~Arc(t)
         /\ t.eng.zero = {} /\ LiveCount(t) <= LiveCount(s)
  <1> DEFINE N == Cardinality(Cells)
             hi == (N + 1) * (N + 1)
             U == {u \in VmStates : Sound(u, R, h, 0) /\ SameProgram(s, u) /\ LiveCount(u) <= LiveCount(s)}
             W(u) == LiveCount(u) * (N + 1) + Cardinality(u.eng.zero)
             T == [n \in Nat |-> {u \in U : u.eng.zero = {} \/ W(u) + n < hi}]
             k == [p \in U \X Int |-> SweepNext(p[1])]
  <1>1. N \in Nat /\ hi \in Nat /\ 1 <= hi /\ MaxPops = hi
    <2>1. N \in Nat
      BY Sizes, FS_CardinalityType
    <2>2. MaxPops = hi
      BY DEF MaxPops, MaxPasses
    <2> HIDE DEF N
    <2>3. (N + 1) * (N + 1) \in Nat /\ 1 <= (N + 1) * (N + 1)
      <3>1. (N + 1) * (N + 1) = N * N + 2 * N + 1 /\ N * N \in Nat
        BY <2>1
      <3> QED
        BY <2>1, <3>1
    <2> QED
      BY <2>1, <2>2, <2>3
  <1>2. \A u \in U : /\ LiveCount(u) \in Nat /\ LiveCount(u) <= N
                     /\ Cardinality(u.eng.zero) \in Nat /\ Cardinality(u.eng.zero) <= N
    <2> SUFFICES ASSUME NEW u \in U
                 PROVE  /\ LiveCount(u) \in Nat /\ LiveCount(u) <= N
                        /\ Cardinality(u.eng.zero) \in Nat /\ Cardinality(u.eng.zero) <= N
      OBVIOUS
    <2>1. u.eng.zero \subseteq Cells /\ IsFiniteSet(Cells)
      BY Sizes, EngineParts
    <2>2. Cardinality(u.eng.zero) \in Nat /\ Cardinality(u.eng.zero) <= N
      BY <2>1, FS_Subset, FS_CardinalityType
    <2>3. LiveCount(u) \in Nat /\ LiveCount(u) <= N
      BY LiveShrinks DEF LiveCount
    <2> QED
      BY <2>2, <2>3
  <1>3. s \in T[0]
    <2>1. s \in U
      <3>1. s \in VmStates /\ SameProgram(s, s)
        BY DEF Sound, SameProgram
      <3>2. LiveCount(s) \in Nat
        BY LiveShrinks DEF LiveCount
      <3> QED
        BY <3>1, <3>2
    <2>2. W(s) + 0 < hi
      <3>1. PICK L : L = LiveCount(s)
        OBVIOUS
      <3>2. PICK z : z = Cardinality(s.eng.zero)
        OBVIOUS
      <3>3. L \in Nat /\ L <= N /\ z \in Nat /\ z <= N
        BY <1>2, <2>1, <3>1, <3>2
      <3> HIDE DEF N
      <3>4. L * (N + 1) + z < (N + 1) * (N + 1) /\ L * (N + 1) + z + 0 = L * (N + 1) + z
        <4>1. PICK d \in Nat : N = L + d
          <5>1. N - L \in Nat
            BY <1>1, <3>3
          <5> QED
            BY <1>1, <3>3, <5>1
        <4>2. (N + 1) * (N + 1) = L * (N + 1) + d * (N + 1) + (N + 1)
          BY <1>1, <3>3, <4>1
        <4>3. d * (N + 1) \in Nat /\ L * (N + 1) \in Nat
          BY <1>1, <3>3, <4>1
        <4> QED
          BY <1>1, <3>3, <4>2, <4>3
      <3> QED
        BY <3>1, <3>2, <3>4
    <2> HIDE DEF U, W, hi
    <2> QED
      BY <2>1, <2>2
  <1>4. \A n \in 1..hi : \A u \in T[n - 1] : SweepNext(u) \in T[n]
    <2> SUFFICES ASSUME NEW n \in 1..hi, NEW u \in T[n - 1] PROVE SweepNext(u) \in T[n]
      OBVIOUS
    <2>1. /\ u \in U /\ Sound(u, R, h, 0) /\ SameProgram(s, u) /\ LiveCount(u) <= LiveCount(s)
          /\ u.eng.zero = {} \/ W(u) + (n - 1) < hi
          /\ n - 1 \in Nat /\ n \in Nat
      BY <1>1
    <2>2. CASE u.eng.zero = {}
      <3>1. SweepNext(u) = u
        BY <2>2 DEF SweepNext
      <3> QED
        BY <2>1, <2>2, <3>1
    <2>3. CASE u.eng.zero # {}
      <3>1. PICK v : v = SweepNext(u)
        OBVIOUS
      <3>2. ~Arc(u)
        BY <2>1 DEF SameProgram, Arc
      <3>3. /\ Sound(v, R, h, 0) /\ SameProgram(u, v)
            /\ \/ LiveCount(v) < LiveCount(u)
               \/ v.live = u.live /\ Cardinality(v.eng.zero) < Cardinality(u.eng.zero)
        BY <2>1, <2>3, <3>1, <3>2, PopStep
      <3>4. SameProgram(s, v) /\ v \in VmStates
        BY <2>1, <3>3 DEF SameProgram, Sound
      <3>5. /\ LiveCount(v) \in Nat /\ LiveCount(u) \in Nat /\ LiveCount(s) \in Nat
            /\ v.live = u.live => LiveCount(v) = LiveCount(u)
        BY LiveShrinks DEF LiveCount
      <3>6. v \in U
        BY <2>1, <3>3, <3>4, <3>5
      <3>7. PICK a : a = LiveCount(u)
        OBVIOUS
      <3>8. PICK b : b = LiveCount(v)
        OBVIOUS
      <3>9. PICK y : y = Cardinality(u.eng.zero)
        OBVIOUS
      <3>10. PICK z : z = Cardinality(v.eng.zero)
        OBVIOUS
      <3>11. a \in Nat /\ b \in Nat /\ y \in Nat /\ z \in Nat /\ z <= N
        BY <1>2, <2>1, <3>6, <3>7, <3>8, <3>9, <3>10
      <3>12. b < a \/ (b = a /\ z < y)
        BY <3>3, <3>5, <3>7, <3>8, <3>9, <3>10
      <3>13. y > 0
        <4>1. IsFiniteSet(u.eng.zero)
          BY <2>1, EngineParts, Sizes, FS_Subset
        <4> QED
          BY <2>3, <3>9, <3>11, <4>1, FS_EmptySet
      <3>14. a * (N + 1) + y + (n - 1) < (N + 1) * (N + 1)
        BY <2>1, <2>3, <3>7, <3>9
      <3> HIDE DEF N, U
      <3>15. b * (N + 1) + z + ((n - 1) + 1) < (N + 1) * (N + 1)
        BY <1>1, <2>1, <3>11, <3>12, <3>13, <3>14, PopMeasure
      <3>16. (n - 1) + 1 = n
        BY <2>1
      <3>17. W(v) + n < hi
        BY <3>8, <3>10, <3>15, <3>16
      <3> QED
        BY <2>1, <3>1, <3>6, <3>17
    <2> QED
      BY <2>2, <2>3
  <1>5. \A n \in Nat : T[n] \subseteq U
    OBVIOUS
  <1>6. \A n \in 1..hi : \A x \in T[n - 1] : k[<<x, n>>] = SweepNext(x)
    <2> SUFFICES ASSUME NEW n \in 1..hi, NEW x \in T[n - 1] PROVE k[<<x, n>>] = SweepNext(x)
      OBVIOUS
    <2>1. x \in U /\ n \in Int
      BY <1>1, <1>5
    <2> HIDE DEF U, T
    <2> QED
      BY <2>1
  <1>7. \A u \in T[hi] : u.eng.zero = {}
    <2> SUFFICES ASSUME NEW u \in T[hi], u.eng.zero # {} PROVE FALSE
      OBVIOUS
    <2>1. u \in U /\ W(u) + hi < hi
      BY <1>1
    <2>2. LiveCount(u) \in Nat /\ Cardinality(u.eng.zero) \in Nat
      BY <1>2, <2>1
    <2>3. PICK L \in Nat : L = LiveCount(u)
      BY <2>2
    <2> HIDE DEF N, U
    <2>4. L * (N + 1) \in Nat
      BY <1>1, <2>3
    <2>5. W(u) \in Nat
      BY <2>2, <2>3, <2>4
    <2> HIDE DEF W, hi
    <2> QED
      BY <1>1, <2>1, <2>5
  <1>8. t \in T[hi]
    <2> HIDE DEF T, k, U, hi
    <2>1. 1 \in Int /\ hi \in Int /\ 1 <= hi /\ 1 - 1 = 0
      BY <1>1
    <2>2. s \in T[1 - 1]
      BY <1>3, <2>1
    <2>3. \A n \in 1..hi : \A x \in T[n - 1] : k[<<x, n>>] \in T[n]
      BY <1>4, <1>6
    <2>4. PICK f : IsLoop(f, k, s, 1, hi) /\ \A n \in (1 - 1)..hi : f[n] \in T[n]
      BY <2>1, <2>2, <2>3, LoopRuns DEF StepsWithin
    <2>5. f = [n \in (1 - 1)..hi |-> IF n < 1 THEN s ELSE SweepNext(f[n - 1])]
      <3>1. f = [n \in (1 - 1)..hi |-> IF n < 1 THEN s ELSE k[<<f[n - 1], n>>]]
        BY <2>4 DEF IsLoop
      <3>2. \A n \in (1 - 1)..hi : ~(n < 1) => k[<<f[n - 1], n>>] = SweepNext(f[n - 1])
        BY <1>6, <2>1, <2>4
      <3> QED
        BY <3>1, <3>2
    <2> DEFINE g[n \in (1 - 1)..hi] == IF n < 1 THEN s ELSE SweepNext(g[n - 1])
    <2>6. t = g[hi]
      BY <1>1, <2>1 DEF SweepZero, For, hi
    <2>7. g = [n \in (1 - 1)..hi |-> IF n < 1 THEN s ELSE SweepNext(g[n - 1])]
      BY <2>5
    <2> HIDE DEF g
    <2>8. g[1 - 1] \in T[1 - 1]
      BY <2>1, <2>2, <2>7
    <2>9. \A n \in 1..hi : g[n - 1] \in T[n - 1] => g[n] \in T[n]
      <3>1. \A n \in 1..hi : g[n] = SweepNext(g[n - 1])
        BY <2>1, <2>7
      <3> QED
        BY <1>4, <3>1
    <2>10. \A n \in (1 - 1)..hi : g[n] \in T[n]
      BY <2>1, <2>8, <2>9, LoopStays
    <2> QED
      BY <2>1, <2>6, <2>10
  <1>9. t \in U /\ t.eng.zero = {}
    <2> HIDE DEF T, U
    <2> QED
      BY <1>1, <1>5, <1>7, <1>8
  <1> QED
    BY <1>9 DEF SameProgram, Arc

\* How many live objects there can be.
LEMMA LiveBound ==
  ASSUME NEW s
  PROVE  /\ LiveCount(s) \in Nat /\ LiveCount(s) < MaxPasses
         /\ MaxPasses \in Nat /\ MaxPasses >= 1
         /\ \A t : t.live = s.live => LiveCount(t) = LiveCount(s)
  <1>1. Cardinality(Cells) \in Nat
    BY Sizes, FS_CardinalityType
  <1>2. LiveCount(s) \in Nat /\ LiveCount(s) <= Cardinality(Cells)
    BY LiveShrinks DEF LiveCount
  <1>3. \A t : t.live = s.live => LiveCount(t) = LiveCount(s)
    BY DEF LiveCount
  <1> QED
    BY <1>1, <1>2, <1>3 DEF MaxPasses

\* The passes of the cycle collector leave no suspect, and a new
\* candidate only if an object was freed.
LEMMA CollectEnds ==
  ASSUME NEW s, NEW R, NEW h, Sound(s, R, h, 0), ~Arc(s), NEW r, r = CollectCycles(s), NEW t, t = r.s
  PROVE  /\ Sound(t, R, h, 0) /\ SameProgram(s, t) /\ ~Arc(t)
         /\ t.eng.stack = {} /\ r.visited \in Nat
         /\ LiveCount(t) <= LiveCount(s)
         /\ LiveCount(t) < LiveCount(s) \/ t.eng.zero = s.eng.zero
  <1> DEFINE b == [s |-> s, visited |-> 0]
             U == {u \in [s : VmStates, visited : Nat] :
                     /\ Sound(u.s, R, h, 0) /\ SameProgram(s, u.s) /\ LiveCount(u.s) <= LiveCount(s)
                     /\ LiveCount(u.s) < LiveCount(s) \/ u.s.eng.zero = s.eng.zero}
             T == [n \in Nat |-> {u \in U : u.s.eng.stack = {} \/ LiveCount(u.s) + n < MaxPasses}]
             k == [p \in U \X Int |-> ScanNext(p[1])]
             hi == MaxPasses
  <1>1. /\ hi \in Nat /\ 1 <= hi
        /\ \A u : LiveCount(u) \in Nat /\ LiveCount(u) < hi
    BY LiveBound
  <1>2. b \in T[0]
    <2>1. s \in VmStates /\ SameProgram(s, s)
      BY DEF Sound, SameProgram
    <2>2. b \in U /\ b.s = s
      BY <1>1, <2>1
    <2>3. LiveCount(b.s) + 0 < MaxPasses
      BY <1>1
    <2> HIDE DEF U, b
    <2> QED
      BY <2>2, <2>3
  <1>3. \A n \in 1..hi : \A u \in T[n - 1] : ScanNext(u) \in T[n]
    <2> SUFFICES ASSUME NEW n \in 1..hi, NEW u \in T[n - 1] PROVE ScanNext(u) \in T[n]
      OBVIOUS
    <2>1. /\ u \in U /\ (u.s.eng.stack = {} \/ LiveCount(u.s) + (n - 1) < MaxPasses)
          /\ n - 1 \in Nat /\ n \in Nat
      BY <1>1
    <2>2. CASE u.s.eng.stack = {}
      <3>1. ScanNext(u) = u
        BY <2>2 DEF ScanNext
      <3> QED
        BY <2>1, <2>2, <3>1
    <2>3. CASE u.s.eng.stack # {}
      <3>1. PICK w : w = u.s
        OBVIOUS
      <3>2. PICK v : v = FreeCycles(w, GarbageIn(w.eng, Source(w)))
        OBVIOUS
      <3>3. PICK c : c = Cardinality(Visited(w.eng, Source(w)))
        OBVIOUS
      <3>4. ScanNext(u) = [s |-> v, visited |-> u.visited + c]
        BY <2>3, <3>1, <3>2, <3>3 DEF ScanNext
      <3>5. /\ Sound(w, R, h, 0) /\ SameProgram(s, w) /\ ~Arc(w) /\ u.visited \in Nat
            /\ LiveCount(w) <= LiveCount(s)
            /\ LiveCount(w) < LiveCount(s) \/ w.eng.zero = s.eng.zero
        BY <2>1, <3>1 DEF SameProgram, Arc
      <3>6. /\ Sound(v, R, h, 0) /\ SameProgram(w, v)
            /\ LiveCount(v) <= LiveCount(w)
            /\ LiveCount(v) < LiveCount(w) \/ (v.eng.stack = {} /\ v.eng.zero = w.eng.zero)
            /\ c \in Nat
        BY <3>2, <3>3, <3>5, ScanStep
      <3>7. SameProgram(s, v) /\ v \in VmStates
        BY <3>5, <3>6 DEF SameProgram, Sound
      <3>8. PICK x : x = [s |-> v, visited |-> u.visited + c]
        OBVIOUS
      <3>9. x \in [s : VmStates, visited : Nat] /\ x.s = v
        BY <3>5, <3>6, <3>7, <3>8
      <3>10. LiveCount(v) \in Nat /\ LiveCount(w) \in Nat /\ LiveCount(s) \in Nat
        BY <1>1
      <3>11. x \in U
        BY <3>5, <3>6, <3>7, <3>9, <3>10
      <3>12. v.eng.stack = {} \/ LiveCount(v) + n < MaxPasses
        BY <1>1, <2>1, <2>3, <3>1, <3>6, <3>10
      <3> HIDE DEF U
      <3> QED
        BY <2>1, <3>4, <3>8, <3>9, <3>11, <3>12
    <2> QED
      BY <2>2, <2>3
  <1>4. \A n \in 1..hi : \A x \in T[n - 1] : k[<<x, n>>] = ScanNext(x)
    <2> SUFFICES ASSUME NEW n \in 1..hi, NEW x \in T[n - 1] PROVE k[<<x, n>>] = ScanNext(x)
      OBVIOUS
    <2>1. x \in U /\ n \in Int
      BY <1>1
    <2> HIDE DEF U, T
    <2> QED
      BY <2>1
  <1>5. \A u \in T[hi] : u.s.eng.stack = {} /\ u \in U
    <2> SUFFICES ASSUME NEW u \in T[hi] PROVE u.s.eng.stack = {} /\ u \in U
      OBVIOUS
    <2>1. u \in U /\ (u.s.eng.stack = {} \/ LiveCount(u.s) + hi < hi)
      BY <1>1
    <2>2. LiveCount(u.s) \in Nat
      BY <1>1
    <2> HIDE DEF U
    <2> QED
      BY <1>1, <2>1, <2>2
  <1>6. r \in T[hi]
    <2> HIDE DEF T, k, U, b, hi
    <2>1. 1 \in Int /\ hi \in Int /\ 1 <= hi /\ 1 - 1 = 0
      BY <1>1
    <2>2. b \in T[1 - 1]
      BY <1>2, <2>1
    <2>3. \A n \in 1..hi : \A x \in T[n - 1] : k[<<x, n>>] \in T[n]
      BY <1>3, <1>4
    <2>4. PICK f : IsLoop(f, k, b, 1, hi) /\ \A n \in (1 - 1)..hi : f[n] \in T[n]
      BY <2>1, <2>2, <2>3, LoopRuns DEF StepsWithin
    <2>5. f = [n \in (1 - 1)..hi |-> IF n < 1 THEN b ELSE ScanNext(f[n - 1])]
      <3>1. f = [n \in (1 - 1)..hi |-> IF n < 1 THEN b ELSE k[<<f[n - 1], n>>]]
        BY <2>4 DEF IsLoop
      <3>2. \A n \in (1 - 1)..hi : ~(n < 1) => k[<<f[n - 1], n>>] = ScanNext(f[n - 1])
        BY <1>4, <2>1, <2>4
      <3> QED
        BY <3>1, <3>2
    <2> DEFINE g[n \in (1 - 1)..hi] == IF n < 1 THEN b ELSE ScanNext(g[n - 1])
    <2>6. r = g[hi]
      BY <1>1, <2>1 DEF CollectCycles, For, hi, b
    <2>7. g = [n \in (1 - 1)..hi |-> IF n < 1 THEN b ELSE ScanNext(g[n - 1])]
      BY <2>5
    <2> HIDE DEF g
    <2>8. g[1 - 1] \in T[1 - 1]
      BY <2>1, <2>2, <2>7
    <2>9. \A n \in 1..hi : g[n - 1] \in T[n - 1] => g[n] \in T[n]
      <3>1. \A n \in 1..hi : g[n] = ScanNext(g[n - 1])
        BY <2>1, <2>7
      <3> QED
        BY <1>3, <3>1
    <2>10. \A n \in (1 - 1)..hi : g[n] \in T[n]
      BY <2>1, <2>8, <2>9, LoopStays
    <2> QED
      BY <2>1, <2>6, <2>10
  <1>7. r \in U /\ r.s.eng.stack = {}
    <2> HIDE DEF T, U
    <2> QED
      BY <1>5, <1>6
  <1> QED
    BY <1>7 DEF SameProgram, Arc

\* sweep() of the shutdown: neither candidates nor suspects are left.
LEMMA FullSweepEnds ==
  ASSUME NEW s, NEW R, NEW h, Sound(s, R, h, 0), ~Arc(s), NEW t, t = FullSweep(s)
  PROVE  /\ Sound(t, R, h, 0) /\ SameProgram(s, t) /\ ~Arc(t)
         /\ t.eng.stack = {} /\ t.eng.zero = {}
  <1> DEFINE Left(u) == u.eng.zero \cup u.eng.stack
             U == {u \in VmStates : Sound(u, R, h, 0) /\ SameProgram(s, u)}
             T == [n \in Nat |-> {u \in U : Left(u) = {} \/ LiveCount(u) + n < MaxPasses}]
             k == [p \in U \X Int |-> SweepRound(p[1])]
             hi == MaxPasses
  <1>1. /\ hi \in Nat /\ 1 <= hi
        /\ \A u : LiveCount(u) \in Nat /\ LiveCount(u) < hi
    BY LiveBound
  <1>2. s \in T[0]
    <2>1. s \in U
      BY DEF Sound, SameProgram
    <2>2. LiveCount(s) + 0 < MaxPasses
      BY <1>1
    <2> HIDE DEF U
    <2> QED
      BY <2>1, <2>2
  <1>3. \A n \in 1..hi : \A u \in T[n - 1] : SweepRound(u) \in T[n]
    <2> SUFFICES ASSUME NEW n \in 1..hi, NEW u \in T[n - 1] PROVE SweepRound(u) \in T[n]
      OBVIOUS
    <2>1. /\ u \in U /\ (Left(u) = {} \/ LiveCount(u) + (n - 1) < MaxPasses)
          /\ n - 1 \in Nat /\ n \in Nat
      BY <1>1
    <2>2. CASE Left(u) = {}
      <3>1. SweepRound(u) = u
        BY <2>2 DEF SweepRound
      <3> QED
        BY <2>1, <2>2, <3>1
    <2>3. CASE Left(u) # {}
      <3>1. PICK w : w = SweepZero(u)
        OBVIOUS
      <3>2. PICK x : x = CollectCycles(w)
        OBVIOUS
      <3>3. PICK v : v = x.s
        OBVIOUS
      <3>4. SweepRound(u) = v
        BY <2>3, <3>1, <3>2, <3>3 DEF SweepRound
      <3>5. Sound(u, R, h, 0) /\ SameProgram(s, u) /\ ~Arc(u)
        BY <2>1 DEF SameProgram, Arc
      <3>6. /\ Sound(w, R, h, 0) /\ SameProgram(u, w) /\ ~Arc(w)
            /\ w.eng.zero = {} /\ LiveCount(w) <= LiveCount(u)
        BY <3>1, <3>5, SweepEnds
      <3>7. /\ Sound(v, R, h, 0) /\ SameProgram(w, v) /\ v.eng.stack = {}
            /\ LiveCount(v) <= LiveCount(w)
            /\ LiveCount(v) < LiveCount(w) \/ v.eng.zero = w.eng.zero
        <4> HIDE DEF T, U, Left
        <4>1. Sound(w, R, h, 0) /\ ~Arc(w)
          BY <3>6
        <4>3. Sound(v, R, h, 0) /\ SameProgram(w, v) /\ v.eng.stack = {}
          BY <3>2, <3>3, <4>1, CollectEnds
        <4>4. LiveCount(v) <= LiveCount(w)
          BY <3>2, <3>3, <4>1, CollectEnds
        <4>5. LiveCount(v) < LiveCount(w) \/ v.eng.zero = w.eng.zero
          BY <3>2, <3>3, <4>1, CollectEnds
        <4> QED
          BY <4>3, <4>4, <4>5
      <3>8. v \in U
        BY <3>5, <3>6, <3>7 DEF SameProgram, Sound
      <3>9. Left(v) = {} \/ LiveCount(v) + n < MaxPasses
        <4>1. LiveCount(v) \in Nat /\ LiveCount(w) \in Nat /\ LiveCount(u) \in Nat
          BY <1>1
        <4>2. CASE v.eng.zero = w.eng.zero
          BY <3>6, <3>7, <4>2
        <4>3. CASE LiveCount(v) < LiveCount(w)
          <5>1. LiveCount(u) + (n - 1) < MaxPasses /\ LiveCount(w) <= LiveCount(u)
            BY <2>1, <2>3, <3>6
          <5> QED
            BY <1>1, <2>1, <4>1, <4>3, <5>1
        <4> QED
          BY <3>7, <4>2, <4>3
      <3> HIDE DEF U, Left
      <3> QED
        BY <2>1, <3>4, <3>8, <3>9
    <2> QED
      BY <2>2, <2>3
  <1>4. \A n \in 1..hi : \A x \in T[n - 1] : k[<<x, n>>] = SweepRound(x)
    <2> SUFFICES ASSUME NEW n \in 1..hi, NEW x \in T[n - 1] PROVE k[<<x, n>>] = SweepRound(x)
      OBVIOUS
    <2>1. x \in U /\ n \in Int
      BY <1>1
    <2> HIDE DEF U, T
    <2> QED
      BY <2>1
  <1>5. \A u \in T[hi] : Left(u) = {} /\ u \in U
    <2> SUFFICES ASSUME NEW u \in T[hi] PROVE Left(u) = {} /\ u \in U
      OBVIOUS
    <2>1. u \in U /\ (Left(u) = {} \/ LiveCount(u) + hi < hi)
      BY <1>1
    <2>2. LiveCount(u) \in Nat
      BY <1>1
    <2> HIDE DEF U, Left
    <2> QED
      BY <1>1, <2>1, <2>2
  <1>6. t \in T[hi]
    <2> HIDE DEF T, k, U, hi
    <2>1. 1 \in Int /\ hi \in Int /\ 1 <= hi /\ 1 - 1 = 0
      BY <1>1
    <2>2. s \in T[1 - 1]
      BY <1>2, <2>1
    <2>3. \A n \in 1..hi : \A x \in T[n - 1] : k[<<x, n>>] \in T[n]
      BY <1>3, <1>4
    <2>4. PICK f : IsLoop(f, k, s, 1, hi) /\ \A n \in (1 - 1)..hi : f[n] \in T[n]
      BY <2>1, <2>2, <2>3, LoopRuns DEF StepsWithin
    <2>5. f = [n \in (1 - 1)..hi |-> IF n < 1 THEN s ELSE SweepRound(f[n - 1])]
      <3>1. f = [n \in (1 - 1)..hi |-> IF n < 1 THEN s ELSE k[<<f[n - 1], n>>]]
        BY <2>4 DEF IsLoop
      <3>2. \A n \in (1 - 1)..hi : ~(n < 1) => k[<<f[n - 1], n>>] = SweepRound(f[n - 1])
        BY <1>4, <2>1, <2>4
      <3> QED
        BY <3>1, <3>2
    <2> DEFINE g[n \in (1 - 1)..hi] == IF n < 1 THEN s ELSE SweepRound(g[n - 1])
    <2>6. t = g[hi]
      BY <1>1, <2>1 DEF FullSweep, For, hi
    <2>7. g = [n \in (1 - 1)..hi |-> IF n < 1 THEN s ELSE SweepRound(g[n - 1])]
      BY <2>5
    <2> HIDE DEF g
    <2>8. g[1 - 1] \in T[1 - 1]
      BY <2>1, <2>2, <2>7
    <2>9. \A n \in 1..hi : g[n - 1] \in T[n - 1] => g[n] \in T[n]
      <3>1. \A n \in 1..hi : g[n] = SweepRound(g[n - 1])
        BY <2>1, <2>7
      <3> QED
        BY <1>3, <3>1
    <2>10. \A n \in (1 - 1)..hi : g[n] \in T[n]
      BY <2>1, <2>8, <2>9, LoopStays
    <2> QED
      BY <2>1, <2>6, <2>10
  <1>7. t \in U /\ Left(t) = {}
    <2> HIDE DEF T, U, Left
    <2> QED
      BY <1>5, <1>6
  <1> QED
    BY <1>7 DEF SameProgram, Arc

-----------------------------------------------------------------------------
(* After a barrier of the inline collector *)

\* The feedback keeps the threshold inside its window.
LEMMA ThresholdStays ==
  ASSUME NEW s \in VmStates, NEW visited \in Nat, NEW reclaimed \in Int
  PROVE  NextThreshold(s, visited, reclaimed) \in ThresholdMin..ThresholdMax
  <1>1. ThresholdMin \in Nat \ {0} /\ ThresholdMax \in Nat
    BY VmAssumption
  <1>2. PICK t : t = s.threshold
    OBVIOUS
  <1>3. t \in ThresholdMin..ThresholdMax
    BY <1>2, EngineParts
  <1>4. t \div 2 \in Nat /\ t \div 2 <= t
    BY <1>1, <1>3
  <1>5. Capped(2 * t, ThresholdMax) \in ThresholdMin..ThresholdMax
    BY <1>1, <1>3 DEF Capped
  <1>6. (IF t \div 2 < ThresholdMin THEN ThresholdMin ELSE t \div 2) \in ThresholdMin..ThresholdMax
    BY <1>1, <1>3, <1>4
  <1> QED
    BY <1>2, <1>3, <1>5, <1>6 DEF NextThreshold

\* A scan and the sweep behind it: nothing is left to sweep, and the count of barriers is reset.
LEMMA ScanSettles ==
  ASSUME NEW s, NEW R, NEW h, Sound(s, R, h, 0), ~Arc(s), NEW t, t = CollectCyclesNow(s)
  PROVE  Sound(t, R, h, 0) /\ SameProgram(s, t) /\ t.eng.zero = {} /\ t.since = 0
  <1>1. PICK r : r = CollectCycles(s)
    OBVIOUS
  <1>2. PICK u : u = r.s
    OBVIOUS
  <1>3. Sound(u, R, h, 0) /\ SameProgram(s, u) /\ ~Arc(u) /\ r.visited \in Nat
    BY <1>1, <1>2, CollectEnds
  <1>4. PICK w : w = SweepZero(u)
    OBVIOUS
  <1>5. Sound(w, R, h, 0) /\ SameProgram(u, w) /\ ~Arc(w) /\ w.eng.zero = {}
    BY <1>3, <1>4, SweepEnds
  <1>6. PICK n : n = NextThreshold(s, r.visited, LiveCount(s) - LiveCount(u))
    OBVIOUS
  <1>7. n \in ThresholdMin..ThresholdMax
    <2>1. LiveCount(s) \in Nat /\ LiveCount(u) \in Nat
      BY LiveBound
    <2>2. LiveCount(s) - LiveCount(u) \in Int
      BY <2>1
    <2>3. s \in VmStates
      BY DEF Sound
    <2> QED
      BY <1>3, <1>6, <2>2, <2>3, ThresholdStays
  <1>8. t = [w EXCEPT !.threshold = n, !.since = 0, !.alloced = 0]
    BY <1>1, <1>2, <1>4, <1>6 DEF CollectCyclesNow, AfterScan
  <1>9. w \in VmStates
    BY <1>5 DEF Sound
  <1>10. /\ t \in VmStates /\ SameProgram(w, t) /\ t.since = 0
         /\ t.live = w.live /\ t.cells = w.cells /\ t.rc = w.rc /\ t.eng = w.eng /\ t.errors = w.errors
    BY <1>7, <1>8, <1>9, PutPolicy
  <1>11. SameProgram(s, t)
    BY <1>3, <1>5, <1>10 DEF SameProgram
  <1>12. Sound(t, R, h, 0)
    <2>1. Arc(t) = Arc(w)
      BY <1>10 DEF SameProgram, Arc
    <2> QED
      BY <1>5, <1>10, <2>1 DEF Sound
  <1> QED
    BY <1>5, <1>10, <1>11, <1>12

\* afterOp: candidates are swept, and the scan that is due is made.
LEMMA AfterOpGood ==
  ASSUME NEW s, NEW R, NEW h, Sound(s, R, h, 0), ~Arc(s), NEW t, t = AfterOp(s)
  PROVE  Sound(t, R, h, 0) /\ SameProgram(s, t) /\ Settled(t)
  <1>1. \A u : Interval(u) \in Nat \ {0}
    BY VmAssumption DEF Interval
  <1>2. PICK u : u = [s EXCEPT !.since = Capped(@ + 1, Interval(s))]
    OBVIOUS
  <1>3. s \in VmStates /\ s.since \in Nat
    BY EngineParts DEF Sound
  <1>4. Capped(s.since + 1, Interval(s)) \in Nat
    BY <1>1, <1>3 DEF Capped
  <1>5. /\ u \in VmStates /\ SameProgram(s, u)
        /\ u.live = s.live /\ u.cells = s.cells /\ u.rc = s.rc /\ u.eng = s.eng /\ u.errors = s.errors
    BY <1>2, <1>3, <1>4, PutSince
  <1>6. Sound(u, R, h, 0) /\ ~Arc(u)
    <2>1. Arc(u) = Arc(s)
      BY <1>5 DEF SameProgram, Arc
    <2> QED
      BY <1>5, <2>1 DEF Sound
  <1>7. PICK w : w = SweepZero(u)
    OBVIOUS
  <1>8. Sound(w, R, h, 0) /\ SameProgram(u, w) /\ ~Arc(w) /\ w.eng.zero = {}
    BY <1>6, <1>7, SweepEnds
  <1>9. t = IF CycleTrigger(w) THEN CollectCyclesNow(w) ELSE w
    BY <1>2, <1>7 DEF AfterOp, CollectIfDue
  <1>10. CASE CycleTrigger(w)
    <2>1. Sound(t, R, h, 0) /\ SameProgram(w, t) /\ t.eng.zero = {} /\ t.since = 0
      BY <1>8, <1>9, <1>10, ScanSettles
    <2>2. SameProgram(s, t)
      BY <1>5, <1>8, <2>1 DEF SameProgram
    <2> QED
      BY <1>1, <2>1, <2>2 DEF Settled
  <1>11. CASE ~CycleTrigger(w)
    <2>1. SameProgram(s, w)
      BY <1>5, <1>8 DEF SameProgram
    <2>2. w.since \in Nat
      BY <1>8, EngineParts DEF Sound
    <2>3. w.eng.marks # {} => w.since < Interval(w)
      BY <1>1, <1>11, <2>2 DEF CycleTrigger
    <2> QED
      BY <1>8, <1>9, <1>11, <2>1, <2>3 DEF Settled
  <1> QED
    BY <1>10, <1>11

\* From s, a barrier leads to t: the program is as it was, and the collector agrees with R
\* roots and the fields and has nothing left to do.
Done(s, t, R, h) == Sound(t, R, h, 0) /\ SameProgram(s, t) /\ Settled(t)

\* A message to the inline engine, and what follows it.
LEMMA ApplyGood ==
  ASSUME NEW s, NEW R, NEW h, NEW x, Sound(s, R, h, x), Settled(s), ~Arc(s),
         NEW m \in Messages, m.count = 1, m.op \in {"RootAdd", "RootRemove", "EdgeAdd", "EdgeRemove"},
         NEW a \in Cells, NEW c \in Cells, m.a = At(a), m.b = At(c), s.live[a], s.live[c],
         NEW R2, NEW h2, NEW cl, cl = View(s.cells, h), NEW cl2, cl2 = View(s.cells, h2),
         \A d \in Cells : R2[d] = IF d = c /\ ~IsEdgeOp(m) THEN R[d] + Change(m) ELSE R[d],
         \A d, k \in Cells : Hits(Fields, cl2[d], k) =
            IF d = a /\ k = c /\ IsEdgeOp(m) THEN Hits(Fields, cl[d], k) + Change(m)
            ELSE Hits(Fields, cl[d], k),
         m.op = "RootRemove" => R[c] > 0,
         m.op = "EdgeRemove" => Hits(Fields, cl[a], c) > 0,
         m.op = "EdgeAdd" => R[a] > 0,
         x = 0 \/ (x = c /\ m.op = "RootAdd"),
         NEW t, t = AfterOp([s EXCEPT !.eng = Process(s.eng, Source(s), m)])
  PROVE  Done(s, t, R2, h2)
  <1>1. s \in VmStates /\ ~s.errors /\ EngGood(s.eng, s.live, cl, R, x) /\ s.eng.zero = {}
    BY DEF Sound, Settled
  <1>2. s.live \in [Cells -> BOOLEAN] /\ Source(s) = Src(s.live)
    BY <1>1, EngineParts
  <1>3. PICK e : e = Process(s.eng, Src(s.live), m)
    OBVIOUS
  <1>4. EngGood(e, s.live, cl2, R2, 0)
    BY <1>1, <1>2, <1>3, MessageGood
  <1>5. e \in Engines /\ e.errors = {}
    BY <1>4 DEF EngGood, EngineType
  <1>6. PICK u : u = [s EXCEPT !.eng = e]
    OBVIOUS
  <1>7. /\ u \in VmStates /\ SameProgram(s, u) /\ u.eng = e
        /\ u.live = s.live /\ u.cells = s.cells /\ u.errors = s.errors
    BY <1>1, <1>5, <1>6, PutEngine
  <1>8. Sound(u, R2, h2, 0) /\ ~Arc(u)
    <2>1. ~Arc(u)
      BY <1>7 DEF SameProgram, Arc
    <2> QED
      BY <1>1, <1>4, <1>5, <1>7, <2>1 DEF Sound
  <1>9. t = AfterOp(u)
    BY <1>2, <1>3, <1>6
  <1>10. Sound(t, R2, h2, 0) /\ SameProgram(u, t) /\ Settled(t)
    BY <1>8, <1>9, AfterOpGood
  <1> QED
    BY <1>7, <1>10 DEF SameProgram, Done

-----------------------------------------------------------------------------
(* The barriers *)

\* What the counting backend knows of a sound state.
LEMMA CountsKnown ==
  ASSUME NEW s, NEW R, NEW h, NEW x, Sound(s, R, h, x), NEW cl, cl = View(s.cells, h)
  PROVE  /\ s \in VmStates /\ ~s.errors /\ s.eng.errors = {}
         /\ s.rc \in [Cells -> Nat] /\ s.live \in [Cells -> BOOLEAN]
         /\ s.cells \in [Cells -> [Fields -> Values]] /\ cl \in [Cells -> [Fields -> Values]]
         /\ Arc(s) => ArcGood(s.rc, s.live, cl, R, x)
         /\ ~Arc(s) => EngGood(s.eng, s.live, cl, R, x)
         /\ Source(s) = Src(s.live)
  <1>1. s \in VmStates /\ ~s.errors /\ s.eng.errors = {}
    BY DEF Sound
  <1>2. /\ s.rc \in [Cells -> Nat] /\ s.live \in [Cells -> BOOLEAN]
        /\ s.cells \in [Cells -> [Fields -> Values]] /\ Source(s) = Src(s.live)
    BY <1>1, EngineParts
  <1>3. cl \in [Cells -> [Fields -> Values]]
    BY <1>2, ViewIs
  <1> QED
    BY <1>1, <1>2, <1>3 DEF Sound

\* A machine with counts of its own that agree.
LEMMA CountsPut ==
  ASSUME NEW s, NEW R, NEW h, NEW x, Sound(s, R, h, x), Arc(s), NEW t \in VmStates, SameProgram(s, t),
         t.eng = s.eng, t.errors = s.errors, NEW R2, NEW h2, NEW x2,
         ArcGood(t.rc, t.live, View(t.cells, h2), R2, x2)
  PROVE  Sound(t, R2, h2, x2) /\ Settled(t)
  <1>1. Arc(t)
    BY DEF SameProgram, Arc
  <1> QED
    BY <1>1 DEF Sound, Settled

\* A retained object has one reference more.
LEMMA KeepGood ==
  ASSUME NEW s, NEW R, NEW h, NEW x, Sound(s, R, h, x), Arc(s), NEW v \in Cells, s.live[v], x \in {0, v},
         NEW R2, NEW h2, NEW cl, cl = View(s.cells, h), NEW cl2, cl2 = View(s.cells, h2),
         \A c \in Cells : R2[c] + Refs(cl2, Cells, c) = R[c] + Refs(cl, Cells, c) + One(v, c),
         \A c \in Cells : ~s.live[c] => \A f \in Fields : cl2[c][f] = 0,
         NEW t, t = Retain(s, v)
  PROVE  Done(s, t, R2, h2)
  <1> USE DEF Done
  <1>1. s \in VmStates /\ s.rc \in [Cells -> Nat] /\ ArcGood(s.rc, s.live, cl, R, x)
    BY CountsKnown
  <1>2. s.rc[v] + 1 \in Nat /\ t = [s EXCEPT !.rc[v] = s.rc[v] + 1]
    BY <1>1 DEF Retain
  <1>3. /\ t \in VmStates /\ SameProgram(s, t) /\ t.rc = [s.rc EXCEPT ![v] = s.rc[v] + 1]
        /\ t.live = s.live /\ t.cells = s.cells /\ t.eng = s.eng /\ t.errors = s.errors
    BY <1>1, <1>2, PutCount
  <1>4. \A c \in Cells : t.rc[c] = s.rc[c] + One(v, c)
    BY <1>1, <1>3 DEF One
  <1>5. ArcGood(t.rc, s.live, cl2, R2, 0)
    BY <1>1, <1>4, RetainGood
  <1> QED
    BY <1>1, <1>3, <1>5, CountsPut

\* A dropped reference: the object lives on, or it goes with all that only it kept.
LEMMA DropGood ==
  ASSUME NEW s, NEW R, NEW h, Sound(s, R, h, 0), Arc(s), NEW v \in Cells, s.rc[v] > 0,
         NEW R2, NEW h2, NEW cl, cl = View(s.cells, h), NEW cl2, cl2 = View(s.cells, h2),
         Numbers(R2),
         \A c \in Cells : R2[c] + Refs(cl2, Cells, c) + One(v, c) = R[c] + Refs(cl, Cells, c),
         \A c \in Cells : ~s.live[c] => \A f \in Fields : cl2[c][f] = 0,
         NEW o, o \in Cells => R2[o] > 0,
         AgreesBut(cl2, s.cells, o),
         NEW t, t = Drop(s, v)
  PROVE  Done(s, t, R2, h2)
  <1> USE DEF Done
  <1>1. s \in VmStates /\ s.rc \in [Cells -> Nat] /\ ArcGood(s.rc, s.live, cl, R, 0)
    BY CountsKnown
  <1>2. \A c \in Cells : Refs(cl, Cells, c) \in Nat /\ Refs(cl2, Cells, c) \in Nat
    BY RefsType
  <1>3. CASE s.rc[v] > 1
    <2>1. s.rc[v] - 1 \in Nat /\ t = [s EXCEPT !.rc[v] = s.rc[v] - 1]
      BY <1>1, <1>3 DEF Drop
    <2>2. /\ t \in VmStates /\ SameProgram(s, t) /\ t.rc = [s.rc EXCEPT ![v] = s.rc[v] - 1]
          /\ t.live = s.live /\ t.cells = s.cells /\ t.eng = s.eng /\ t.errors = s.errors
      BY <1>1, <2>1, PutCount
    <2>3. \A c \in Cells : t.rc[c] = s.rc[c] - One(v, c)
      BY <1>1, <2>2 DEF One
    <2>4. ArcGood(t.rc, s.live, cl2, R2, 0)
      BY <1>1, <1>3, <2>3, ReleaseGood DEF Numbers
    <2> QED
      BY <1>1, <2>2, <2>4, CountsPut
  <1>4. CASE s.rc[v] = 1
    <2>1. PICK u : u = [s EXCEPT !.rc[v] = 0]
      OBVIOUS
    <2>2. /\ u \in VmStates /\ SameProgram(s, u) /\ u.rc = [s.rc EXCEPT ![v] = 0]
          /\ u.live = s.live /\ u.cells = s.cells /\ u.eng = s.eng /\ u.errors = s.errors
      BY <1>1, <2>1, PutCount
    <2>3. PICK X : X = ReclaimSet(u, v)
      OBVIOUS
    <2>4. t = ArcFree(u, X)
      BY <1>4, <2>1, <2>3 DEF Drop, ArcReclaim
    <2>5. u.rc \in [Cells -> Nat] /\ u.rc[v] = 0 /\ \A c \in Cells : u.rc[c] = s.rc[c] - One(v, c)
      BY <1>1, <1>4, <2>2 DEF One
    <2>6. \A c \in Cells : u.rc[c] = R2[c] + Refs(cl2, Cells, c)
      <3> SUFFICES ASSUME NEW c \in Cells PROVE u.rc[c] = R2[c] + Refs(cl2, Cells, c)
        OBVIOUS
      <3>1. s.rc[c] = R[c] + Refs(cl, Cells, c)
        BY <1>1 DEF ArcGood
      <3>2. One(v, c) \in Nat /\ R2[c] \in Nat /\ s.rc[c] \in Nat
        BY <1>1 DEF One, Numbers
      <3> QED
        BY <1>2, <2>5, <3>1, <3>2
    <2>7. \A c \in Cells : /\ s.rc[c] > 0 => s.live[c]
                           /\ s.live[c] => s.rc[c] > 0
      BY <1>1, Sizes DEF ArcGood
    <2>8. ArcGood(u.rc, u.live, cl2, R2, v)
      BY <1>1, <2>2, <2>6, <2>7 DEF ArcGood
    <2>9. u.live[v] /\ AgreesBut(cl2, u.cells, o)
      BY <2>2, <2>7
    <2>11. /\ X \in SUBSET Cells /\ Doomed(u.rc, u.live, cl2, R2, X, v)
           /\ \A d \in Cells : RefsFrom(u, X, d) = Refs(cl2, X, d)
      <3>1. u.rc \in [Cells -> Nat] /\ u.rc[v] = 0
        BY <2>5
      <3>2. Doomed(u.rc, u.live, cl2, R2, X, v)
        BY <2>3, <2>8, <2>9, <3>1, WorklistIs
      <3>3. RefersLike(u, cl2, X)
        BY <2>3, <2>8, <2>9, <3>1, WorklistIs
      <3> QED
        BY <3>2, <3>3 DEF Doomed, RefersLike
    <2>12. PICK q : q = [d \in Cells |-> Max({0, u.rc[d] - RefsFrom(u, X, d)})]
      OBVIOUS
    <2>13. \A d \in Cells : q[d] = IF Refs(cl2, X, d) < u.rc[d] THEN u.rc[d] - Refs(cl2, X, d) ELSE 0
      <3> SUFFICES ASSUME NEW d \in Cells
                   PROVE  q[d] = IF Refs(cl2, X, d) < u.rc[d] THEN u.rc[d] - Refs(cl2, X, d) ELSE 0
        OBVIOUS
      <3>1. Refs(cl2, X, d) \in Nat /\ u.rc[d] \in Nat
        BY <2>5, <2>11, RefsType
      <3>2. PICK i : i = u.rc[d] - Refs(cl2, X, d)
        OBVIOUS
      <3>3. q[d] = Max({0, i}) /\ i \in Int
        <4>1. q[d] = Max({0, u.rc[d] - RefsFrom(u, X, d)}) /\ RefsFrom(u, X, d) = Refs(cl2, X, d)
          BY <2>11, <2>12
        <4> QED
          BY <3>1, <3>2, <4>1
      <3>4. Max({0, i}) = IF i > 0 THEN i ELSE 0
        BY <3>3 DEF Max
      <3> QED
        BY <3>1, <3>2, <3>3, <3>4
    <2>14. q \in [Cells -> Nat]
      <3>1. \A d \in Cells : q[d] \in Nat
        <4> SUFFICES ASSUME NEW d \in Cells PROVE q[d] \in Nat
          OBVIOUS
        <4>1. Refs(cl2, X, d) \in Nat /\ u.rc[d] \in Nat
          BY <2>5, <2>11, RefsType
        <4> QED
          BY <2>13, <4>1
      <3> QED
        BY <2>12, <3>1
    <2>15. PICK w : w = [u EXCEPT !.rc = q]
      OBVIOUS
    <2>16. /\ w \in VmStates /\ SameProgram(u, w) /\ w.rc = q
           /\ w.live = u.live /\ w.cells = u.cells /\ w.eng = u.eng /\ w.errors = u.errors
      BY <2>2, <2>14, <2>15, PutCounts
    <2>17. t = FreePayload(w, X)
      BY <2>4, <2>12, <2>15 DEF ArcFree
    <2>18. /\ t \in VmStates /\ SameProgram(w, t)
           /\ t.live = Without(w.live, X) /\ t.cells = Blanked(w.cells, X)
           /\ t.rc = w.rc /\ t.eng = w.eng /\ t.errors = w.errors
      BY <2>16, <2>17, PutPayload
    <2>19. SameProgram(s, t)
      BY <2>2, <2>16, <2>18 DEF SameProgram
    <2>20. ArcGood(q, Without(u.live, X), Blanked(cl2, X), R2, 0)
      BY <2>5, <2>8, <2>11, <2>13, FreedGood
    <2>21. View(t.cells, h2) = Blanked(cl2, X)
      <3>1. s.cells \in [Cells -> [Fields -> Values]]
        BY <1>1, EngineParts
      <3>2. View(Blanked(s.cells, X), h2) = Blanked(View(s.cells, h2), X)
        BY <3>1, ViewIs
      <3> QED
        BY <2>2, <2>16, <2>18, <3>2
    <2>22. ArcGood(t.rc, t.live, View(t.cells, h2), R2, 0)
      BY <2>16, <2>18, <2>20, <2>21
    <2>23. t.eng = s.eng /\ t.errors = s.errors
      BY <2>2, <2>16, <2>18
    <2> QED
      BY <2>18, <2>19, <2>22, <2>23, CountsPut
  <1>5. s.rc[v] \in Nat
    BY <1>1
  <1> QED
    BY <1>3, <1>4, <1>5

\* A rooted object is live.
LEMMA RootLives ==
  ASSUME NEW s, NEW R, NEW h, NEW x, Sound(s, R, h, x), Numbers(R), NEW c \in Cells, R[c] > 0
  PROVE  s.live[c] /\ (Arc(s) => s.rc[c] > 0)
  <1>1. PICK cl : cl = View(s.cells, h)
    OBVIOUS
  <1>2. CASE Arc(s)
    <2>1. ArcGood(s.rc, s.live, cl, R, x)
      BY <1>1, <1>2, CountsKnown
    <2>2. Refs(cl, Cells, c) \in Nat
      BY RefsType
    <2> QED
      BY <2>1, <2>2 DEF ArcGood, Numbers
  <1>3. CASE ~Arc(s)
    <2>1. EngGood(s.eng, s.live, cl, R, x)
      BY <1>1, <1>3, CountsKnown
    <2> QED
      BY <1>3, <2>1 DEF EngGood
  <1> QED
    BY <1>2, <1>3

\* Both ends of a reference are live.
LEMMA FieldLives ==
  ASSUME NEW s, NEW R, NEW h, NEW x, Sound(s, R, h, x), Numbers(R),
         NEW cl, cl = View(s.cells, h), NEW a \in Cells, NEW f \in Fields, cl[a][f] # 0
  PROVE  cl[a][f] \in Cells /\ s.live[cl[a][f]] /\ s.live[a] /\ (Arc(s) => s.rc[cl[a][f]] > 0)
  <1>1. PICK c : c = cl[a][f]
    OBVIOUS
  <1>2. c \in Cells
    <2>1. cl \in [Cells -> [Fields -> Values]]
      BY CountsKnown
    <2> QED
      BY <1>1, <2>1 DEF Values
  <1>3. CASE Arc(s)
    <2>1. ArcGood(s.rc, s.live, cl, R, x)
      BY <1>3, CountsKnown
    <2>2. Refs(cl, Cells, c) > 0 /\ Refs(cl, Cells, c) \in Nat
      BY <1>1, RefsSome, RefsType
    <2>3. s.live[a]
      BY <2>1 DEF ArcGood
    <2>4. s.rc[c] = R[c] + Refs(cl, Cells, c) /\ R[c] \in Nat /\ (s.rc[c] > 0 => s.live[c])
      BY <1>2, <2>1 DEF ArcGood, Numbers
    <2> QED
      BY <1>1, <1>2, <2>2, <2>3, <2>4
  <1>4. CASE ~Arc(s)
    <2>1. EngGood(s.eng, s.live, cl, R, x)
      BY <1>4, CountsKnown
    <2>2. Hits(Fields, cl[a], c) > 0
      BY <1>1, Sizes, HitsSome
    <2>3. s.eng.out[<<At(a), At(c)>>] > 0
      BY <1>2, <2>1, <2>2 DEF EngGood, OutExact
    <2>4. Valid(Src(s.live), At(a)) /\ Valid(Src(s.live), At(c))
      <3>1. RecordsLive(s.eng, Src(s.live))
        BY <2>1 DEF EngGood
      <3>2. PICK q : q = <<At(a), At(c)>>
        OBVIOUS
      <3>3. q \in Pairs /\ s.eng.out[q] > 0
        BY <1>2, <2>3, <3>2, OneGeneration
      <3>4. Valid(Src(s.live), q[1]) /\ Valid(Src(s.live), q[2])
        BY <3>1, <3>3 DEF RecordsLive
      <3> QED
        BY <3>2, <3>4
    <2> QED
      BY <1>1, <1>2, <1>4, <2>4, OneGeneration, SrcValid
  <1> QED
    BY <1>3, <1>4

\* A message of the machine.
LEMMA MessageIs ==
  ASSUME NEW op \in {"RootAdd", "RootRemove", "EdgeAdd", "EdgeRemove"}, NEW a \in Cells, NEW b \in Cells,
         NEW m, m = [op |-> op, a |-> <<a, 0>>, b |-> <<b, 0>>, count |-> 1]
  PROVE  /\ m \in Messages /\ m.count = 1 /\ m.op = op /\ m.a = At(a) /\ m.b = At(b)
         /\ IsEdgeOp(m) <=> op \in {"EdgeAdd", "EdgeRemove"}
         /\ Change(m) = IF op \in {"RootAdd", "EdgeAdd"} THEN 1 ELSE -1
  <1>1. At(a) \in Handles /\ At(b) \in Handles
    BY OneGeneration
  <1>2. m.count = 1 /\ m.op = op /\ m.a = At(a) /\ m.b = At(b)
    BY DEF At
  <1>3. m \in Messages
    BY <1>1 DEF Messages, At
  <1> QED
    BY <1>2, <1>3 DEF IsEdgeOp, Change

\* A root more.
LEMMA RootAddGood ==
  ASSUME NEW s, NEW R, NEW h, NEW x, Sound(s, R, h, x), Settled(s), Numbers(R), NEW v \in Cells, s.live[v],
         x \in {0, v}, NEW R2, \A c \in Cells : R2[c] = R[c] + One(v, c),
         NEW t, t = GcRootAdd(s, v)
  PROVE  Done(s, t, R2, h)
  <1>1. PICK cl : cl = View(s.cells, h)
    OBVIOUS
  <1>2. v # 0
    BY Sizes
  <1>3. CASE Arc(s)
    <2>1. t = Retain(s, v)
      BY <1>2, <1>3 DEF GcRootAdd
    <2>2. \A c \in Cells : R2[c] + Refs(cl, Cells, c) = R[c] + Refs(cl, Cells, c) + One(v, c)
      <3> SUFFICES ASSUME NEW c \in Cells
                   PROVE  R2[c] + Refs(cl, Cells, c) = R[c] + Refs(cl, Cells, c) + One(v, c)
        OBVIOUS
      <3>1. Refs(cl, Cells, c) \in Nat /\ One(v, c) \in Nat /\ R[c] \in Nat /\ R2[c] = R[c] + One(v, c)
        BY RefsType DEF One, Numbers
      <3> QED
        BY <3>1
    <2>3. \A c \in Cells : ~s.live[c] => \A f \in Fields : cl[c][f] = 0
      BY <1>1, FieldLives
    <2> QED
      BY <1>1, <1>3, <2>1, <2>2, <2>3, KeepGood
  <1>4. CASE ~Arc(s)
    <2>1. PICK m : m = [op |-> "RootAdd", a |-> <<v, 0>>, b |-> <<v, 0>>, count |-> 1]
      OBVIOUS
    <2>2. /\ m \in Messages /\ m.count = 1 /\ m.op = "RootAdd" /\ m.a = At(v) /\ m.b = At(v)
          /\ ~IsEdgeOp(m) /\ Change(m) = 1
      BY <2>1, MessageIs
    <2>3. t = AfterOp([s EXCEPT !.eng = Process(s.eng, Source(s), m)])
      BY <1>2, <1>4, <2>1 DEF GcRootAdd, Apply
    <2>4. \A d \in Cells : R2[d] = IF d = v /\ ~IsEdgeOp(m) THEN R[d] + Change(m) ELSE R[d]
      BY <2>2 DEF One, Numbers
    <2>5. \A d, k \in Cells : Hits(Fields, cl[d], k) =
            IF d = v /\ k = v /\ IsEdgeOp(m) THEN Hits(Fields, cl[d], k) + Change(m)
            ELSE Hits(Fields, cl[d], k)
      BY <2>2
    <2> QED
      BY <1>1, <1>4, <2>2, <2>3, <2>4, <2>5, ApplyGood
  <1> QED
    BY <1>3, <1>4

\* A root less.
LEMMA RootRemoveGood ==
  ASSUME NEW s, NEW R, Sound(s, R, Nowhere, 0), Settled(s), NEW v \in Cells,
         NEW R2, Numbers(R2), \A c \in Cells : R[c] = R2[c] + One(v, c),
         NEW t, t = GcRootRemove(s, v)
  PROVE  Done(s, t, R2, Nowhere)
  <1>1. PICK cl : cl = View(s.cells, Nowhere)
    OBVIOUS
  <1>2. v # 0 /\ 0 \notin Cells
    BY Sizes
  <1>3. Numbers(R) /\ R[v] > 0
    BY DEF One, Numbers
  <1>4. s.live[v] /\ (Arc(s) => s.rc[v] > 0)
    BY <1>3, RootLives
  <1>5. CASE Arc(s)
    <2>1. t = Drop(s, v)
      BY <1>2, <1>5 DEF GcRootRemove
    <2>2. \A c \in Cells : R2[c] + Refs(cl, Cells, c) + One(v, c) = R[c] + Refs(cl, Cells, c)
      <3> SUFFICES ASSUME NEW c \in Cells
                   PROVE  R2[c] + Refs(cl, Cells, c) + One(v, c) = R[c] + Refs(cl, Cells, c)
        OBVIOUS
      <3>1. Refs(cl, Cells, c) \in Nat /\ One(v, c) \in Nat /\ R2[c] \in Nat /\ R[c] = R2[c] + One(v, c)
        BY RefsType DEF One, Numbers
      <3> QED
        BY <3>1
    <2>3. \A c \in Cells : ~s.live[c] => \A f \in Fields : cl[c][f] = 0
      BY <1>1, <1>3, FieldLives
    <2>4. AgreesBut(cl, s.cells, 0)
      <3>1. s.cells \in [Cells -> [Fields -> Values]]
        BY CountsKnown
      <3>2. cl = s.cells
        BY <1>1, <3>1, ViewIs
      <3> QED
        BY <3>2 DEF AgreesBut
    <2>5. 0 \in Cells => R2[0] > 0
      BY <1>2
    <2>6. s.rc[v] > 0
      BY <1>4, <1>5
    <2> QED
      BY <1>1, <1>5, <2>1, <2>2, <2>3, <2>4, <2>5, <2>6, DropGood
  <1>6. CASE ~Arc(s)
    <2>1. PICK m : m = [op |-> "RootRemove", a |-> <<v, 0>>, b |-> <<v, 0>>, count |-> 1]
      OBVIOUS
    <2>2. /\ m \in Messages /\ m.count = 1 /\ m.op = "RootRemove" /\ m.a = At(v) /\ m.b = At(v)
          /\ ~IsEdgeOp(m) /\ Change(m) = -1
      BY <2>1, MessageIs
    <2>3. t = AfterOp([s EXCEPT !.eng = Process(s.eng, Source(s), m)])
      BY <1>2, <1>6, <2>1 DEF GcRootRemove, Apply
    <2>4. \A d \in Cells : R2[d] = IF d = v /\ ~IsEdgeOp(m) THEN R[d] + Change(m) ELSE R[d]
      BY <2>2 DEF One, Numbers
    <2>5. \A d, k \in Cells : Hits(Fields, cl[d], k) =
            IF d = v /\ k = v /\ IsEdgeOp(m) THEN Hits(Fields, cl[d], k) + Change(m)
            ELSE Hits(Fields, cl[d], k)
      BY <2>2
    <2> QED
      BY <1>1, <1>3, <1>4, <1>6, <2>2, <2>3, <2>4, <2>5, ApplyGood
  <1> QED
    BY <1>5, <1>6

\* The field at h goes over to being overwritten: its reference is dropped.
LEMMA EdgeRemoveGood ==
  ASSUME NEW s, NEW R, Sound(s, R, Nowhere, 0), Settled(s), Numbers(R),
         NEW o \in Cells, NEW f \in Fields, NEW v \in Cells, s.cells[o][f] = v, R[o] > 0,
         NEW h, h = <<o, f>>, NEW t, t = GcEdgeRemove(s, o, v)
  PROVE  Done(s, t, R, h)
  <1>1. PICK cl : cl = View(s.cells, Nowhere)
    OBVIOUS
  <1>2. PICK cl2 : cl2 = View(s.cells, h)
    OBVIOUS
  <1>3. v # 0 /\ 0 \notin Cells
    BY Sizes
  <1>4. s.cells \in [Cells -> [Fields -> Values]]
    BY CountsKnown
  <1>5. cl = s.cells /\ cl[o][f] = v
    BY <1>1, <1>4, ViewIs
  <1>6. \A a \in Cells : \A k \in Fields : cl2[a][k] = IF a = o /\ k = f THEN 0 ELSE cl[a][k]
    BY <1>2, <1>5 DEF View
  <1>7. \A c \in Cells : One(cl2[o][f], c) = 0 /\ One(cl[o][f], c) = One(v, c)
    BY <1>3, <1>5, <1>6 DEF One
  <1>8. \A c \in Cells : /\ Refs(cl2, Cells, c) + One(v, c) = Refs(cl, Cells, c)
                         /\ Hits(Fields, cl2[o], c) + One(v, c) = Hits(Fields, cl[o], c)
                         /\ \A a \in Cells \ {o} : Hits(Fields, cl2[a], c) = Hits(Fields, cl[a], c)
    <2> SUFFICES ASSUME NEW c \in Cells
                 PROVE  /\ Refs(cl2, Cells, c) + One(v, c) = Refs(cl, Cells, c)
                        /\ Hits(Fields, cl2[o], c) + One(v, c) = Hits(Fields, cl[o], c)
                        /\ \A a \in Cells \ {o} : Hits(Fields, cl2[a], c) = Hits(Fields, cl[a], c)
      OBVIOUS
    <2>1. SameBut(cl, cl2, o, f)
      BY <1>6 DEF SameBut
    <2>2. Moved(cl, cl2, o, f, c)
      BY <2>1, RefsUpdate
    <2>3. Refs(cl, Cells, c) \in Nat /\ Hits(Fields, cl[o], c) \in Nat
      BY Sizes, RefsType, HitsType
    <2> QED
      BY <1>7, <2>2, <2>3 DEF Moved
  <1>9. s.live[v] /\ s.live[o] /\ (Arc(s) => s.rc[v] > 0)
    <2>1. cl[o][f] # 0
      BY <1>3, <1>5
    <2>2. s.live[cl[o][f]] /\ s.live[o] /\ (Arc(s) => s.rc[cl[o][f]] > 0)
      BY <1>1, <2>1, FieldLives
    <2> QED
      BY <1>5, <2>2
  <1>10. CASE Arc(s)
    <2>1. t = Drop(s, v)
      BY <1>3, <1>10 DEF GcEdgeRemove
    <2>2. \A c \in Cells : R[c] + Refs(cl2, Cells, c) + One(v, c) = R[c] + Refs(cl, Cells, c)
      <3> SUFFICES ASSUME NEW c \in Cells
                   PROVE  R[c] + Refs(cl2, Cells, c) + One(v, c) = R[c] + Refs(cl, Cells, c)
        OBVIOUS
      <3>1. Refs(cl2, Cells, c) \in Nat /\ One(v, c) \in Nat /\ R[c] \in Nat
        BY RefsType DEF One, Numbers
      <3> QED
        BY <1>8, <3>1
    <2>3. \A c \in Cells : ~s.live[c] => \A k \in Fields : cl2[c][k] = 0
      BY <1>1, <1>6, FieldLives
    <2>4. AgreesBut(cl2, s.cells, o)
      BY <1>5, <1>6 DEF AgreesBut
    <2>5. s.rc[v] > 0
      BY <1>9, <1>10
    <2> QED
      BY <1>1, <1>2, <1>10, <2>1, <2>2, <2>3, <2>4, <2>5, DropGood
  <1>11. CASE ~Arc(s)
    <2>1. PICK m : m = [op |-> "EdgeRemove", a |-> <<o, 0>>, b |-> <<v, 0>>, count |-> 1]
      OBVIOUS
    <2>2. /\ m \in Messages /\ m.count = 1 /\ m.op = "EdgeRemove" /\ m.a = At(o) /\ m.b = At(v)
          /\ IsEdgeOp(m) /\ Change(m) = -1
      BY <2>1, MessageIs
    <2>3. t = AfterOp([s EXCEPT !.eng = Process(s.eng, Source(s), m)])
      BY <1>3, <1>11, <2>1 DEF GcEdgeRemove, Apply
    <2>4. \A d \in Cells : R[d] = IF d = v /\ ~IsEdgeOp(m) THEN R[d] + Change(m) ELSE R[d]
      BY <2>2
    <2>5. \A d, k \in Cells : Hits(Fields, cl2[d], k) =
            IF d = o /\ k = v /\ IsEdgeOp(m) THEN Hits(Fields, cl[d], k) + Change(m)
            ELSE Hits(Fields, cl[d], k)
      <3> SUFFICES ASSUME NEW d \in Cells, NEW k \in Cells
                   PROVE  Hits(Fields, cl2[d], k) = IF d = o /\ k = v THEN Hits(Fields, cl[d], k) - 1
                                                    ELSE Hits(Fields, cl[d], k)
        BY <2>2
      <3>1. Hits(Fields, cl2[d], k) \in Nat /\ Hits(Fields, cl[d], k) \in Nat
        BY Sizes, HitsType
      <3>2. CASE d = o
        BY <1>8, <3>1, <3>2 DEF One
      <3>3. CASE d # o
        BY <1>8, <3>3
      <3> QED
        BY <3>2, <3>3
    <2>6. Hits(Fields, cl[o], v) > 0
      <3>1. Hits(Fields, cl2[o], v) \in Nat
        BY Sizes, HitsType
      <3> QED
        BY <1>8, <3>1 DEF One
    <2> QED
      BY <1>1, <1>2, <1>9, <1>11, <2>2, <2>3, <2>4, <2>5, <2>6, ApplyGood
  <1> QED
    BY <1>10, <1>11

\* The new value of a field that is being overwritten gets its reference.
LEMMA EdgeAddGood ==
  ASSUME NEW s, NEW R, NEW h, Sound(s, R, h, 0), Settled(s), Numbers(R),
         NEW o \in Cells, NEW f \in Fields, NEW v \in Cells, s.cells[o][f] = v, R[o] > 0, R[v] > 0,
         h = <<o, f>>, NEW t, t = GcEdgeAdd(s, o, v)
  PROVE  Done(s, t, R, Nowhere)
  <1>1. PICK cl : cl = View(s.cells, h)
    OBVIOUS
  <1>2. PICK cl2 : cl2 = View(s.cells, Nowhere)
    OBVIOUS
  <1>3. v # 0 /\ 0 \notin Cells
    BY Sizes
  <1>4. s.cells \in [Cells -> [Fields -> Values]]
    BY CountsKnown
  <1>5. cl2 = s.cells /\ cl2[o][f] = v
    BY <1>2, <1>4, ViewIs
  <1>6. \A a \in Cells : \A k \in Fields : cl[a][k] = IF a = o /\ k = f THEN 0 ELSE cl2[a][k]
    BY <1>1, <1>5 DEF View
  <1>7. \A c \in Cells : One(cl[o][f], c) = 0 /\ One(cl2[o][f], c) = One(v, c)
    BY <1>3, <1>5, <1>6 DEF One
  <1>8. \A c \in Cells : /\ Refs(cl2, Cells, c) = Refs(cl, Cells, c) + One(v, c)
                         /\ Hits(Fields, cl2[o], c) = Hits(Fields, cl[o], c) + One(v, c)
                         /\ \A a \in Cells \ {o} : Hits(Fields, cl2[a], c) = Hits(Fields, cl[a], c)
    <2> SUFFICES ASSUME NEW c \in Cells
                 PROVE  /\ Refs(cl2, Cells, c) = Refs(cl, Cells, c) + One(v, c)
                        /\ Hits(Fields, cl2[o], c) = Hits(Fields, cl[o], c) + One(v, c)
                        /\ \A a \in Cells \ {o} : Hits(Fields, cl2[a], c) = Hits(Fields, cl[a], c)
      OBVIOUS
    <2>1. SameBut(cl, cl2, o, f)
      BY <1>6 DEF SameBut
    <2>2. Moved(cl, cl2, o, f, c)
      BY <2>1, RefsUpdate
    <2>3. Refs(cl2, Cells, c) \in Nat /\ Hits(Fields, cl2[o], c) \in Nat
      BY Sizes, RefsType, HitsType
    <2> QED
      BY <1>7, <2>2, <2>3 DEF Moved
  <1>9. s.live[v] /\ s.live[o]
    BY RootLives
  <1>10. CASE Arc(s)
    <2>1. t = Retain(s, v)
      BY <1>3, <1>10 DEF GcEdgeAdd
    <2>2. \A c \in Cells : R[c] + Refs(cl2, Cells, c) = R[c] + Refs(cl, Cells, c) + One(v, c)
      <3> SUFFICES ASSUME NEW c \in Cells
                   PROVE  R[c] + Refs(cl2, Cells, c) = R[c] + Refs(cl, Cells, c) + One(v, c)
        OBVIOUS
      <3>1. Refs(cl, Cells, c) \in Nat /\ One(v, c) \in Nat /\ R[c] \in Nat
        BY RefsType DEF One, Numbers
      <3> QED
        BY <1>8, <3>1
    <2>3. \A c \in Cells : ~s.live[c] => \A k \in Fields : cl2[c][k] = 0
      BY <1>1, <1>6, <1>9, FieldLives
    <2>4. 0 \in {0, v}
      OBVIOUS
    <2> QED
      BY <1>1, <1>2, <1>9, <1>10, <2>1, <2>2, <2>3, <2>4, KeepGood
  <1>11. CASE ~Arc(s)
    <2>1. PICK m : m = [op |-> "EdgeAdd", a |-> <<o, 0>>, b |-> <<v, 0>>, count |-> 1]
      OBVIOUS
    <2>2. /\ m \in Messages /\ m.count = 1 /\ m.op = "EdgeAdd" /\ m.a = At(o) /\ m.b = At(v)
          /\ IsEdgeOp(m) /\ Change(m) = 1
      BY <2>1, MessageIs
    <2>3. t = AfterOp([s EXCEPT !.eng = Process(s.eng, Source(s), m)])
      BY <1>3, <1>11, <2>1 DEF GcEdgeAdd, Apply
    <2>4. \A d \in Cells : R[d] = IF d = v /\ ~IsEdgeOp(m) THEN R[d] + Change(m) ELSE R[d]
      BY <2>2
    <2>5. \A d, k \in Cells : Hits(Fields, cl2[d], k) =
            IF d = o /\ k = v /\ IsEdgeOp(m) THEN Hits(Fields, cl[d], k) + Change(m)
            ELSE Hits(Fields, cl[d], k)
      <3> SUFFICES ASSUME NEW d \in Cells, NEW k \in Cells
                   PROVE  Hits(Fields, cl2[d], k) = IF d = o /\ k = v THEN Hits(Fields, cl[d], k) + 1
                                                    ELSE Hits(Fields, cl[d], k)
        BY <2>2
      <3>1. Hits(Fields, cl2[d], k) \in Nat /\ Hits(Fields, cl[d], k) \in Nat
        BY Sizes, HitsType
      <3>2. CASE d = o
        BY <1>8, <3>1, <3>2 DEF One
      <3>3. CASE d # o
        BY <1>8, <3>3
      <3> QED
        BY <3>2, <3>3
    <2> QED
      BY <1>1, <1>2, <1>9, <1>11, <2>2, <2>3, <2>4, <2>5, ApplyGood
  <1> QED
    BY <1>10, <1>11

-----------------------------------------------------------------------------
(* The program's references and the collector's counts *)

\* The roots the collector knows of: those the machine holds now, and e, which it holds in
\* the middle of an instruction.
Held(s, e) == [c \in Cells |-> RootsOn(s, c) + e[c]]
Good(s, e, h, x) == Sound(s, Held(s, e), h, x) /\ Settled(s)
Nothing == [c \in Cells |-> 0]

\* A barrier leads from s to t and leaves the program as it is.
Kept(s, t, e) == Good(t, e, Nowhere, 0) /\ SameProgram(s, t)

\* A value that may be stored: not a reference, or one to a live object.
Storable(s, v) == v \in Values /\ (v # 0 => s.live[v])

\* The roots are numbers.
LEMMA HeldType ==
  ASSUME NEW s \in VmStates, NEW e, Numbers(e)
  PROVE  Numbers(Held(s, e)) /\ \A c \in Cells : Held(s, e)[c] = RootsOn(s, c) + e[c] /\ RootsOn(s, c) \in Nat
  <1>1. \A c \in Cells : RootsOn(s, c) \in Nat
    BY RootsType
  <1> QED
    BY <1>1 DEF Numbers, Held

\* What a holder or the instruction refers to is live.
LEMMA HeldLives ==
  ASSUME NEW s, NEW e, NEW h, NEW x, Good(s, e, h, x), Numbers(e), NEW v \in Values,
         v # 0 => RootsOn(s, v) > 0 \/ e[v] > 0
  PROVE  Storable(s, v)
  <1>1. CASE v = 0
    BY <1>1 DEF Storable
  <1>2. CASE v # 0
    <2>1. v \in Cells
      BY <1>2 DEF Values
    <2>2. s \in VmStates
      BY DEF Good, Sound
    <2>3. Numbers(Held(s, e)) /\ Held(s, e)[v] = RootsOn(s, v) + e[v] /\ RootsOn(s, v) \in Nat
      BY <2>1, <2>2, HeldType
    <2>4. Held(s, e)[v] > 0
      BY <1>2, <2>1, <2>3 DEF Numbers
    <2>5. s.live[v]
      BY <2>1, <2>3, <2>4, RootLives DEF Good
    <2> QED
      BY <1>2, <2>5 DEF Storable
  <1> QED
    BY <1>1, <1>2

\* References move between the holders and the instruction without a barrier.
LEMMA MovesFree ==
  ASSUME NEW s, NEW e, NEW h, NEW x, Good(s, e, h, x), NEW t \in VmStates, SameStore(s, t),
         NEW e2, \A c \in Cells : RootsOn(t, c) + e2[c] = RootsOn(s, c) + e[c]
  PROVE  Good(t, e2, h, x)
  <1>1. \A c \in Cells : Held(t, e2)[c] = Held(s, e)[c]
    BY DEF Held
  <1> QED
    BY <1>1, SoundSame DEF Good

\* A program that stays the same has the same roots.
LEMMA SameRoots ==
  ASSUME NEW s, NEW t, t.regs = s.regs, t.globals = s.globals, t.data = s.data, t.frames = s.frames
  PROVE  \A c : RootsOn(t, c) = RootsOn(s, c)
  BY DEF RootsOn

\* An object that was being made and has a root by now is like any other.
LEMMA GoodRooted ==
  ASSUME NEW s, NEW e, NEW h, NEW x, Good(s, e, h, x), Numbers(e),
         x \in Cells => RootsOn(s, x) > 0 \/ e[x] > 0
  PROVE  Good(s, e, h, 0)
  <1>1. PICK R : R = Held(s, e)
    OBVIOUS
  <1>2. s \in VmStates
    BY DEF Good, Sound
  <1>3. Numbers(R) /\ (x \in Cells => R[x] > 0)
    <2>1. \A c \in Cells : R[c] = RootsOn(s, c) + e[c] /\ RootsOn(s, c) \in Nat
      BY <1>1, <1>2, HeldType
    <2>2. Numbers(R)
      BY <1>1, <1>2, HeldType
    <2> QED
      BY <2>1, <2>2 DEF Numbers
  <1>4. PICK cl : cl = View(s.cells, h)
    OBVIOUS
  <1>5. Arc(s) => ArcGood(s.rc, s.live, cl, R, 0)
    <2> SUFFICES ASSUME Arc(s) PROVE ArcGood(s.rc, s.live, cl, R, 0)
      OBVIOUS
    <2>1. ArcGood(s.rc, s.live, cl, R, x)
      BY <1>1, <1>4 DEF Good, Sound
    <2>2. \A c \in Cells : Refs(cl, Cells, c) \in Nat
      BY RefsType
    <2>3. x \in Cells => s.rc[x] > 0
      BY <1>3, <2>1, <2>2 DEF ArcGood, Numbers
    <2> QED
      BY <2>1, <2>3 DEF ArcGood
  <1>6. ~Arc(s) => EngGood(s.eng, s.live, cl, R, 0)
    <2> SUFFICES ASSUME ~Arc(s) PROVE EngGood(s.eng, s.live, cl, R, 0)
      OBVIOUS
    <2>1. EngGood(s.eng, s.live, cl, R, x)
      BY <1>1, <1>4 DEF Good, Sound
    <2>2. x \in Cells => Total(s.eng, x) # 0
      <3>1. s.eng.root \in [Cells -> Nat] /\ s.eng.edge \in [Cells -> Nat]
        BY <2>1 DEF EngGood, EngineType, Engines
      <3>2. x \in Cells => s.eng.root[x] > 0
        BY <1>3, <2>1 DEF EngGood
      <3> QED
        BY <3>1, <3>2 DEF Total
    <2>3. ZerosQueued(s.eng, s.live, 0)
      BY <2>1, <2>2 DEF EngGood, ZerosQueued
    <2> QED
      BY <2>1, <2>3 DEF EngGood
  <1> QED
    BY <1>1, <1>4, <1>5, <1>6 DEF Good, Sound

\* A root more, of a value that may not be a reference ...
LEMMA AddRoot ==
  ASSUME NEW s, NEW e, NEW x, Good(s, e, Nowhere, x), Numbers(e), NEW v, Storable(s, v), x \in {0, v},
         NEW e2, \A c \in Cells : e2[c] = e[c] + One(v, c), NEW t, t = GcRootAdd(s, v)
  PROVE  Kept(s, t, e2) /\ Numbers(e2)
  <1>1. s \in VmStates /\ Numbers(e2) /\ 0 \notin Cells
    BY Sizes DEF Good, Sound, Numbers, One
  <1>2. CASE v = 0
    <2>1. t = s /\ x = 0
      BY <1>2 DEF GcRootAdd
    <2>2. \A c \in Cells : e2[c] = e[c]
      BY <1>1, <1>2 DEF One, Numbers
    <2>3. Good(s, e2, Nowhere, 0)
      <3>1. SameStore(s, s)
        BY DEF SameStore
      <3>2. \A c \in Cells : RootsOn(s, c) + e2[c] = RootsOn(s, c) + e[c]
        BY <2>2
      <3> QED
        BY <1>1, <2>1, <3>1, <3>2, MovesFree
    <2> QED
      BY <1>1, <2>1, <2>3 DEF Kept, SameProgram
  <1>3. CASE v # 0
    <2>1. v \in Cells /\ s.live[v]
      BY <1>3 DEF Storable, Values
    <2>2. PICK R : R = Held(s, e)
      OBVIOUS
    <2>3. PICK R2 : R2 = Held(s, e2)
      OBVIOUS
    <2>4. Numbers(R) /\ Sound(s, R, Nowhere, x) /\ Settled(s)
      BY <1>1, <2>2, HeldType DEF Good
    <2>5. \A c \in Cells : R2[c] = R[c] + One(v, c)
      <3> SUFFICES ASSUME NEW c \in Cells PROVE R2[c] = R[c] + One(v, c)
        OBVIOUS
      <3>1. /\ R[c] = RootsOn(s, c) + e[c] /\ R2[c] = RootsOn(s, c) + e2[c]
            /\ RootsOn(s, c) \in Nat
        BY <1>1, <2>2, <2>3, HeldType
      <3>2. e[c] \in Nat /\ One(v, c) \in Nat
        BY DEF Numbers, One
      <3> QED
        BY <3>1, <3>2
    <2>6. Done(s, t, R2, Nowhere)
      BY <2>1, <2>4, <2>5, RootAddGood
    <2>7. Sound(t, R2, Nowhere, 0) /\ SameProgram(s, t) /\ Settled(t)
      BY <2>6 DEF Done
    <2>8. Held(t, e2) = R2
      <3>1. \A c : RootsOn(t, c) = RootsOn(s, c)
        BY <2>7, SameRoots DEF SameProgram
      <3> QED
        BY <2>3, <3>1 DEF Held
    <2> QED
      BY <1>1, <2>7, <2>8 DEF Kept, Good
  <1> QED
    BY <1>2, <1>3

\* ... or a root less.
LEMMA RemoveRoot ==
  ASSUME NEW s, NEW e, Good(s, e, Nowhere, 0), NEW v \in Values,
         NEW e2, Numbers(e2), \A c \in Cells : e[c] = e2[c] + One(v, c), NEW t, t = GcRootRemove(s, v)
  PROVE  Kept(s, t, e2)
  <1>1. s \in VmStates /\ Numbers(e) /\ 0 \notin Cells
    BY Sizes DEF Good, Sound, Numbers, One
  <1>2. CASE v = 0
    <2>1. t = s
      BY <1>2 DEF GcRootRemove
    <2>2. \A c \in Cells : e2[c] = e[c]
      BY <1>1, <1>2 DEF One, Numbers
    <2>3. Good(s, e2, Nowhere, 0)
      <3>1. SameStore(s, s)
        BY DEF SameStore
      <3>2. \A c \in Cells : RootsOn(s, c) + e2[c] = RootsOn(s, c) + e[c]
        BY <2>2
      <3> QED
        BY <1>1, <2>1, <3>1, <3>2, MovesFree
    <2> QED
      BY <1>1, <2>1, <2>3 DEF Kept, SameProgram
  <1>3. CASE v # 0
    <2>1. v \in Cells
      BY <1>3 DEF Values
    <2>2. PICK R : R = Held(s, e)
      OBVIOUS
    <2>3. PICK R2 : R2 = Held(s, e2)
      OBVIOUS
    <2>4. Numbers(R2) /\ Sound(s, R, Nowhere, 0) /\ Settled(s)
      BY <1>1, <2>2, <2>3, HeldType DEF Good
    <2>5. \A c \in Cells : R[c] = R2[c] + One(v, c)
      <3> SUFFICES ASSUME NEW c \in Cells PROVE R[c] = R2[c] + One(v, c)
        OBVIOUS
      <3>1. R[c] = RootsOn(s, c) + e[c] /\ RootsOn(s, c) \in Nat
        BY <1>1, <2>2, HeldType
      <3>2. R2[c] = RootsOn(s, c) + e2[c]
        BY <1>1, <2>3, HeldType
      <3>3. e2[c] \in Nat /\ One(v, c) \in Nat
        BY DEF Numbers, One
      <3> QED
        BY <3>1, <3>2, <3>3
    <2>6. Done(s, t, R2, Nowhere)
      BY <2>1, <2>4, <2>5, RootRemoveGood
    <2>7. Sound(t, R2, Nowhere, 0) /\ SameProgram(s, t) /\ Settled(t)
      BY <2>6 DEF Done
    <2>8. Held(t, e2) = R2
      <3>1. \A c : RootsOn(t, c) = RootsOn(s, c)
        BY <2>7, SameRoots DEF SameProgram
      <3> QED
        BY <2>3, <3>1 DEF Held
    <2> QED
      BY <1>1, <2>7, <2>8 DEF Kept, Good
  <1> QED
    BY <1>2, <1>3

-----------------------------------------------------------------------------
(* Registers and globals *)

\* Nothing but registers changes, or nothing but globals.
OnlyRegs(s, t) ==
    /\ t.gc = s.gc /\ t.globals = s.globals /\ t.data = s.data
    /\ t.frames = s.frames /\ t.handlers = s.handlers /\ t.status = s.status
OnlyGlobals(s, t) ==
    /\ t.gc = s.gc /\ t.regs = s.regs /\ t.data = s.data
    /\ t.frames = s.frames /\ t.handlers = s.handlers /\ t.status = s.status

\* From s, value v is written to register r, or to global g.
WroteReg(s, t, r, v) == OnlyRegs(s, t) /\ t.regs = [s.regs EXCEPT ![r] = v]
WroteGlobal(s, t, g, v) == OnlyGlobals(s, t) /\ t.globals = [s.globals EXCEPT ![g] = v]

\* A register takes a value: the new root is there before the old one goes.
LEMMA SetRegGood ==
  ASSUME NEW s, NEW e, NEW x, Good(s, e, Nowhere, x), Numbers(e), NEW r \in Regs,
         NEW v, Storable(s, v), x \in {0, v}, NEW t, t = SetReg(s, r, v)
  PROVE  Good(t, e, Nowhere, 0) /\ WroteReg(s, t, r, v)
  <1>1. s \in VmStates /\ v \in Values /\ 0 \notin Cells
    BY Sizes DEF Good, Sound, Storable
  <1>2. s.regs \in [Regs -> Values]
    BY <1>1, Holders
  <1>3. CASE s.regs[r] = v
    <2>1. t = s /\ t.regs = [s.regs EXCEPT ![r] = v]
      BY <1>2, <1>3 DEF SetReg
    <2>2. x \in Cells => RootsOn(s, x) > 0 \/ e[x] > 0
      BY <1>1, <1>3, RootsType
    <2>3. Good(s, e, Nowhere, 0)
      BY <2>2, GoodRooted
    <2> QED
      BY <2>1, <2>3 DEF WroteReg, OnlyRegs
  <1>4. CASE s.regs[r] # v
    <2>1. PICK old : old = s.regs[r]
      OBVIOUS
    <2>2. PICK a : a = GcRootAdd(s, v)
      OBVIOUS
    <2>3. PICK b : b = [a EXCEPT !.regs[r] = v]
      OBVIOUS
    <2>4. t = GcRootRemove(b, old)
      BY <1>4, <2>1, <2>2, <2>3 DEF SetReg
    <2>5. PICK e1 : e1 = [c \in Cells |-> e[c] + One(v, c)]
      OBVIOUS
    <2>6. PICK e2 : e2 = [c \in Cells |-> e[c] + One(old, c)]
      OBVIOUS
    <2>7. Kept(s, a, e1)
      <3>1. \A c \in Cells : e1[c] = e[c] + One(v, c)
        BY <2>5
      <3> QED
        BY <2>2, <3>1, AddRoot
    <2>8. Good(a, e1, Nowhere, 0) /\ SameProgram(s, a) /\ a \in VmStates
      BY <2>7 DEF Kept, Good, Sound
    <2>9. /\ b \in VmStates /\ SameStore(a, b) /\ b.regs = [a.regs EXCEPT ![r] = v]
          /\ b.globals = a.globals /\ b.data = a.data /\ b.frames = a.frames
          /\ b.handlers = a.handlers /\ b.status = a.status
      <3>1. a \in VmStates /\ v \in Values
        BY <1>1, <2>8
      <3> QED
        BY <2>3, <3>1 DEF VmStates, SameStore
    <2>10. \A c \in Cells : RootsOn(b, c) + e2[c] = RootsOn(a, c) + e1[c]
      <3> SUFFICES ASSUME NEW c \in Cells PROVE RootsOn(b, c) + e2[c] = RootsOn(a, c) + e1[c]
        OBVIOUS
      <3>1. RootsOn(b, c) + One(a.regs[r], c) = RootsOn(a, c) + One(v, c)
        BY <2>8, <2>9, RootsReg
      <3>2. a.regs[r] = old
        BY <2>1, <2>8 DEF SameProgram
      <3>3. RootsOn(b, c) \in Nat /\ RootsOn(a, c) \in Nat
        BY <2>8, <2>9, RootsType
      <3>4. e[c] \in Nat /\ One(v, c) \in Nat /\ One(old, c) \in Nat
        BY DEF Numbers, One
      <3>5. e1[c] = e[c] + One(v, c) /\ e2[c] = e[c] + One(old, c)
        BY <2>5, <2>6
      <3> QED
        BY <3>1, <3>2, <3>3, <3>4, <3>5
    <2>11. Good(b, e2, Nowhere, 0)
      BY <2>8, <2>9, <2>10, MovesFree
    <2>12. Kept(b, t, e)
      <3>1. \A c \in Cells : e2[c] = e[c] + One(old, c)
        BY <2>6
      <3>2. old \in Values
        BY <1>2, <2>1
      <3> QED
        BY <2>4, <2>11, <3>1, <3>2, RemoveRoot
    <2> QED
      BY <2>8, <2>9, <2>12 DEF Kept, SameProgram, WroteReg, OnlyRegs, SameStore
  <1> QED
    BY <1>3, <1>4

\* A global likewise.
LEMMA SetGlobalGood ==
  ASSUME NEW s, NEW e, Good(s, e, Nowhere, 0), Numbers(e), NEW g \in Globals,
         NEW v, Storable(s, v), NEW t, t = SetGlobal(s, g, v)
  PROVE  Good(t, e, Nowhere, 0) /\ WroteGlobal(s, t, g, v)
  <1>1. s \in VmStates /\ v \in Values
    BY DEF Good, Sound, Storable
  <1>2. s.globals \in [Globals -> Values]
    BY <1>1, Holders
  <1>3. CASE s.globals[g] = v
    <2>1. t = s /\ t.globals = [s.globals EXCEPT ![g] = v]
      BY <1>2, <1>3 DEF SetGlobal
    <2> QED
      BY <2>1 DEF WroteGlobal, OnlyGlobals
  <1>4. CASE s.globals[g] # v
    <2>1. PICK old : old = s.globals[g]
      OBVIOUS
    <2>2. PICK a : a = GcRootAdd(s, v)
      OBVIOUS
    <2>3. PICK b : b = [a EXCEPT !.globals[g] = v]
      OBVIOUS
    <2>4. t = GcRootRemove(b, old)
      BY <1>4, <2>1, <2>2, <2>3 DEF SetGlobal
    <2>5. PICK e1 : e1 = [c \in Cells |-> e[c] + One(v, c)]
      OBVIOUS
    <2>6. PICK e2 : e2 = [c \in Cells |-> e[c] + One(old, c)]
      OBVIOUS
    <2>7. Kept(s, a, e1)
      <3>1. \A c \in Cells : e1[c] = e[c] + One(v, c)
        BY <2>5
      <3>2. 0 \in {0, v}
        OBVIOUS
      <3> QED
        BY <2>2, <3>1, <3>2, AddRoot
    <2>8. Good(a, e1, Nowhere, 0) /\ SameProgram(s, a) /\ a \in VmStates
      BY <2>7 DEF Kept, Good, Sound
    <2>9. /\ b \in VmStates /\ SameStore(a, b) /\ b.globals = [a.globals EXCEPT ![g] = v]
          /\ b.regs = a.regs /\ b.data = a.data /\ b.frames = a.frames
          /\ b.handlers = a.handlers /\ b.status = a.status
      <3>1. a \in VmStates /\ v \in Values
        BY <1>1, <2>8
      <3> QED
        BY <2>3, <3>1 DEF VmStates, SameStore
    <2>10. \A c \in Cells : RootsOn(b, c) + e2[c] = RootsOn(a, c) + e1[c]
      <3> SUFFICES ASSUME NEW c \in Cells PROVE RootsOn(b, c) + e2[c] = RootsOn(a, c) + e1[c]
        OBVIOUS
      <3>1. RootsOn(b, c) + One(a.globals[g], c) = RootsOn(a, c) + One(v, c)
        BY <2>8, <2>9, RootsGlobal
      <3>2. a.globals[g] = old
        BY <2>1, <2>8 DEF SameProgram
      <3>3. RootsOn(b, c) \in Nat /\ RootsOn(a, c) \in Nat
        BY <2>8, <2>9, RootsType
      <3>4. e[c] \in Nat /\ One(v, c) \in Nat /\ One(old, c) \in Nat
        BY DEF Numbers, One
      <3>5. e1[c] = e[c] + One(v, c) /\ e2[c] = e[c] + One(old, c)
        BY <2>5, <2>6
      <3> QED
        BY <3>1, <3>2, <3>3, <3>4, <3>5
    <2>11. Good(b, e2, Nowhere, 0)
      BY <2>8, <2>9, <2>10, MovesFree
    <2>12. Kept(b, t, e)
      <3>1. \A c \in Cells : e2[c] = e[c] + One(old, c)
        BY <2>6
      <3>2. old \in Values
        BY <1>2, <2>1
      <3> QED
        BY <2>4, <2>11, <3>1, <3>2, RemoveRoot
    <2> QED
      BY <2>8, <2>9, <2>12 DEF Kept, SameProgram, WroteGlobal, OnlyGlobals, SameStore
  <1> QED
    BY <1>3, <1>4

\* A value the instruction holds a root of goes to a register, and the root is given up.
LEMMA HandedGood ==
  ASSUME NEW s, NEW e, Good(s, e, Nowhere, 0), NEW r \in Regs, NEW v \in Values,
         NEW e2, Numbers(e2), \A c \in Cells : e[c] = e2[c] + One(v, c),
         NEW t, t = GcRootRemove(SetReg(s, r, v), v)
  PROVE  Good(t, e2, Nowhere, 0) /\ WroteReg(s, t, r, v)
  <1>1. Numbers(e) /\ (v # 0 => e[v] > 0)
    BY DEF Numbers, One, Values
  <1>2. Storable(s, v)
    BY <1>1, HeldLives
  <1>3. PICK u : u = SetReg(s, r, v)
    OBVIOUS
  <1>4. Good(u, e, Nowhere, 0) /\ WroteReg(s, u, r, v)
    <2>1. 0 \in {0, v}
      OBVIOUS
    <2> QED
      BY <1>1, <1>2, <1>3, <2>1, SetRegGood
  <1>5. t = GcRootRemove(u, v)
    BY <1>3
  <1>6. Kept(u, t, e2)
    BY <1>4, <1>5, RemoveRoot
  <1> QED
    BY <1>4, <1>6 DEF Kept, SameProgram, WroteReg, OnlyRegs

-----------------------------------------------------------------------------
(* A new object *)

\* It is counted nowhere yet, but the next barrier will root it.
LEMMA AllocGood ==
  ASSUME NEW s, NEW e, Good(s, e, Nowhere, 0), Numbers(e), FreeHandles(s) # {},
         NEW o, o = Min(FreeHandles(s)), NEW t, t = AllocObject(s)
  PROVE  /\ o \in Cells /\ Storable(t, o) /\ Good(t, e, Nowhere, o) /\ SameProgram(s, t)
  <1>1. s \in VmStates /\ ~s.errors /\ s.eng.errors = {}
    BY DEF Good, Sound
  <1>2. o \in Cells /\ ~s.live[o] /\ o \in Values /\ o # 0
    <2>1. FreeHandles(s) \in SUBSET Cells
      BY DEF FreeHandles
    <2>2. o \in FreeHandles(s)
      BY <2>1, LeastSlot
    <2> QED
      BY <2>2, Sizes DEF FreeHandles, Values
  <1>3. PICK p : p = IF s.peak > LiveCount(s) THEN s.peak
                     ELSE Capped(LiveCount(s) + 1, Tracked(s, HeapTarget))
    OBVIOUS
  <1>4. PICK n : n = Capped(s.alloced + 1, Tracked(s, AllocThreshold))
    OBVIOUS
  <1>5. p \in Nat /\ n \in Nat
    <2>1. s.peak \in Nat /\ s.alloced \in Nat
      BY <1>1 DEF VmStates
    <2>2. LiveCount(s) \in Nat
      BY LiveBound
    <2>3. HeapTarget \in Nat /\ AllocThreshold \in Nat
      BY VmAssumption
    <2> QED
      BY <1>3, <1>4, <2>1, <2>2, <2>3 DEF Capped, Tracked
  <1>6. t = [s EXCEPT !.live[o] = TRUE, !.rc[o] = 0, !.peak = p, !.alloced = n]
    BY <1>3, <1>4 DEF AllocObject
  <1>7. /\ t \in VmStates /\ SameProgram(s, t)
        /\ t.live = [s.live EXCEPT ![o] = TRUE] /\ t.rc = [s.rc EXCEPT ![o] = 0]
        /\ t.cells = s.cells /\ t.eng = s.eng /\ t.errors = s.errors /\ t.since = s.since
    <2>1. PICK lv : lv = [s.live EXCEPT ![o] = TRUE]
      OBVIOUS
    <2>2. PICK rc : rc = [s.rc EXCEPT ![o] = 0]
      OBVIOUS
    <2>3. lv \in [Cells -> BOOLEAN] /\ rc \in [Cells -> Nat]
      BY <1>1, <1>2, <2>1, <2>2, EngineParts
    <2>4. t = [s EXCEPT !.live = lv, !.rc = rc, !.peak = p, !.alloced = n]
      BY <1>6, <2>1, <2>2
    <2>5. t \in VmStates
      <3>1. PICK u : u = [s EXCEPT !.live = lv, !.rc = rc]
        OBVIOUS
      <3>2. u \in VmStates
        BY <1>1, <2>3, <3>1 DEF VmStates
      <3>3. t = [u EXCEPT !.peak = p, !.alloced = n]
        BY <2>4, <3>1
      <3> QED
        BY <1>5, <3>2, <3>3 DEF VmStates
    <2>6. t.live = lv /\ t.rc = rc
      BY <1>1, <2>4 DEF VmStates
    <2>7. SameProgram(s, t)
      BY <1>1, <2>4 DEF VmStates, SameProgram
    <2>8. t.cells = s.cells /\ t.eng = s.eng /\ t.errors = s.errors /\ t.since = s.since
      BY <1>1, <2>4 DEF VmStates
    <2> QED
      BY <2>1, <2>2, <2>5, <2>6, <2>7, <2>8
  <1>8. s.live \in [Cells -> BOOLEAN] /\ s.rc \in [Cells -> Nat] /\ s.eng \in Engines
    BY <1>1, EngineParts
  <1>9. \A c \in Cells : t.live[c] <=> s.live[c] \/ c = o
    BY <1>7, <1>8
  <1>10. PICK R : R = Held(s, e)
    OBVIOUS
  <1>11. Numbers(R) /\ Sound(s, R, Nowhere, 0) /\ Settled(s)
    BY <1>1, <1>10, HeldType DEF Good
  <1>12. PICK cl : cl = View(s.cells, Nowhere)
    OBVIOUS
  <1>13. Arc(s) => ArcGood(t.rc, t.live, cl, R, o)
    <2> SUFFICES ASSUME Arc(s) PROVE ArcGood(t.rc, t.live, cl, R, o)
      OBVIOUS
    <2>1. ArcGood(s.rc, s.live, cl, R, 0)
      BY <1>11, <1>12 DEF Sound
    <2>2. s.rc[o] = 0
      BY <1>2, <1>8, <2>1 DEF ArcGood
    <2>3. \A c \in Cells : t.rc[c] = s.rc[c]
      BY <1>7, <1>8, <2>2
    <2>4. 0 \notin Cells
      BY Sizes
    <2> QED
      BY <1>9, <2>1, <2>3, <2>4 DEF ArcGood
  <1>14. ~Arc(s) => EngGood(s.eng, t.live, cl, R, o)
    <2> SUFFICES ASSUME ~Arc(s) PROVE EngGood(s.eng, t.live, cl, R, o)
      OBVIOUS
    <2>1. PICK g : g = s.eng
      OBVIOUS
    <2>2. EngGood(g, s.live, cl, R, 0)
      BY <1>11, <1>12, <2>1 DEF Sound
    <2>3. EngineType(g) /\ EdgesExact(g) /\ RecordsLive(g, Src(s.live)) /\ Anchored(g, s.live)
      BY <2>2 DEF EngGood
    <2>4. RecordsLive(g, Src(t.live))
      <3> SUFFICES ASSUME NEW q \in Pairs, g.out[q] > 0
                   PROVE  Valid(Src(t.live), q[1]) /\ Valid(Src(t.live), q[2])
        BY DEF RecordsLive
      <3>1. q[1] \in Handles /\ q[2] \in Handles /\ Index(q[1]) \in Cells /\ Index(q[2]) \in Cells
        BY OneGeneration DEF Pairs
      <3>2. s.live[Index(q[1])] /\ s.live[Index(q[2])]
        BY <2>3, <3>1, SrcValid DEF RecordsLive
      <3> QED
        BY <1>9, <3>1, <3>2, SrcValid
    <2>5. Total(g, o) = 0
      <3>1. g.root[o] = 0
        BY <1>2, <1>11, <2>2 DEF EngGood, Numbers
      <3>2. g.edge[o] = 0
        <4> SUFFICES ASSUME g.edge[o] # 0 PROVE FALSE
          OBVIOUS
        <4>1. PICK y \in Cells : Refers(g, y, o)
          BY <1>2, <2>3, CountedHasReferrer
        <4>2. Src(s.live).live[o]
          BY <2>3, <4>1, ReferrerLives
        <4> QED
          BY <1>2, <4>2 DEF Src
      <3> QED
        BY <3>1, <3>2 DEF Total
    <2>6. Anchored(g, t.live)
      <3> SUFFICES ASSUME NEW X \in SUBSET Cells, Covers(g, t.live, X) PROVE AllIn(t.live, X)
        BY DEF Anchored
      <3>1. Covers(g, s.live, X)
        BY <1>9 DEF Covers
      <3>2. AllIn(s.live, X)
        BY <2>3, <3>1 DEF Anchored
      <3>3. o \in X
        BY <1>2, <1>9, <2>5 DEF Covers, Anchor
      <3> QED
        BY <1>9, <3>2, <3>3 DEF AllIn
    <2>7. MarksQueued(g, t.live)
      <3>1. g.marks \subseteq Cells
        BY <2>3 DEF EngineType, Engines
      <3> QED
        BY <1>9, <2>2, <3>1 DEF EngGood, MarksQueued
    <2>8. ZerosQueued(g, t.live, o)
      BY <1>9, <2>2, Sizes DEF EngGood, ZerosQueued
    <2>9. \A c \in Cells : g.root[c] = R[c] /\ (R[c] > 0 => t.live[c])
      BY <1>9, <2>2 DEF EngGood
    <2> QED
      BY <2>1, <2>2, <2>4, <2>6, <2>7, <2>8, <2>9 DEF EngGood
  <1>15. Sound(t, R, Nowhere, o) /\ Settled(t)
    <2>1. Arc(t) <=> Arc(s)
      BY <1>7 DEF SameProgram, Arc
    <2>2. Interval(t) = Interval(s)
      BY <1>7 DEF SameProgram, Interval, Adaptive
    <2>3. Settled(t)
      BY <1>7, <1>11, <2>1, <2>2 DEF Settled
    <2> QED
      BY <1>1, <1>7, <1>12, <1>13, <1>14, <2>1, <2>3 DEF Sound
  <1>16. Held(t, e) = R
    <2>1. \A c : RootsOn(t, c) = RootsOn(s, c)
      BY <1>7, SameRoots DEF SameProgram
    <2> QED
      BY <1>10, <2>1 DEF Held
  <1>17. Storable(t, o)
    BY <1>2, <1>9 DEF Storable
  <1> QED
    BY <1>2, <1>7, <1>15, <1>16, <1>17 DEF Good

-----------------------------------------------------------------------------
(* Stacks *)

\* Taking the last element off a stack leaves the others in place.
LEMMA PopIs ==
  ASSUME NEW S, NEW q \in Seq(S), q # <<>>, NEW p, p = Pop(q)
  PROVE  p \in Seq(S) /\ Top(q) \in S /\ Longer(q, p, Len(q)) /\ Top(q) = q[Len(q)]
  <1>1. Len(q) \in Nat \ {0}
    BY EmptySeq, LenProperties
  <1>2. \A i \in 1..Len(q) : q[i] \in S
    BY ElementOfSeq
  <1>3. PICK n : n = Len(q) - 1
    OBVIOUS
  <1>4. n \in Int /\ 1 \in Int /\ \A i \in 1..n : q[i] \in S
    BY <1>1, <1>2, <1>3
  <1>5. p = SubSeq(q, 1, n)
    BY <1>3 DEF Pop
  <1>6. p \in Seq(S)
    BY <1>4, <1>5, SubSeqProperties
  <1>7. Len(p) = IF 1 <= n THEN n - 1 + 1 ELSE 0
    BY <1>4, <1>5, SubSeqProperties
  <1>8. \A i \in 1..(n - 1 + 1) : p[i] = q[1 + i - 1]
    BY <1>4, <1>5, SubSeqProperties
  <1>9. Len(p) = Len(q) - 1 /\ \A i \in 1..(Len(q) - 1) : p[i] = q[i]
    BY <1>1, <1>3, <1>7, <1>8
  <1> QED
    BY <1>1, <1>2, <1>6, <1>9 DEF Longer, Top

\* A saved frame holds values for registers.
LEMMA FrameIs ==
  ASSUME NEW F \in SavedFrames
  PROVE  /\ DOMAIN F \subseteq FirstLocal..LastLocal /\ DOMAIN F \subseteq Regs
         /\ IsFiniteSet(DOMAIN F)
         /\ \A r \in DOMAIN F : F[r] \in Values
  <1>1. PICK last \in NArgs..LastLocal : F \in [FirstLocal..last -> Values]
    BY DEF SavedFrames
  <1>2. DOMAIN F = FirstLocal..last /\ \A r \in DOMAIN F : F[r] \in Values
    BY <1>1
  <1>3. FirstLocal..last \subseteq FirstLocal..LastLocal /\ FirstLocal..last \subseteq Regs
    BY <1>1, Sizes DEF Regs
  <1>4. IsFiniteSet(Regs)
    BY Sizes
  <1> QED
    BY <1>2, <1>3, <1>4, FS_Subset

-----------------------------------------------------------------------------
(* Calls *)

\* The locals from FirstLocal up to n, as roots of their own.
SavedTo(regs, n) == [c \in Cells |-> Hits(FirstLocal..n, regs, c)]

\* One local more.
LEMMA SavedStep ==
  ASSUME NEW n \in Int, n >= FirstLocal, NEW regs, NEW c \in Cells
  PROVE  SavedTo(regs, n)[c] = SavedTo(regs, n - 1)[c] + One(regs[n], c)
  <1>1. FirstLocal \in Int
    BY Sizes
  <1>2. PICK S : S = FirstLocal..n
    OBVIOUS
  <1>3. IsFiniteSet(S) /\ n \in S /\ S \ {n} = FirstLocal..(n - 1)
    <2>1. \A a, b \in Int : IsFiniteSet(a..b)
      BY FS_Interval
    <2> QED
      BY <1>1, <1>2, <2>1
  <1>4. Hits(S, regs, c) = Hits(S \ {n}, regs, c) + One(regs[n], c)
    BY <1>3, HitsWithout
  <1> QED
    BY <1>2, <1>3, <1>4 DEF SavedTo

\* No local.
LEMMA SavedNone ==
  ASSUME NEW n \in Int, n < FirstLocal, NEW regs
  PROVE  SavedTo(regs, n) = Nothing
  <1>1. FirstLocal..n = {}
    BY Sizes
  <1>2. \A c \in Cells : Hits(FirstLocal..n, regs, c) = 0
    BY <1>1, FS_EmptySet DEF Hits
  <1> QED
    BY <1>2 DEF SavedTo, Nothing

\* Counts of saved locals are numbers.
LEMMA SavedNumbers ==
  ASSUME NEW n \in Int, NEW regs
  PROVE  Numbers(SavedTo(regs, n)) /\ Numbers(Nothing)
  <1>1. IsFiniteSet(FirstLocal..n)
    <2>1. \A a, b \in Int : IsFiniteSet(a..b)
      BY FS_Interval
    <2> QED
      BY <2>1, Sizes
  <1>2. \A c \in Cells : Hits(FirstLocal..n, regs, c) \in Nat
    BY <1>1, HitsType
  <1> QED
    BY <1>2 DEF SavedTo, Numbers, Nothing

\* A call saves the caller's locals one by one.
LEMMA SaveLocals ==
  ASSUME NEW s, Good(s, Nothing, Nowhere, 0), NEW last \in NArgs..LastLocal,
         NEW w, w = For(SaveLocal, s, FirstLocal, last)
  PROVE  Kept(s, w, SavedTo(s.regs, last))
  <1> DEFINE U == {u \in VmStates : SameProgram(s, u)}
             T == [n \in Int |-> {u \in U : Good(u, SavedTo(s.regs, n), Nowhere, 0)}]
             k == [p \in U \X Int |-> SaveLocal(p[1], p[2])]
  <1>1. FirstLocal \in Nat /\ last \in Int /\ FirstLocal - 1 \in Int /\ FirstLocal - 1 < FirstLocal
    BY Sizes
  <1>2. s \in T[FirstLocal - 1]
    <2>1. s \in U
      BY DEF Good, Sound, SameProgram
    <2>2. SavedTo(s.regs, FirstLocal - 1) = Nothing
      BY <1>1, SavedNone
    <2> HIDE DEF U
    <2> QED
      BY <1>1, <2>1, <2>2
  <1>3. \A n \in FirstLocal..last : \A u \in T[n - 1] : SaveLocal(u, n) \in T[n]
    <2> SUFFICES ASSUME NEW n \in FirstLocal..last, NEW u \in T[n - 1] PROVE SaveLocal(u, n) \in T[n]
      OBVIOUS
    <2>1. n \in Int /\ n - 1 \in Int /\ n >= FirstLocal /\ n \in Regs
      BY <1>1, Sizes DEF Regs
    <2>2. u \in VmStates /\ SameProgram(s, u) /\ Good(u, SavedTo(s.regs, n - 1), Nowhere, 0)
      BY <2>1
    <2>3. PICK v : v = u.regs[n]
      OBVIOUS
    <2>4. PICK e : e = SavedTo(s.regs, n - 1)
      OBVIOUS
    <2>5. PICK e2 : e2 = SavedTo(s.regs, n)
      OBVIOUS
    <2>6. Numbers(e) /\ Good(u, e, Nowhere, 0)
      BY <2>1, <2>2, <2>4, SavedNumbers
    <2>7. Storable(u, v)
      <3>1. v \in Values
        BY <2>1, <2>2, <2>3, Holders
      <3>2. RootsOn(u, v) > 0
        BY <2>1, <2>2, <2>3, RootsType
      <3> QED
        BY <2>6, <3>1, <3>2, HeldLives
    <2>8. \A c \in Cells : e2[c] = e[c] + One(v, c)
      <3>1. v = s.regs[n]
        BY <2>2, <2>3 DEF SameProgram
      <3> QED
        BY <2>1, <2>4, <2>5, <3>1, SavedStep
    <2>9. PICK t : t = GcRootAdd(u, v)
      OBVIOUS
    <2>10. Kept(u, t, e2)
      <3>1. 0 \in {0, v}
        OBVIOUS
      <3> QED
        BY <2>6, <2>7, <2>8, <2>9, <3>1, AddRoot
    <2>11. t = SaveLocal(u, n)
      BY <2>3, <2>9 DEF SaveLocal
    <2> QED
      BY <2>1, <2>2, <2>5, <2>10, <2>11 DEF Kept, SameProgram, Good, Sound
  <1>4. \A n \in FirstLocal..last : \A x \in T[n - 1] : k[<<x, n>>] = SaveLocal(x, n)
    <2> SUFFICES ASSUME NEW n \in FirstLocal..last, NEW x \in T[n - 1] PROVE k[<<x, n>>] = SaveLocal(x, n)
      OBVIOUS
    <2>1. n \in Int /\ n - 1 \in Int
      BY <1>1
    <2>2. x \in U
      BY <2>1
    <2> HIDE DEF U, T
    <2> QED
      BY <2>1, <2>2
  <1>5. CASE last < FirstLocal
    <2>1. w = s
      BY <1>5 DEF For
    <2>2. SavedTo(s.regs, last) = Nothing
      BY <1>1, <1>5, SavedNone
    <2> QED
      BY <2>1, <2>2 DEF Kept, SameProgram
  <1>6. CASE FirstLocal <= last
    <2>1. w \in T[last]
      <3> HIDE DEF T, k, U
      <3>1. FirstLocal \in Int /\ last \in Int /\ FirstLocal <= last
        BY <1>1, <1>6
      <3>2. PICK f : IsLoop(f, k, s, FirstLocal, last) /\ \A n \in (FirstLocal - 1)..last : f[n] \in T[n]
        <4>1. \A n \in FirstLocal..last : \A x \in T[n - 1] : k[<<x, n>>] \in T[n]
          BY <1>3, <1>4
        <4> QED
          BY <1>2, <3>1, <4>1, LoopRuns DEF StepsWithin
      <3>3. f = [n \in (FirstLocal - 1)..last |-> IF n < FirstLocal THEN s ELSE SaveLocal(f[n - 1], n)]
        <4>1. f = [n \in (FirstLocal - 1)..last |-> IF n < FirstLocal THEN s ELSE k[<<f[n - 1], n>>]]
          BY <3>2 DEF IsLoop
        <4>2. \A n \in (FirstLocal - 1)..last : ~(n < FirstLocal) => k[<<f[n - 1], n>>] = SaveLocal(f[n - 1], n)
          BY <1>4, <3>1, <3>2
        <4> QED
          BY <4>1, <4>2
      <3> DEFINE g[n \in (FirstLocal - 1)..last] == IF n < FirstLocal THEN s ELSE SaveLocal(g[n - 1], n)
      <3>4. w = g[last]
        BY <3>1 DEF For
      <3>5. g = [n \in (FirstLocal - 1)..last |-> IF n < FirstLocal THEN s ELSE SaveLocal(g[n - 1], n)]
        BY <3>3
      <3> HIDE DEF g
      <3>6. g[FirstLocal - 1] \in T[FirstLocal - 1]
        BY <1>2, <3>1, <3>5
      <3>7. \A n \in FirstLocal..last : g[n - 1] \in T[n - 1] => g[n] \in T[n]
        <4>1. \A n \in FirstLocal..last : g[n] = SaveLocal(g[n - 1], n)
          BY <3>1, <3>5
        <4> QED
          BY <1>3, <4>1
      <3>8. \A n \in (FirstLocal - 1)..last : g[n] \in T[n]
        BY <3>1, <3>6, <3>7, LoopStays
      <3> QED
        BY <3>1, <3>4, <3>8
    <2> QED
      BY <1>1, <2>1 DEF Kept
  <1> QED
    BY <1>1, <1>5, <1>6

\* What a call or a return leaves alone, apart from registers.
OnlyFrames(s, t) ==
    /\ t.gc = s.gc /\ t.globals = s.globals /\ t.data = s.data
    /\ t.handlers = s.handlers /\ t.status = s.status

\* A call: the saved copies are the roots of the new frame.
LEMMA PushGood ==
  ASSUME NEW s, Good(s, Nothing, Nowhere, 0), NEW last \in NArgs..LastLocal,
         NEW t, t = PushCallFrame(s, last)
  PROVE  /\ Good(t, Nothing, Nowhere, 0) /\ OnlyFrames(s, t)
         /\ Len(t.frames) = Len(s.frames) + 1
  <1>1. PICK w : w = For(SaveLocal, s, FirstLocal, last)
    OBVIOUS
  <1>2. PICK e : e = SavedTo(s.regs, last)
    OBVIOUS
  <1>3. Good(w, e, Nowhere, 0) /\ SameProgram(s, w) /\ w \in VmStates /\ s \in VmStates
    BY <1>1, <1>2, SaveLocals DEF Kept, Good, Sound
  <1>4. PICK F : F = [r \in FirstLocal..last |-> s.regs[r]]
    OBVIOUS
  <1>5. FirstLocal..last \subseteq Regs
    BY Sizes DEF Regs
  <1>6. F \in SavedFrames /\ DOMAIN F = FirstLocal..last
    <2>1. s.regs \in [Regs -> Values]
      BY <1>3, Holders
    <2>2. F \in [FirstLocal..last -> Values]
      BY <1>4, <1>5, <2>1
    <2>3. PICK X : X = [FirstLocal..last -> Values]
      OBVIOUS
    <2>4. X \in {[FirstLocal..l -> Values] : l \in NArgs..LastLocal}
      BY <2>3
    <2>5. F \in X /\ F \in SavedFrames
      BY <2>2, <2>3, <2>4 DEF SavedFrames
    <2> QED
      BY <1>4, <2>5
  <1>7. PICK q : q = Append(w.frames, F)
    OBVIOUS
  <1>8. PICK n : n = Len(w.frames) + 1
    OBVIOUS
  <1>9. q \in Seq(SavedFrames) /\ Longer(q, w.frames, n) /\ q[n] = F
    <2>1. PICK p : p = w.frames
      OBVIOUS
    <2>2. p \in Seq(SavedFrames)
      BY <1>3, <2>1, Holders
    <2>3. q = Append(p, F) /\ n = Len(p) + 1
      BY <1>7, <1>8, <2>1
    <2>4. q \in Seq(SavedFrames) /\ Longer(q, p, Len(p) + 1) /\ q[Len(p) + 1] = F
      <3>1. PICK X : X = SavedFrames
        OBVIOUS
      <3>2. p \in Seq(X) /\ F \in X /\ q = Append(p, F)
        BY <1>6, <2>2, <2>3, <3>1
      <3>3. Len(p) \in Nat
        BY <3>2, LenProperties
      <3>4. q \in Seq(X) /\ Len(q) = Len(p) + 1 /\ q[Len(p) + 1] = F
        BY <3>2, AppendProperties
      <3>5. \A i \in 1..Len(p) : q[i] = p[i]
        BY <3>2, AppendProperties
      <3>6. Longer(q, p, Len(p) + 1)
        BY <3>3, <3>4, <3>5 DEF Longer
      <3> QED
        BY <3>1, <3>4, <3>6
    <2> QED
      BY <2>1, <2>3, <2>4
  <1>10. t = [w EXCEPT !.frames = q]
    BY <1>1, <1>4, <1>7 DEF PushCallFrame
  <1>11. /\ t \in VmStates /\ SameStore(w, t) /\ t.frames = q
         /\ t.regs = w.regs /\ t.globals = w.globals /\ t.data = w.data
         /\ t.handlers = w.handlers /\ t.status = w.status
    BY <1>3, <1>9, <1>10, PutFrames
  <1>12. \A c \in Cells : RootsOn(t, c) + Nothing[c] = RootsOn(w, c) + e[c]
    <2> SUFFICES ASSUME NEW c \in Cells PROVE RootsOn(t, c) + Nothing[c] = RootsOn(w, c) + e[c]
      OBVIOUS
    <2>1. Longer(t.frames, w.frames, n) /\ t.frames[n] = F /\ DOMAIN F \subseteq Regs
      BY <1>5, <1>6, <1>9, <1>11
    <2>2. RootsOn(t, c) = RootsOn(w, c) + Hits(DOMAIN t.frames[n], t.frames[n], c)
      BY <1>3, <1>11, <2>1, RootsFrame
    <2>3. Hits(FirstLocal..last, F, c) = Hits(FirstLocal..last, s.regs, c)
      <3>1. PICK S : S = FirstLocal..last
        OBVIOUS
      <3>2. PICK g : g = s.regs
        OBVIOUS
      <3>3. \A r \in S : g[r] = c <=> F[r] = c
        BY <1>4, <3>1, <3>2
      <3>4. Hits(S, F, c) = Hits(S, g, c)
        BY <3>3, HitsSame
      <3> QED
        BY <3>1, <3>2, <3>4
    <2>4. e[c] = Hits(DOMAIN t.frames[n], t.frames[n], c)
      BY <1>2, <1>6, <2>1, <2>3 DEF SavedTo
    <2>5. RootsOn(t, c) \in Nat /\ RootsOn(t, c) = RootsOn(w, c) + e[c] /\ Nothing[c] = 0
      BY <1>11, <2>2, <2>4, RootsType DEF Nothing
    <2> QED
      BY <2>5
  <1>13. Good(t, Nothing, Nowhere, 0)
    BY <1>3, <1>11, <1>12, MovesFree
  <1>14. Len(t.frames) = Len(s.frames) + 1
    BY <1>3, <1>8, <1>9, <1>11 DEF Longer, SameProgram
  <1> QED
    BY <1>3, <1>11, <1>13, <1>14 DEF OnlyFrames, SameProgram, SameStore

-----------------------------------------------------------------------------
(* Returns *)

\* The roots e and d together, and the saved locals of a frame after the n-th.
Plus(e, d) == [c \in Cells |-> e[c] + d[c]]
LeftOf(F, n) == [c \in Cells |-> Hits({r \in DOMAIN F : r > n}, F, c)]

\* Restoring one local leaves one less.
LEMMA LeftStep ==
  ASSUME NEW F \in SavedFrames, NEW n \in Int, NEW c \in Cells
  PROVE  /\ LeftOf(F, n)[c] \in Nat
         /\ n \in DOMAIN F => LeftOf(F, n - 1)[c] = LeftOf(F, n)[c] + One(F[n], c)
         /\ n \notin DOMAIN F => LeftOf(F, n - 1)[c] = LeftOf(F, n)[c]
  <1>1. DOMAIN F \subseteq Int /\ IsFiniteSet(DOMAIN F)
    <2>1. DOMAIN F \subseteq FirstLocal..LastLocal /\ IsFiniteSet(DOMAIN F)
      BY FrameIs
    <2> QED
      BY <2>1
  <1>2. PICK S : S = {r \in DOMAIN F : r > n - 1}
    OBVIOUS
  <1>3. PICK V : V = {r \in DOMAIN F : r > n}
    OBVIOUS
  <1>4. IsFiniteSet(S) /\ IsFiniteSet(V)
    BY <1>1, <1>2, <1>3, FS_Subset
  <1>5. LeftOf(F, n)[c] = Hits(V, F, c) /\ LeftOf(F, n - 1)[c] = Hits(S, F, c)
    BY <1>2, <1>3 DEF LeftOf
  <1>6. Hits(V, F, c) \in Nat
    BY <1>4, HitsType
  <1>7. CASE n \in DOMAIN F
    <2>1. n \in S /\ S \ {n} = V
      BY <1>1, <1>2, <1>3, <1>7
    <2>2. Hits(S, F, c) = Hits(S \ {n}, F, c) + One(F[n], c)
      BY <1>4, <2>1, HitsWithout
    <2> QED
      BY <1>5, <1>6, <1>7, <2>1, <2>2
  <1>8. CASE n \notin DOMAIN F
    <2>1. S = V
      BY <1>1, <1>2, <1>3, <1>8
    <2> QED
      BY <1>5, <1>6, <1>8, <2>1
  <1> QED
    BY <1>7, <1>8

\* Before the first restored local a frame is left whole, after the last nothing is left.
LEMMA LeftEnds ==
  ASSUME NEW F \in SavedFrames, NEW c \in Cells
  PROVE  /\ LeftOf(F, FirstLocal - 1)[c] = Hits(DOMAIN F, F, c)
         /\ LeftOf(F, LastLocal)[c] = 0
  <1>1. DOMAIN F \subseteq FirstLocal..LastLocal /\ FirstLocal \in Int /\ LastLocal \in Int
    BY FrameIs, Sizes
  <1>2. {r \in DOMAIN F : r > FirstLocal - 1} = DOMAIN F /\ {r \in DOMAIN F : r > LastLocal} = {}
    BY <1>1
  <1>3. Hits({}, F, c) = 0
    BY FS_EmptySet DEF Hits
  <1> QED
    BY <1>2, <1>3 DEF LeftOf

\* Sums of roots.
LEMMA PlusIs ==
  ASSUME NEW e, Numbers(e), NEW F \in SavedFrames, NEW n \in Int
  PROVE  /\ Numbers(Plus(e, LeftOf(F, n)))
         /\ \A c \in Cells : Plus(e, LeftOf(F, n))[c] = e[c] + LeftOf(F, n)[c]
  <1>1. \A c \in Cells : e[c] \in Nat /\ LeftOf(F, n)[c] \in Nat
    BY LeftStep DEF Numbers
  <1> QED
    BY <1>1 DEF Plus, Numbers

\* One saved local, if the frame has it.
LEMMA RestoreStep ==
  ASSUME NEW u, NEW e, Numbers(e), NEW F \in SavedFrames, NEW n \in Int,
         Good(u, Plus(e, LeftOf(F, n - 1)), Nowhere, 0), NEW t, t = RestoreSaved(u, F, n)
  PROVE  Good(t, Plus(e, LeftOf(F, n)), Nowhere, 0) /\ OnlyRegs(u, t)
  <1>1. PICK e1 : e1 = Plus(e, LeftOf(F, n - 1))
    OBVIOUS
  <1>2. PICK e2 : e2 = Plus(e, LeftOf(F, n))
    OBVIOUS
  <1>3. n - 1 \in Int
    OBVIOUS
  <1>4. Numbers(e1) /\ \A c \in Cells : e1[c] = e[c] + LeftOf(F, n - 1)[c]
    BY <1>1, <1>3, PlusIs
  <1>5. Numbers(e2) /\ \A c \in Cells : e2[c] = e[c] + LeftOf(F, n)[c]
    BY <1>2, PlusIs
  <1>6. CASE n \in DOMAIN F
    <2>1. n \in Regs /\ F[n] \in Values
      BY <1>6, FrameIs
    <2>2. \A c \in Cells : e1[c] = e2[c] + One(F[n], c)
      <3> SUFFICES ASSUME NEW c \in Cells PROVE e1[c] = e2[c] + One(F[n], c)
        OBVIOUS
      <3>1. LeftOf(F, n)[c] \in Nat /\ LeftOf(F, n - 1)[c] = LeftOf(F, n)[c] + One(F[n], c)
        BY <1>6, LeftStep
      <3>2. e[c] \in Nat /\ One(F[n], c) \in Nat
        BY DEF Numbers, One
      <3> QED
        BY <1>4, <1>5, <3>1, <3>2
    <2>3. PICK v : v = F[n]
      OBVIOUS
    <2>4. t = GcRootRemove(SetReg(u, n, v), v)
      BY <1>6, <2>3 DEF RestoreSaved, RestoreLocal
    <2>5. Good(u, e1, Nowhere, 0)
      BY <1>1
    <2>6. v \in Values /\ \A c \in Cells : e1[c] = e2[c] + One(v, c)
      BY <2>1, <2>2, <2>3
    <2>7. Good(t, e2, Nowhere, 0) /\ WroteReg(u, t, n, v)
      BY <1>5, <2>1, <2>4, <2>5, <2>6, HandedGood
    <2> QED
      BY <1>2, <2>7 DEF WroteReg
  <1>7. CASE n \notin DOMAIN F
    <2>1. t = u
      BY <1>7 DEF RestoreSaved
    <2>2. e1 = e2
      <3>1. \A c \in Cells : LeftOf(F, n - 1)[c] = LeftOf(F, n)[c]
        BY <1>7, LeftStep
      <3> QED
        BY <1>1, <1>2, <3>1 DEF Plus
    <2> QED
      BY <1>1, <1>2, <2>1, <2>2 DEF OnlyRegs
  <1> QED
    BY <1>6, <1>7

\* The saved locals go back to their registers, and the frame gives up its roots.
LEMMA RestoreLocalsGood ==
  ASSUME NEW s, NEW e, Numbers(e), NEW F \in SavedFrames,
         Good(s, Plus(e, LeftOf(F, FirstLocal - 1)), Nowhere, 0), NEW w, w = RestoreLocals(s, F)
  PROVE  Good(w, e, Nowhere, 0) /\ OnlyRegs(s, w)
  <1> DEFINE U == {u \in VmStates : OnlyRegs(s, u)}
             T == [n \in Int |-> {u \in U : Good(u, Plus(e, LeftOf(F, n)), Nowhere, 0)}]
             k == [p \in U \X Int |-> RestoreSaved(p[1], F, p[2])]
  <1>1. FirstLocal \in Int /\ LastLocal \in Int /\ FirstLocal - 1 \in Int /\ FirstLocal - 1 <= LastLocal
    BY Sizes
  <1>2. s \in T[FirstLocal - 1]
    BY <1>1 DEF Good, Sound, OnlyRegs
  <1>3. \A n \in FirstLocal..LastLocal : \A u \in T[n - 1] : RestoreSaved(u, F, n) \in T[n]
    <2> SUFFICES ASSUME NEW n \in FirstLocal..LastLocal, NEW u \in T[n - 1]
                 PROVE  RestoreSaved(u, F, n) \in T[n]
      OBVIOUS
    <2>1. n \in Int /\ n - 1 \in Int
      BY <1>1
    <2>2. OnlyRegs(s, u) /\ Good(u, Plus(e, LeftOf(F, n - 1)), Nowhere, 0)
      BY <2>1
    <2>3. PICK t : t = RestoreSaved(u, F, n)
      OBVIOUS
    <2>4. Good(t, Plus(e, LeftOf(F, n)), Nowhere, 0) /\ OnlyRegs(u, t)
      BY <2>1, <2>2, <2>3, RestoreStep
    <2>5. t \in VmStates /\ OnlyRegs(s, t)
      BY <2>2, <2>4 DEF Good, Sound, OnlyRegs
    <2> QED
      BY <2>1, <2>3, <2>4, <2>5
  <1>4. \A n \in FirstLocal..LastLocal : \A x \in T[n - 1] : k[<<x, n>>] = RestoreSaved(x, F, n)
    <2> SUFFICES ASSUME NEW n \in FirstLocal..LastLocal, NEW x \in T[n - 1] PROVE k[<<x, n>>] = RestoreSaved(x, F, n)
      OBVIOUS
    <2>1. n \in Int /\ n - 1 \in Int
      BY <1>1
    <2>2. x \in U
      BY <2>1
    <2> HIDE DEF U, T
    <2> QED
      BY <2>1, <2>2
  <1>5. LastLocal < FirstLocal => w \in T[LastLocal]
    <2> SUFFICES ASSUME LastLocal < FirstLocal PROVE w \in T[LastLocal]
      OBVIOUS
    <2>1. w = s
      BY DEF RestoreLocals, For
    <2>2. LastLocal = FirstLocal - 1
      BY <1>1
    <2> HIDE DEF T, U, k
    <2> QED
      BY <1>2, <2>1, <2>2
  <1>6. FirstLocal <= LastLocal => w \in T[LastLocal]
    <2> SUFFICES ASSUME FirstLocal <= LastLocal PROVE w \in T[LastLocal]
      OBVIOUS
    <2>1. w \in T[LastLocal]
      <3> HIDE DEF T, k, U
      <3>1. FirstLocal \in Int /\ LastLocal \in Int /\ FirstLocal <= LastLocal
        BY <1>1
      <3>2. PICK f : IsLoop(f, k, s, FirstLocal, LastLocal) /\ \A n \in (FirstLocal - 1)..LastLocal : f[n] \in T[n]
        <4>1. \A n \in FirstLocal..LastLocal : \A x \in T[n - 1] : k[<<x, n>>] \in T[n]
          BY <1>3, <1>4
        <4> QED
          BY <1>2, <3>1, <4>1, LoopRuns DEF StepsWithin
      <3>3. f = [n \in (FirstLocal - 1)..LastLocal |-> IF n < FirstLocal THEN s ELSE RestoreSaved(f[n - 1], F, n)]
        <4>1. f = [n \in (FirstLocal - 1)..LastLocal |-> IF n < FirstLocal THEN s ELSE k[<<f[n - 1], n>>]]
          BY <3>2 DEF IsLoop
        <4>2. \A n \in (FirstLocal - 1)..LastLocal : ~(n < FirstLocal) => k[<<f[n - 1], n>>] = RestoreSaved(f[n - 1], F, n)
          BY <1>4, <3>1, <3>2
        <4> QED
          BY <4>1, <4>2
      <3> DEFINE g[n \in (FirstLocal - 1)..LastLocal] == IF n < FirstLocal THEN s ELSE RestoreSaved(g[n - 1], F, n)
      <3>4. w = g[LastLocal]
        BY <3>1 DEF RestoreLocals, For
      <3>5. g = [n \in (FirstLocal - 1)..LastLocal |-> IF n < FirstLocal THEN s ELSE RestoreSaved(g[n - 1], F, n)]
        BY <3>3
      <3> HIDE DEF g
      <3>6. g[FirstLocal - 1] \in T[FirstLocal - 1]
        BY <1>2, <3>1, <3>5
      <3>7. \A n \in FirstLocal..LastLocal : g[n - 1] \in T[n - 1] => g[n] \in T[n]
        <4>1. \A n \in FirstLocal..LastLocal : g[n] = RestoreSaved(g[n - 1], F, n)
          BY <3>1, <3>5
        <4> QED
          BY <1>3, <4>1
      <3>8. \A n \in (FirstLocal - 1)..LastLocal : g[n] \in T[n]
        BY <3>1, <3>6, <3>7, LoopStays
      <3> QED
        BY <3>1, <3>4, <3>8
    <2> QED
      BY <2>1
  <1>7. w \in T[LastLocal]
    BY <1>1, <1>5, <1>6
  <1>8. OnlyRegs(s, w) /\ Good(w, Plus(e, LeftOf(F, LastLocal)), Nowhere, 0) /\ w \in VmStates
    BY <1>1, <1>7
  <1>9. \A c \in Cells : RootsOn(w, c) + e[c] = RootsOn(w, c) + Plus(e, LeftOf(F, LastLocal))[c]
    <2> SUFFICES ASSUME NEW c \in Cells
                 PROVE  RootsOn(w, c) + e[c] = RootsOn(w, c) + Plus(e, LeftOf(F, LastLocal))[c]
      OBVIOUS
    <2>1. Plus(e, LeftOf(F, LastLocal))[c] = e[c] + 0
      BY LeftEnds DEF Plus
    <2>2. e[c] \in Nat
      BY DEF Numbers
    <2> QED
      BY <2>1, <2>2
  <1>10. SameStore(w, w)
    BY DEF SameStore
  <1>11. Good(w, e, Nowhere, 0)
    BY <1>8, <1>9, <1>10, MovesFree
  <1> QED
    BY <1>8, <1>11

\* A range of registers is cleared.
LEMMA ClearGood ==
  ASSUME NEW s, NEW e, Good(s, e, Nowhere, 0), Numbers(e), NEW lo \in Nat, NEW hi \in Nat,
         hi <= LastLocal, NEW w, w = For(ClearReg, s, lo, hi)
  PROVE  Good(w, e, Nowhere, 0) /\ OnlyRegs(s, w) /\ \A r \in lo..hi : w.regs[r] = 0
  <1> DEFINE U == {u \in VmStates : OnlyRegs(s, u) /\ Good(u, e, Nowhere, 0)}
             T == [n \in Int |-> {u \in U : \A r \in lo..n : u.regs[r] = 0}]
             k == [p \in U \X Int |-> ClearReg(p[1], p[2])]
  <1>1. lo \in Int /\ hi \in Int /\ lo - 1 \in Int
    OBVIOUS
  <1>2. s \in T[lo - 1]
    <2>1. s \in U
      BY DEF Good, Sound, OnlyRegs
    <2> HIDE DEF U
    <2> QED
      BY <1>1, <2>1
  <1>3. \A n \in lo..hi : \A u \in T[n - 1] : ClearReg(u, n) \in T[n]
    <2> SUFFICES ASSUME NEW n \in lo..hi, NEW u \in T[n - 1] PROVE ClearReg(u, n) \in T[n]
      OBVIOUS
    <2>1. n \in Int /\ n - 1 \in Int /\ n \in Regs
      BY Sizes DEF Regs
    <2>2. OnlyRegs(s, u) /\ Good(u, e, Nowhere, 0) /\ \A r \in lo..(n - 1) : u.regs[r] = 0
      BY <2>1
    <2>3. PICK t : t = SetReg(u, n, 0)
      OBVIOUS
    <2>4. Storable(u, 0)
      BY DEF Storable, Values
    <2>5. Good(t, e, Nowhere, 0) /\ WroteReg(u, t, n, 0)
      BY <2>1, <2>2, <2>3, <2>4, SetRegGood
    <2>6. t \in VmStates /\ OnlyRegs(s, t)
      BY <2>2, <2>5 DEF Good, Sound, WroteReg, OnlyRegs
    <2>7. \A r \in lo..n : t.regs[r] = 0
      <3>1. u.regs \in [Regs -> Values] /\ t.regs = [u.regs EXCEPT ![n] = 0]
        BY <2>2, <2>5, Holders DEF Good, Sound, WroteReg
      <3> SUFFICES ASSUME NEW r \in lo..n PROVE t.regs[r] = 0
        OBVIOUS
      <3>2. r \in Regs
        BY Sizes DEF Regs
      <3>3. r = n \/ r \in lo..(n - 1)
        BY <2>1
      <3> QED
        BY <2>1, <2>2, <3>1, <3>2, <3>3
    <2>8. ClearReg(u, n) = t
      BY <2>3 DEF ClearReg
    <2> QED
      BY <2>1, <2>5, <2>6, <2>7, <2>8
  <1>4. \A n \in lo..hi : \A x \in T[n - 1] : k[<<x, n>>] = ClearReg(x, n)
    <2> SUFFICES ASSUME NEW n \in lo..hi, NEW x \in T[n - 1] PROVE k[<<x, n>>] = ClearReg(x, n)
      OBVIOUS
    <2>1. n \in Int /\ n - 1 \in Int
      BY <1>1
    <2>2. x \in U
      BY <2>1
    <2> HIDE DEF U, T
    <2> QED
      BY <2>1, <2>2
  <1>5. CASE hi < lo
    <2>1. w = s
      BY <1>5 DEF For
    <2>2. OnlyRegs(s, s)
      BY DEF OnlyRegs
    <2> QED
      BY <1>5, <2>1, <2>2
  <1>6. CASE lo <= hi
    <2>1. w \in T[hi]
      <3> HIDE DEF T, k, U
      <3>1. lo \in Int /\ hi \in Int /\ lo <= hi
        BY <1>1, <1>6
      <3>2. PICK f : IsLoop(f, k, s, lo, hi) /\ \A n \in (lo - 1)..hi : f[n] \in T[n]
        <4>1. \A n \in lo..hi : \A x \in T[n - 1] : k[<<x, n>>] \in T[n]
          BY <1>3, <1>4
        <4> QED
          BY <1>2, <3>1, <4>1, LoopRuns DEF StepsWithin
      <3>3. f = [n \in (lo - 1)..hi |-> IF n < lo THEN s ELSE ClearReg(f[n - 1], n)]
        <4>1. f = [n \in (lo - 1)..hi |-> IF n < lo THEN s ELSE k[<<f[n - 1], n>>]]
          BY <3>2 DEF IsLoop
        <4>2. \A n \in (lo - 1)..hi : ~(n < lo) => k[<<f[n - 1], n>>] = ClearReg(f[n - 1], n)
          BY <1>4, <3>1, <3>2
        <4> QED
          BY <4>1, <4>2
      <3> DEFINE g[n \in (lo - 1)..hi] == IF n < lo THEN s ELSE ClearReg(g[n - 1], n)
      <3>4. w = g[hi]
        BY <3>1 DEF For
      <3>5. g = [n \in (lo - 1)..hi |-> IF n < lo THEN s ELSE ClearReg(g[n - 1], n)]
        BY <3>3
      <3> HIDE DEF g
      <3>6. g[lo - 1] \in T[lo - 1]
        BY <1>2, <3>1, <3>5
      <3>7. \A n \in lo..hi : g[n - 1] \in T[n - 1] => g[n] \in T[n]
        <4>1. \A n \in lo..hi : g[n] = ClearReg(g[n - 1], n)
          BY <3>1, <3>5
        <4> QED
          BY <1>3, <4>1
      <3>8. \A n \in (lo - 1)..hi : g[n] \in T[n]
        BY <3>1, <3>6, <3>7, LoopStays
      <3> QED
        BY <3>1, <3>4, <3>8
    <2> QED
      BY <1>1, <2>1
  <1> QED
    BY <1>1, <1>5, <1>6

\* ClearArguments of a return.
LEMMA ArgumentsGood ==
  ASSUME NEW s, NEW e, Good(s, e, Nowhere, 0), Numbers(e), NEW w, w = ClearArguments(s)
  PROVE  Good(w, e, Nowhere, 0) /\ OnlyRegs(s, w)
  <1>1. 1 \in Nat /\ NArgs \in Nat /\ NArgs <= LastLocal
    BY Sizes
  <1>2. w = For(ClearReg, s, 1, NArgs)
    BY DEF ClearArguments
  <1> QED
    BY <1>1, <1>2, ClearGood

\* A return: the callee's arguments go, the caller's locals come back.
LEMMA ReturnGood ==
  ASSUME NEW s, NEW e, Good(s, e, Nowhere, 0), Numbers(e), s.frames # <<>>,
         NEW t, t = RestoreCallFrame(s)
  PROVE  /\ Good(t, e, Nowhere, 0) /\ OnlyFrames(s, t)
         /\ Len(t.frames) = Len(s.frames) - 1 /\ Len(s.frames) \in Nat \ {0}
  <1>1. PICK p : p = Pop(s.frames)
    OBVIOUS
  <1>2. PICK F : F = Top(s.frames)
    OBVIOUS
  <1>3. PICK n : n = Len(s.frames)
    OBVIOUS
  <1>4. s \in VmStates /\ s.frames \in Seq(SavedFrames)
    BY Holders DEF Good, Sound
  <1>5. p \in Seq(SavedFrames) /\ F \in SavedFrames /\ Longer(s.frames, p, n) /\ F = s.frames[n]
    BY <1>1, <1>2, <1>3, <1>4, PopIs
  <1>6. PICK b : b = [s EXCEPT !.frames = p]
    OBVIOUS
  <1>7. /\ b \in VmStates /\ SameStore(s, b) /\ b.frames = p
        /\ b.regs = s.regs /\ b.globals = s.globals /\ b.data = s.data
        /\ b.handlers = s.handlers /\ b.status = s.status
    BY <1>4, <1>5, <1>6, PutFrames
  <1>8. PICK e2 : e2 = Plus(e, LeftOf(F, FirstLocal - 1))
    OBVIOUS
  <1>9. FirstLocal - 1 \in Int
    BY Sizes
  <1>10. Numbers(e2) /\ \A c \in Cells : e2[c] = e[c] + LeftOf(F, FirstLocal - 1)[c]
    BY <1>5, <1>8, <1>9, PlusIs
  <1>11. \A c \in Cells : RootsOn(b, c) + e2[c] = RootsOn(s, c) + e[c]
    <2> SUFFICES ASSUME NEW c \in Cells PROVE RootsOn(b, c) + e2[c] = RootsOn(s, c) + e[c]
      OBVIOUS
    <2>1. Longer(s.frames, b.frames, n) /\ DOMAIN s.frames[n] \subseteq Regs
      BY <1>5, <1>7, FrameIs
    <2>2. RootsOn(s, c) = RootsOn(b, c) + Hits(DOMAIN s.frames[n], s.frames[n], c)
      BY <1>4, <1>7, <2>1, RootsFrame
    <2>3. LeftOf(F, FirstLocal - 1)[c] = Hits(DOMAIN F, F, c)
      BY <1>5, LeftEnds
    <2>4. LeftOf(F, FirstLocal - 1)[c] \in Nat
      BY <1>5, <1>9, LeftStep
    <2>5. RootsOn(b, c) \in Nat /\ e[c] \in Nat
      BY <1>7, RootsType DEF Numbers
    <2>6. e2[c] = e[c] + LeftOf(F, FirstLocal - 1)[c]
      BY <1>10
    <2> QED
      BY <1>5, <2>2, <2>3, <2>4, <2>5, <2>6
  <1>12. Good(b, e2, Nowhere, 0)
    BY <1>7, <1>11, MovesFree
  <1>13. PICK a : a = ClearArguments(b)
    OBVIOUS
  <1>14. Good(a, e2, Nowhere, 0) /\ OnlyRegs(b, a)
    BY <1>10, <1>12, <1>13, ArgumentsGood
  <1>15. t = RestoreLocals(a, F)
    BY <1>1, <1>2, <1>6, <1>13 DEF RestoreCallFrame
  <1>16. Good(t, e, Nowhere, 0) /\ OnlyRegs(a, t)
    BY <1>5, <1>8, <1>14, <1>15, RestoreLocalsGood
  <1>17. OnlyFrames(s, t) /\ t.frames = p
    BY <1>7, <1>14, <1>16 DEF OnlyFrames, OnlyRegs, SameStore
  <1>18. Len(t.frames) = Len(s.frames) - 1 /\ Len(s.frames) \in Nat \ {0}
    BY <1>3, <1>5, <1>17 DEF Longer
  <1> QED
    BY <1>16, <1>17, <1>18

\* What popping a spilled register leaves alone, apart from registers.
OnlySpills(s, t) ==
    /\ t.gc = s.gc /\ t.globals = s.globals /\ t.frames = s.frames
    /\ t.handlers = s.handlers /\ t.status = s.status

\* The last spilled register d is taken off the stack, and the instruction holds its root.
Taken(s, b, d) == s.data # <<>> /\ d = Top(s.data) /\ b = [s EXCEPT !.data = Pop(s.data)]
Rooting(e, v) == [c \in Cells |-> e[c] + One(v, c)]
SpillTaken(s, b, d, e) ==
    /\ Good(b, Rooting(e, d.value), Nowhere, 0) /\ OnlySpills(s, b) /\ b.regs = s.regs
    /\ d.reg \in Regs /\ d.value \in Values
    /\ Len(b.data) = Len(s.data) - 1 /\ Len(s.data) \in Nat \ {0}

\* The root of a spilled register passes to the instruction.
LEMMA TakeSpill ==
  ASSUME NEW s, NEW e, Good(s, e, Nowhere, 0), Numbers(e), NEW d, NEW b, Taken(s, b, d)
  PROVE  SpillTaken(s, b, d, e)
  <1>1. PICK p : p = Pop(s.data)
    OBVIOUS
  <1>2. PICK n : n = Len(s.data)
    OBVIOUS
  <1>3. s \in VmStates /\ s.data \in Seq(SpillRecords)
    BY Holders DEF Good, Sound
  <1>4. p \in Seq(SpillRecords) /\ d \in SpillRecords /\ Longer(s.data, p, n) /\ d = s.data[n]
    BY <1>1, <1>2, <1>3, PopIs DEF Taken
  <1>5. b = [s EXCEPT !.data = p]
    BY <1>1 DEF Taken
  <1>6. /\ b \in VmStates /\ SameStore(s, b) /\ b.data = p
        /\ b.regs = s.regs /\ b.globals = s.globals /\ b.frames = s.frames
        /\ b.handlers = s.handlers /\ b.status = s.status
    BY <1>3, <1>4, <1>5, PutData
  <1>7. PICK v : v = d.value
    OBVIOUS
  <1>8. PICK e2 : e2 = Rooting(e, v)
    OBVIOUS
  <1>9. \A c \in Cells : RootsOn(b, c) + e2[c] = RootsOn(s, c) + e[c]
    <2> SUFFICES ASSUME NEW c \in Cells PROVE RootsOn(b, c) + e2[c] = RootsOn(s, c) + e[c]
      OBVIOUS
    <2>1. Longer(s.data, b.data, n)
      BY <1>4, <1>6
    <2>2. RootsOn(s, c) = RootsOn(b, c) + One(s.data[n].value, c)
      BY <1>3, <1>6, <2>1, RootsSpill
    <2>3. RootsOn(b, c) \in Nat /\ e[c] \in Nat /\ One(v, c) \in Nat
      BY <1>6, RootsType DEF Numbers, One
    <2>4. e2[c] = e[c] + One(v, c)
      BY <1>8 DEF Rooting
    <2> QED
      BY <1>4, <1>7, <2>2, <2>3, <2>4
  <1>10. Good(b, e2, Nowhere, 0)
    BY <1>6, <1>9, MovesFree
  <1>11. d.reg \in Regs /\ d.value \in Values
    BY <1>4 DEF SpillRecords
  <1>12. Len(b.data) = Len(s.data) - 1 /\ Len(s.data) \in Nat \ {0}
    BY <1>2, <1>4, <1>6 DEF Longer
  <1> QED
    BY <1>6, <1>7, <1>8, <1>10, <1>11, <1>12 DEF OnlySpills, SameStore, SpillTaken

\* PopR: it goes back to its register.
LEMMA PopSavedGood ==
  ASSUME NEW s, NEW e, Good(s, e, Nowhere, 0), Numbers(e), s.data # <<>>, NEW t, t = PopSaved(s)
  PROVE  /\ Good(t, e, Nowhere, 0) /\ OnlySpills(s, t)
         /\ Len(t.data) = Len(s.data) - 1 /\ Len(s.data) \in Nat \ {0}
  <1>1. PICK d : d = Top(s.data)
    OBVIOUS
  <1>2. PICK b : b = [s EXCEPT !.data = Pop(s.data)]
    OBVIOUS
  <1>3. SpillTaken(s, b, d, e)
    BY <1>1, <1>2, TakeSpill DEF Taken
  <1>4. PICK v : v = d.value
    OBVIOUS
  <1>5. PICK r : r = d.reg
    OBVIOUS
  <1>6. t = GcRootRemove(SetReg(b, r, v), v)
    BY <1>1, <1>2, <1>4, <1>5 DEF PopSaved
  <1>7. PICK e2 : e2 = Rooting(e, v)
    OBVIOUS
  <1>8. Good(b, e2, Nowhere, 0) /\ r \in Regs /\ v \in Values
    BY <1>3, <1>4, <1>5, <1>7 DEF SpillTaken
  <1>9. \A c \in Cells : e2[c] = e[c] + One(v, c)
    BY <1>7 DEF Rooting
  <1>10. Good(t, e, Nowhere, 0) /\ WroteReg(b, t, r, v)
    BY <1>6, <1>8, <1>9, HandedGood
  <1> QED
    BY <1>3, <1>10 DEF SpillTaken, WroteReg, OnlyRegs, OnlySpills

\* finishGC drops it.
LEMMA DropSpillGood ==
  ASSUME NEW s, NEW e, Good(s, e, Nowhere, 0), Numbers(e), s.data # <<>>, NEW t, t = DropSpill(s)
  PROVE  /\ Good(t, e, Nowhere, 0) /\ OnlySpills(s, t) /\ t.regs = s.regs
         /\ Len(t.data) = Len(s.data) - 1 /\ Len(s.data) \in Nat \ {0}
  <1>1. PICK d : d = Top(s.data)
    OBVIOUS
  <1>2. PICK b : b = [s EXCEPT !.data = Pop(s.data)]
    OBVIOUS
  <1>3. SpillTaken(s, b, d, e)
    BY <1>1, <1>2, TakeSpill DEF Taken
  <1>4. PICK v : v = d.value
    OBVIOUS
  <1>5. t = GcRootRemove(b, v)
    BY <1>1, <1>2, <1>4 DEF DropSpill
  <1>6. PICK e2 : e2 = Rooting(e, v)
    OBVIOUS
  <1>7. Good(b, e2, Nowhere, 0) /\ v \in Values
    BY <1>3, <1>4, <1>6 DEF SpillTaken
  <1>8. \A c \in Cells : e2[c] = e[c] + One(v, c)
    BY <1>6 DEF Rooting
  <1>9. Kept(b, t, e)
    BY <1>5, <1>7, <1>8, RemoveRoot
  <1> QED
    BY <1>3, <1>9 DEF SpillTaken, Kept, SameProgram, OnlySpills

\* The calls above a depth are returned from, one by one.
LEMMA UnwindCallsGood ==
  ASSUME NEW s, NEW e, Good(s, e, Nowhere, 0), Numbers(e), NEW depth \in Nat,
         NEW w, w = UnwindCalls(s, depth)
  PROVE  /\ Good(w, e, Nowhere, 0) /\ OnlyFrames(s, w)
         /\ Len(w.frames) = IF depth < Len(s.frames) THEN depth ELSE Len(s.frames)
  <1>1. PICK hi : hi = Len(s.frames)
    OBVIOUS
  <1>2. PICK lo : lo = depth + 1
    OBVIOUS
  <1> DEFINE U == {u \in VmStates : OnlyFrames(s, u) /\ Good(u, e, Nowhere, 0)}
             T == [n \in Int |-> {u \in U : Len(u.frames) = hi - (n - depth)}]
             k == [p \in U \X Int |-> RestoreCallFrame(p[1])]
  <1>3. lo \in Int /\ hi \in Int /\ hi \in Nat /\ lo - 1 = depth
    BY <1>1, <1>2, Holders DEF Good, Sound
  <1>4. s \in T[lo - 1]
    <2>1. s \in U
      BY DEF Good, Sound, OnlyFrames
    <2>2. Len(s.frames) = hi - (depth - depth) /\ depth \in Int
      BY <1>1, <1>3
    <2> HIDE DEF U
    <2> QED
      BY <1>3, <2>1, <2>2
  <1>5. \A n \in lo..hi : \A u \in T[n - 1] : RestoreCallFrame(u) \in T[n]
    <2> SUFFICES ASSUME NEW n \in lo..hi, NEW u \in T[n - 1] PROVE RestoreCallFrame(u) \in T[n]
      OBVIOUS
    <2>1. n \in Int /\ n - 1 \in Int /\ n <= hi
      BY <1>3
    <2>2. OnlyFrames(s, u) /\ Good(u, e, Nowhere, 0) /\ Len(u.frames) = hi - (n - 1 - depth)
      BY <2>1
    <2>3. PICK t : t = RestoreCallFrame(u)
      OBVIOUS
    <2>4. u.frames # <<>>
      <3>1. Len(u.frames) > 0
        BY <1>3, <2>1, <2>2
      <3> QED
        BY <3>1
    <2>5. /\ Good(t, e, Nowhere, 0) /\ OnlyFrames(u, t)
          /\ Len(t.frames) = Len(u.frames) - 1
      BY <2>2, <2>3, <2>4, ReturnGood
    <2>6. t \in VmStates /\ OnlyFrames(s, t)
      BY <2>2, <2>5 DEF Good, Sound, OnlyFrames
    <2>7. Len(t.frames) = hi - (n - depth)
      <3>1. PICK m : m = Len(u.frames)
        OBVIOUS
      <3>2. m = hi - (n - 1 - depth) /\ Len(t.frames) = m - 1
        BY <2>2, <2>5, <3>1
      <3> QED
        BY <1>3, <2>1, <3>2
    <2>8. t \in U
      BY <2>5, <2>6
    <2> HIDE DEF U
    <2> QED
      BY <2>1, <2>3, <2>7, <2>8
  <1>6. \A n \in lo..hi : \A x \in T[n - 1] : k[<<x, n>>] = RestoreCallFrame(x)
    <2> SUFFICES ASSUME NEW n \in lo..hi, NEW x \in T[n - 1] PROVE k[<<x, n>>] = RestoreCallFrame(x)
      OBVIOUS
    <2>1. n \in Int /\ n - 1 \in Int
      BY <1>3
    <2>2. x \in U
      BY <2>1
    <2> HIDE DEF U, T
    <2> QED
      BY <2>1, <2>2
  <1>7. w = For(LAMBDA u, n : RestoreCallFrame(u), s, lo, hi)
    BY <1>1, <1>2 DEF UnwindCalls
  <1>8. CASE hi < lo
    <2>1. w = s
      BY <1>7, <1>8 DEF For
    <2>2. ~(depth < hi)
      BY <1>2, <1>3, <1>8
    <2> QED
      BY <1>1, <2>1, <2>2 DEF OnlyFrames
  <1>9. CASE lo <= hi
    <2>1. w \in T[hi]
      <3> HIDE DEF T, k, U
      <3>1. lo \in Int /\ hi \in Int /\ lo <= hi
        BY <1>3, <1>9
      <3>2. PICK f : IsLoop(f, k, s, lo, hi) /\ \A n \in (lo - 1)..hi : f[n] \in T[n]
        <4>1. \A n \in lo..hi : \A x \in T[n - 1] : k[<<x, n>>] \in T[n]
          BY <1>5, <1>6
        <4> QED
          BY <1>4, <3>1, <4>1, LoopRuns DEF StepsWithin
      <3>3. f = [n \in (lo - 1)..hi |-> IF n < lo THEN s ELSE RestoreCallFrame(f[n - 1])]
        <4>1. f = [n \in (lo - 1)..hi |-> IF n < lo THEN s ELSE k[<<f[n - 1], n>>]]
          BY <3>2 DEF IsLoop
        <4>2. \A n \in (lo - 1)..hi : ~(n < lo) => k[<<f[n - 1], n>>] = RestoreCallFrame(f[n - 1])
          BY <1>6, <3>1, <3>2
        <4> QED
          BY <4>1, <4>2
      <3> DEFINE g[n \in (lo - 1)..hi] == IF n < lo THEN s ELSE RestoreCallFrame(g[n - 1])
      <3>4. w = g[hi]
        BY <1>7, <3>1 DEF For
      <3>5. g = [n \in (lo - 1)..hi |-> IF n < lo THEN s ELSE RestoreCallFrame(g[n - 1])]
        BY <3>3
      <3> HIDE DEF g
      <3>6. g[lo - 1] \in T[lo - 1]
        BY <1>4, <3>1, <3>5
      <3>7. \A n \in lo..hi : g[n - 1] \in T[n - 1] => g[n] \in T[n]
        <4>1. \A n \in lo..hi : g[n] = RestoreCallFrame(g[n - 1])
          BY <3>1, <3>5
        <4> QED
          BY <1>5, <4>1
      <3>8. \A n \in (lo - 1)..hi : g[n] \in T[n]
        BY <3>1, <3>6, <3>7, LoopStays
      <3> QED
        BY <3>1, <3>4, <3>8
    <2>2. w \in U /\ Len(w.frames) = hi - (hi - depth)
      BY <1>3, <2>1
    <2>3. OnlyFrames(s, w) /\ Good(w, e, Nowhere, 0)
      BY <2>2
    <2>4. depth < hi /\ hi - (hi - depth) = depth
      BY <1>2, <1>3, <1>9
    <2> QED
      BY <1>1, <2>2, <2>3, <2>4
  <1> QED
    BY <1>3, <1>8, <1>9

\* The spilled registers above a depth go back likewise.
LEMMA UnwindSpillsGood ==
  ASSUME NEW s, NEW e, Good(s, e, Nowhere, 0), Numbers(e), NEW depth \in Nat,
         NEW w, w = UnwindSpills(s, depth)
  PROVE  Good(w, e, Nowhere, 0) /\ OnlySpills(s, w) /\ Len(w.data) <= Len(s.data)
  <1>1. PICK hi : hi = Len(s.data)
    OBVIOUS
  <1>2. PICK lo : lo = depth + 1
    OBVIOUS
  <1> DEFINE U == {u \in VmStates : OnlySpills(s, u) /\ Good(u, e, Nowhere, 0)}
             T == [n \in Int |-> {u \in U : Len(u.data) = hi - (n - depth)}]
             k == [p \in U \X Int |-> PopSaved(p[1])]
  <1>3. lo \in Int /\ hi \in Int /\ hi \in Nat /\ lo - 1 = depth
    BY <1>1, <1>2, Holders DEF Good, Sound
  <1>4. s \in T[lo - 1]
    <2>1. s \in U
      BY DEF Good, Sound, OnlySpills
    <2>2. Len(s.data) = hi - (depth - depth) /\ depth \in Int
      BY <1>1, <1>3
    <2> HIDE DEF U
    <2> QED
      BY <1>3, <2>1, <2>2
  <1>5. \A n \in lo..hi : \A u \in T[n - 1] : PopSaved(u) \in T[n]
    <2> SUFFICES ASSUME NEW n \in lo..hi, NEW u \in T[n - 1] PROVE PopSaved(u) \in T[n]
      OBVIOUS
    <2>1. n \in Int /\ n - 1 \in Int /\ n <= hi
      BY <1>3
    <2>2. /\ OnlySpills(s, u) /\ Good(u, e, Nowhere, 0)
          /\ Len(u.data) = hi - (n - 1 - depth)
      BY <2>1
    <2>3. PICK t : t = PopSaved(u)
      OBVIOUS
    <2>4. u.data # <<>>
      <3>1. Len(u.data) > 0
        BY <1>3, <2>1, <2>2
      <3> QED
        BY <3>1
    <2>5. /\ Good(t, e, Nowhere, 0) /\ OnlySpills(u, t)
          /\ Len(t.data) = Len(u.data) - 1
      BY <2>2, <2>3, <2>4, PopSavedGood
    <2>6. t \in VmStates /\ OnlySpills(s, t)
      BY <2>2, <2>5 DEF Good, Sound, OnlySpills
    <2>7. Len(t.data) = hi - (n - depth)
      <3>1. PICK m : m = Len(u.data)
        OBVIOUS
      <3>2. m = hi - (n - 1 - depth) /\ Len(t.data) = m - 1
        BY <2>2, <2>5, <3>1
      <3> QED
        BY <1>3, <2>1, <3>2
    <2>8. t \in U
      BY <2>5, <2>6
    <2> HIDE DEF U
    <2> QED
      BY <2>1, <2>3, <2>7, <2>8
  <1>6. \A n \in lo..hi : \A x \in T[n - 1] : k[<<x, n>>] = PopSaved(x)
    <2> SUFFICES ASSUME NEW n \in lo..hi, NEW x \in T[n - 1] PROVE k[<<x, n>>] = PopSaved(x)
      OBVIOUS
    <2>1. n \in Int /\ n - 1 \in Int
      BY <1>3
    <2>2. x \in U
      BY <2>1
    <2> HIDE DEF U, T
    <2> QED
      BY <2>1, <2>2
  <1>7. w = For(LAMBDA u, n : PopSaved(u), s, lo, hi)
    BY <1>1, <1>2 DEF UnwindSpills
  <1>8. CASE hi < lo
    <2>1. w = s
      BY <1>7, <1>8 DEF For
    <2>2. ~(depth < hi)
      BY <1>2, <1>3, <1>8
    <2> QED
      BY <1>1, <1>3, <2>1, <2>2 DEF OnlySpills
  <1>9. CASE lo <= hi
    <2>1. w \in T[hi]
      <3> HIDE DEF T, k, U
      <3>1. lo \in Int /\ hi \in Int /\ lo <= hi
        BY <1>3, <1>9
      <3>2. PICK f : IsLoop(f, k, s, lo, hi) /\ \A n \in (lo - 1)..hi : f[n] \in T[n]
        <4>1. \A n \in lo..hi : \A x \in T[n - 1] : k[<<x, n>>] \in T[n]
          BY <1>5, <1>6
        <4> QED
          BY <1>4, <3>1, <4>1, LoopRuns DEF StepsWithin
      <3>3. f = [n \in (lo - 1)..hi |-> IF n < lo THEN s ELSE PopSaved(f[n - 1])]
        <4>1. f = [n \in (lo - 1)..hi |-> IF n < lo THEN s ELSE k[<<f[n - 1], n>>]]
          BY <3>2 DEF IsLoop
        <4>2. \A n \in (lo - 1)..hi : ~(n < lo) => k[<<f[n - 1], n>>] = PopSaved(f[n - 1])
          BY <1>6, <3>1, <3>2
        <4> QED
          BY <4>1, <4>2
      <3> DEFINE g[n \in (lo - 1)..hi] == IF n < lo THEN s ELSE PopSaved(g[n - 1])
      <3>4. w = g[hi]
        BY <1>7, <3>1 DEF For
      <3>5. g = [n \in (lo - 1)..hi |-> IF n < lo THEN s ELSE PopSaved(g[n - 1])]
        BY <3>3
      <3> HIDE DEF g
      <3>6. g[lo - 1] \in T[lo - 1]
        BY <1>4, <3>1, <3>5
      <3>7. \A n \in lo..hi : g[n - 1] \in T[n - 1] => g[n] \in T[n]
        <4>1. \A n \in lo..hi : g[n] = PopSaved(g[n - 1])
          BY <3>1, <3>5
        <4> QED
          BY <1>5, <4>1
      <3>8. \A n \in (lo - 1)..hi : g[n] \in T[n]
        BY <3>1, <3>6, <3>7, LoopStays
      <3> QED
        BY <3>1, <3>4, <3>8
    <2>2. w \in U /\ Len(w.data) = hi - (hi - depth)
      BY <1>3, <2>1
    <2>3. OnlySpills(s, w) /\ Good(w, e, Nowhere, 0)
      BY <2>2
    <2>4. depth < hi /\ hi - (hi - depth) = depth
      BY <1>2, <1>3, <1>9
    <2> QED
      BY <1>1, <1>3, <2>2, <2>3, <2>4
  <1> QED
    BY <1>3, <1>8, <1>9

\* finishGC drops all of them.
LEMMA DropSpillsGood ==
  ASSUME NEW s, NEW e, Good(s, e, Nowhere, 0), Numbers(e), NEW depth, depth = 0,
         NEW w, w = DropSpills(s)
  PROVE  Good(w, e, Nowhere, 0) /\ OnlySpills(s, w) /\ w.regs = s.regs /\ Len(w.data) = 0
  <1>1. PICK hi : hi = Len(s.data)
    OBVIOUS
  <1>2. PICK lo : lo = depth + 1
    OBVIOUS
  <1> DEFINE U == {u \in VmStates : OnlySpills(s, u) /\ u.regs = s.regs /\ Good(u, e, Nowhere, 0)}
             T == [n \in Int |-> {u \in U : Len(u.data) = hi - (n - depth)}]
             k == [p \in U \X Int |-> DropSpill(p[1])]
  <1>3. lo \in Int /\ hi \in Int /\ hi \in Nat /\ lo - 1 = depth
    BY <1>1, <1>2, Holders DEF Good, Sound
  <1>4. s \in T[lo - 1]
    <2>1. s \in U
      BY DEF Good, Sound, OnlySpills
    <2>2. Len(s.data) = hi - (depth - depth) /\ depth \in Int
      BY <1>1, <1>3
    <2> HIDE DEF U
    <2> QED
      BY <1>3, <2>1, <2>2
  <1>5. \A n \in lo..hi : \A u \in T[n - 1] : DropSpill(u) \in T[n]
    <2> SUFFICES ASSUME NEW n \in lo..hi, NEW u \in T[n - 1] PROVE DropSpill(u) \in T[n]
      OBVIOUS
    <2>1. n \in Int /\ n - 1 \in Int /\ n <= hi
      BY <1>3
    <2>2. /\ OnlySpills(s, u) /\ u.regs = s.regs /\ Good(u, e, Nowhere, 0)
          /\ Len(u.data) = hi - (n - 1 - depth)
      BY <2>1
    <2>3. PICK t : t = DropSpill(u)
      OBVIOUS
    <2>4. u.data # <<>>
      <3>1. Len(u.data) > 0
        BY <1>3, <2>1, <2>2
      <3> QED
        BY <3>1
    <2>5. /\ Good(t, e, Nowhere, 0) /\ OnlySpills(u, t) /\ t.regs = u.regs
          /\ Len(t.data) = Len(u.data) - 1
      BY <2>2, <2>3, <2>4, DropSpillGood
    <2>6. t \in VmStates /\ OnlySpills(s, t) /\ t.regs = s.regs
      BY <2>2, <2>5 DEF Good, Sound, OnlySpills
    <2>7. Len(t.data) = hi - (n - depth)
      <3>1. PICK m : m = Len(u.data)
        OBVIOUS
      <3>2. m = hi - (n - 1 - depth) /\ Len(t.data) = m - 1
        BY <2>2, <2>5, <3>1
      <3> QED
        BY <1>3, <2>1, <3>2
    <2>8. t \in U
      BY <2>5, <2>6
    <2> HIDE DEF U
    <2> QED
      BY <2>1, <2>3, <2>7, <2>8
  <1>6. \A n \in lo..hi : \A x \in T[n - 1] : k[<<x, n>>] = DropSpill(x)
    <2> SUFFICES ASSUME NEW n \in lo..hi, NEW x \in T[n - 1] PROVE k[<<x, n>>] = DropSpill(x)
      OBVIOUS
    <2>1. n \in Int /\ n - 1 \in Int
      BY <1>3
    <2>2. x \in U
      BY <2>1
    <2> HIDE DEF U, T
    <2> QED
      BY <2>1, <2>2
  <1>7. w = For(LAMBDA u, n : DropSpill(u), s, lo, hi)
    <2>1. lo = 1
      BY <1>2
    <2>2. w = For(LAMBDA u, n : DropSpill(u), s, 1, Len(s.data))
      BY DEF DropSpills
    <2> QED
      BY <1>1, <2>1, <2>2
  <1>8. CASE hi < lo
    <2>1. w = s
      BY <1>7, <1>8 DEF For
    <2>2. ~(depth < hi)
      BY <1>2, <1>3, <1>8
    <2> QED
      BY <1>1, <1>3, <2>1, <2>2 DEF OnlySpills
  <1>9. CASE lo <= hi
    <2>1. w \in T[hi]
      <3> HIDE DEF T, k, U
      <3>1. lo \in Int /\ hi \in Int /\ lo <= hi
        BY <1>3, <1>9
      <3>2. PICK f : IsLoop(f, k, s, lo, hi) /\ \A n \in (lo - 1)..hi : f[n] \in T[n]
        <4>1. \A n \in lo..hi : \A x \in T[n - 1] : k[<<x, n>>] \in T[n]
          BY <1>5, <1>6
        <4> QED
          BY <1>4, <3>1, <4>1, LoopRuns DEF StepsWithin
      <3>3. f = [n \in (lo - 1)..hi |-> IF n < lo THEN s ELSE DropSpill(f[n - 1])]
        <4>1. f = [n \in (lo - 1)..hi |-> IF n < lo THEN s ELSE k[<<f[n - 1], n>>]]
          BY <3>2 DEF IsLoop
        <4>2. \A n \in (lo - 1)..hi : ~(n < lo) => k[<<f[n - 1], n>>] = DropSpill(f[n - 1])
          BY <1>6, <3>1, <3>2
        <4> QED
          BY <4>1, <4>2
      <3> DEFINE g[n \in (lo - 1)..hi] == IF n < lo THEN s ELSE DropSpill(g[n - 1])
      <3>4. w = g[hi]
        BY <1>7, <3>1 DEF For
      <3>5. g = [n \in (lo - 1)..hi |-> IF n < lo THEN s ELSE DropSpill(g[n - 1])]
        BY <3>3
      <3> HIDE DEF g
      <3>6. g[lo - 1] \in T[lo - 1]
        BY <1>4, <3>1, <3>5
      <3>7. \A n \in lo..hi : g[n - 1] \in T[n - 1] => g[n] \in T[n]
        <4>1. \A n \in lo..hi : g[n] = DropSpill(g[n - 1])
          BY <3>1, <3>5
        <4> QED
          BY <1>5, <4>1
      <3>8. \A n \in (lo - 1)..hi : g[n] \in T[n]
        BY <3>1, <3>6, <3>7, LoopStays
      <3> QED
        BY <3>1, <3>4, <3>8
    <2>2. w \in U /\ Len(w.data) = hi - (hi - depth)
      BY <1>3, <2>1
    <2>3. OnlySpills(s, w) /\ w.regs = s.regs /\ Good(w, e, Nowhere, 0)
      BY <2>2
    <2>4. depth < hi /\ hi - (hi - depth) = depth
      BY <1>2, <1>3, <1>9
    <2> QED
      BY <1>1, <1>3, <2>2, <2>3, <2>4
  <1> QED
    BY <1>3, <1>8, <1>9

-----------------------------------------------------------------------------
(* Exceptions *)

\* Nobody catches: the machine stops, and a fresh exception stays without a root.
LEMMA UncaughtGood ==
  ASSUME NEW s, NEW x, Good(s, Nothing, Nowhere, x),
         NEW q \in {"run", "stopped", "finished", "uncaught", "panic"},
         NEW t, t = [s EXCEPT !.status = q]
  PROVE  /\ Good(t, Nothing, Nowhere, x) /\ t.status = q /\ t.gc = s.gc
         /\ t.frames = s.frames /\ t.data = s.data /\ t.handlers = s.handlers
  <1>1. s \in VmStates
    BY DEF Good, Sound
  <1>2. /\ t \in VmStates /\ SameStore(s, t) /\ t.status = q
        /\ t.regs = s.regs /\ t.globals = s.globals /\ t.data = s.data
        /\ t.frames = s.frames /\ t.handlers = s.handlers
    BY <1>1 DEF VmStates, SameStore
  <1>3. \A c : RootsOn(t, c) = RootsOn(s, c)
    BY <1>2, SameRoots
  <1>4. \A c \in Cells : RootsOn(t, c) + Nothing[c] = RootsOn(s, c) + Nothing[c]
    BY <1>3
  <1>5. Good(t, Nothing, Nowhere, x)
    BY <1>2, <1>4, MovesFree
  <1> QED
    BY <1>2, <1>5 DEF SameStore

\* Handlers may be removed at any time.
LEMMA HandlersGood ==
  ASSUME NEW s, NEW e, NEW x, Good(s, e, Nowhere, x), NEW q \in Seq(HandlerRecords),
         NEW t, t = [s EXCEPT !.handlers = q]
  PROVE  /\ Good(t, e, Nowhere, x) /\ t.handlers = q /\ t.status = s.status /\ t.gc = s.gc
         /\ t.regs = s.regs /\ t.globals = s.globals /\ t.data = s.data /\ t.frames = s.frames
         /\ t.live = s.live
  <1>1. s \in VmStates
    BY DEF Good, Sound
  <1>2. /\ t \in VmStates /\ SameStore(s, t) /\ t.handlers = q
        /\ t.regs = s.regs /\ t.globals = s.globals /\ t.data = s.data
        /\ t.frames = s.frames /\ t.status = s.status
    BY <1>1, PutHandlers
  <1>3. \A c : RootsOn(t, c) = RootsOn(s, c)
    BY <1>2, SameRoots
  <1>4. \A c \in Cells : RootsOn(t, c) + e[c] = RootsOn(s, c) + e[c]
    BY <1>3
  <1>5. Good(t, e, Nowhere, x)
    BY <1>2, <1>4, MovesFree
  <1> QED
    BY <1>2, <1>5 DEF SameStore

\* A throw with a handler h, to the depths it recorded.
Caught(s, t, h) ==
    /\ Good(t, Nothing, Nowhere, 0) /\ t.status = s.status /\ t.gc = s.gc
    /\ s.handlers # <<>> /\ h = Top(s.handlers) /\ t.handlers = Pop(s.handlers)
    /\ Len(t.frames) = (IF h.callDepth < Len(s.frames) THEN h.callDepth ELSE Len(s.frames))
    /\ Len(t.data) <= Len(s.data)

\* A throw keeps the collector in agreement, also when the exception has no root yet.
LEMMA CaughtGood ==
  ASSUME NEW s, NEW x, Good(s, Nothing, Nowhere, x), NEW v, Storable(s, v), x \in {0, v},
         s.handlers # <<>>, NEW t, t = ThrowValue(s, v)
  PROVE  Caught(s, t, Top(s.handlers))
  <1>1. PICK h : h = Top(s.handlers)
    OBVIOUS
  <1>2. PICK q : q = Pop(s.handlers)
    OBVIOUS
  <1>3. s \in VmStates /\ s.handlers \in Seq(HandlerRecords) /\ Numbers(Nothing)
    BY Holders DEF Good, Sound, Numbers, Nothing
  <1>4. q \in Seq(HandlerRecords) /\ h \in HandlerRecords
    BY <1>1, <1>2, <1>3, PopIs
  <1>5. h.reg \in Regs /\ h.callDepth \in Nat /\ h.dataDepth \in Nat
    BY <1>4 DEF HandlerRecords
  <1>6. PICK s1 : s1 = [s EXCEPT !.handlers = q]
    OBVIOUS
  <1>7. /\ Good(s1, Nothing, Nowhere, x) /\ s1.handlers = q /\ s1.status = s.status /\ s1.gc = s.gc
        /\ s1.regs = s.regs /\ s1.globals = s.globals /\ s1.data = s.data /\ s1.frames = s.frames
        /\ s1.live = s.live
    BY <1>4, <1>6, HandlersGood
  <1>8. PICK e : e = Rooting(Nothing, v)
    OBVIOUS
  <1>9. PICK s2 : s2 = GcRootAdd(s1, v)
    OBVIOUS
  <1>10. Good(s2, e, Nowhere, 0) /\ SameProgram(s1, s2) /\ Numbers(e)
    <2>1. \A c \in Cells : e[c] = Nothing[c] + One(v, c)
      BY <1>8 DEF Rooting
    <2>2. Storable(s1, v)
      BY <1>7 DEF Storable
    <2>3. Kept(s1, s2, e) /\ Numbers(e)
      BY <1>3, <1>7, <1>9, <2>1, <2>2, AddRoot
    <2> QED
      BY <2>3 DEF Kept
  <1>11. PICK d : d = h.callDepth
    OBVIOUS
  <1>12. PICK s3 : s3 = UnwindCalls(s2, d)
    OBVIOUS
  <1>13. /\ Good(s3, e, Nowhere, 0) /\ OnlyFrames(s2, s3)
         /\ Len(s3.frames) = IF d < Len(s2.frames) THEN d ELSE Len(s2.frames)
    BY <1>5, <1>10, <1>11, <1>12, UnwindCallsGood
  <1>14. PICK n : n = h.dataDepth
    OBVIOUS
  <1>15. PICK s4 : s4 = UnwindSpills(s3, n)
    OBVIOUS
  <1>16. Good(s4, e, Nowhere, 0) /\ OnlySpills(s3, s4) /\ Len(s4.data) <= Len(s3.data)
    BY <1>5, <1>10, <1>13, <1>14, <1>15, UnwindSpillsGood
  <1>17. PICK r : r = h.reg
    OBVIOUS
  <1>18. t = GcRootRemove(SetReg(s4, r, v), v)
    BY <1>1, <1>2, <1>6, <1>9, <1>11, <1>12, <1>14, <1>15, <1>17 DEF ThrowValue, HandOver
  <1>19. Good(t, Nothing, Nowhere, 0) /\ WroteReg(s4, t, r, v)
    <2>1. \A c \in Cells : e[c] = Nothing[c] + One(v, c)
      BY <1>8 DEF Rooting
    <2>2. r \in Regs /\ v \in Values
      BY <1>5, <1>17 DEF Storable
    <2> QED
      BY <1>3, <1>16, <1>18, <2>1, <2>2, HandedGood
  <1>20. t.status = s.status /\ t.gc = s.gc /\ t.handlers = q
    BY <1>7, <1>10, <1>13, <1>16, <1>19
       DEF SameProgram, OnlyFrames, OnlySpills, WroteReg, OnlyRegs
  <1>21. Len(t.frames) = IF d < Len(s.frames) THEN d ELSE Len(s.frames)
    BY <1>7, <1>10, <1>13, <1>16, <1>19
       DEF SameProgram, OnlySpills, WroteReg, OnlyRegs
  <1>22. Len(t.data) <= Len(s.data)
    BY <1>7, <1>10, <1>13, <1>16, <1>19
       DEF SameProgram, OnlyFrames, WroteReg, OnlyRegs
  <1> QED
    BY <1>1, <1>2, <1>11, <1>19, <1>20, <1>21, <1>22 DEF Caught

-----------------------------------------------------------------------------
(* Fields *)

\* The field at h is hidden, or it refers to nothing.
LEMMA ViewOfBlank ==
  ASSUME NEW cl, cl \in [Cells -> [Fields -> Values]], NEW o \in Cells, NEW f \in Fields,
         cl[o][f] = 0, NEW h, h = <<o, f>>
  PROVE  View(cl, h) = View(cl, Nowhere)
  <1>1. \A a \in Cells : \A g \in Fields :
           (IF h = <<a, g>> THEN 0 ELSE cl[a][g]) = (IF Nowhere = <<a, g>> THEN 0 ELSE cl[a][g])
    <2> SUFFICES ASSUME NEW a \in Cells, NEW g \in Fields
                 PROVE (IF h = <<a, g>> THEN 0 ELSE cl[a][g]) = (IF Nowhere = <<a, g>> THEN 0 ELSE cl[a][g])
      OBVIOUS
    <2>1. Nowhere # <<a, g>>
      BY Sizes DEF Nowhere
    <2> QED
      BY <2>1
  <1> QED
    BY <1>1 DEF View

\* What it refers to does not matter while it is hidden.
LEMMA ViewHides ==
  ASSUME NEW cl, NEW cl2, NEW o \in Cells, NEW f \in Fields, SameBut(cl, cl2, o, f),
         NEW h, h = <<o, f>>
  PROVE  View(cl2, h) = View(cl, h)
  <1>1. \A a \in Cells : \A g \in Fields : h # <<a, g>> => cl2[a][g] = cl[a][g]
    BY DEF SameBut
  <1> QED
    BY <1>1 DEF View

\* Overwriting a field: the old reference goes before the new one comes.
Overwrites(s, a, b, o, f, new) ==
    a = GcEdgeRemove(s, o, s.cells[o][f]) /\ b = [a EXCEPT !.cells[o][f] = new]

\* ... and the collector agrees again afterwards.
LEMMA StoreGood ==
  ASSUME NEW s, Good(s, Nothing, Nowhere, 0), NEW o \in Cells, NEW f \in Fields, NEW new \in Values,
         RootsOn(s, o) > 0, new # 0 => RootsOn(s, new) > 0,
         NEW a, NEW b, Overwrites(s, a, b, o, f, new), NEW t, t = GcEdgeAdd(b, o, new)
  PROVE  Kept(s, t, Nothing)
  <1>1. PICK h : h = <<o, f>>
    OBVIOUS
  <1>2. PICK R : R = Held(s, Nothing)
    OBVIOUS
  <1>3. s \in VmStates /\ Sound(s, R, Nowhere, 0) /\ Settled(s)
    BY <1>2 DEF Good, Sound
  <1> PICK old : old = s.cells[o][f]
    OBVIOUS
  <1>4. s.cells \in [Cells -> [Fields -> Values]] /\ old \in Values
    BY <1>3, EngineParts
  <1>5. Numbers(R) /\ R[o] > 0 /\ (new # 0 => new \in Cells /\ R[new] > 0)
    <2>1. Numbers(Nothing)
      BY DEF Numbers, Nothing
    <2>2. /\ Numbers(R)
          /\ \A c \in Cells : R[c] = RootsOn(s, c) + Nothing[c] /\ RootsOn(s, c) \in Nat
      BY <1>2, <1>3, <2>1, HeldType
    <2>3. \A c \in Cells : R[c] = RootsOn(s, c)
      BY <2>2 DEF Nothing
    <2> QED
      BY <2>2, <2>3 DEF Values
  <1>6. Done(s, a, R, h)
    <2>1. CASE old = 0
      <3>1. a = s
        BY <2>1 DEF Overwrites, GcEdgeRemove
      <3>2. View(s.cells, h) = View(s.cells, Nowhere)
        BY <1>1, <1>4, <2>1, ViewOfBlank
      <3>3. Sound(s, R, h, 0)
        BY <1>3, <3>2 DEF Sound
      <3> QED
        BY <1>3, <3>1, <3>3 DEF Done, SameProgram
    <2>2. CASE old # 0
      <3>1. old \in Cells
        BY <1>4, <2>2 DEF Values
      <3>2. a = GcEdgeRemove(s, o, old)
        BY DEF Overwrites
      <3> QED
        BY <1>1, <1>3, <1>5, <3>1, <3>2, EdgeRemoveGood
    <2> QED
      BY <2>1, <2>2
  <1>7. a \in VmStates /\ Sound(a, R, h, 0) /\ SameProgram(s, a) /\ Settled(a)
    BY <1>6 DEF Done, Sound
  <1>8. /\ b \in VmStates /\ SameProgram(a, b)
        /\ b.cells = [a.cells EXCEPT ![o] = [a.cells[o] EXCEPT ![f] = new]]
        /\ b.live = a.live /\ b.rc = a.rc /\ b.eng = a.eng /\ b.errors = a.errors
        /\ b.since = a.since
    <2>1. b = [a EXCEPT !.cells[o][f] = new]
      BY DEF Overwrites
    <2> QED
      BY <1>7, <2>1 DEF VmStates, SameProgram
  <1>9. a.cells \in [Cells -> [Fields -> Values]] /\ b.cells \in [Cells -> [Fields -> Values]]
    BY <1>7, <1>8, EngineParts
  <1>10. b.cells[o][f] = new
    BY <1>8, <1>9
  <1>11. View(b.cells, h) = View(a.cells, h)
    <2>1. SameBut(a.cells, b.cells, o, f)
      BY <1>8, <1>9 DEF SameBut
    <2> QED
      BY <1>1, <2>1, ViewHides
  <1>12. Arc(b) <=> Arc(a)
    BY <1>8 DEF SameProgram, Arc
  <1>13. Sound(b, R, h, 0)
    BY <1>7, <1>8, <1>11, <1>12 DEF Sound
  <1>14. Settled(b)
    <2>1. Interval(b) = Interval(a)
      BY <1>8 DEF SameProgram, Interval, Adaptive
    <2> QED
      BY <1>7, <1>8, <1>12, <2>1 DEF Settled
  <1>15. Done(b, t, R, Nowhere)
    <2>1. CASE new = 0
      <3>1. t = b
        BY <2>1 DEF GcEdgeAdd
      <3>2. View(b.cells, h) = View(b.cells, Nowhere)
        BY <1>1, <1>9, <1>10, <2>1, ViewOfBlank
      <3>3. Sound(b, R, Nowhere, 0)
        BY <1>13, <3>2 DEF Sound
      <3> QED
        BY <1>14, <3>1, <3>3 DEF Done, SameProgram
    <2>2. CASE new # 0
      <3>1. new \in Cells /\ R[new] > 0
        BY <1>5, <2>2
      <3> QED
        BY <1>1, <1>5, <1>10, <1>13, <1>14, <3>1, EdgeAddGood
    <2> QED
      BY <2>1, <2>2
  <1>16. SameProgram(s, t) /\ Sound(t, R, Nowhere, 0) /\ Settled(t)
    BY <1>7, <1>8, <1>15 DEF Done, SameProgram
  <1>17. Held(t, Nothing) = R
    <2>1. \A c : RootsOn(t, c) = RootsOn(s, c)
      BY <1>16, SameRoots DEF SameProgram
    <2> QED
      BY <1>2, <2>1 DEF Held
  <1> QED
    BY <1>16, <1>17 DEF Kept, Good

\* HLoad: a field of a live object may be stored.
LEMMA FieldStorable ==
  ASSUME NEW s, Good(s, Nothing, Nowhere, 0), NEW o \in Cells, NEW f \in Fields, NEW v, v = s.cells[o][f]
  PROVE  Storable(s, v)
  <1>1. s \in VmStates /\ Sound(s, Held(s, Nothing), Nowhere, 0) /\ Numbers(Nothing)
    BY DEF Good, Sound, Numbers, Nothing
  <1>2. s.cells \in [Cells -> [Fields -> Values]] /\ v \in Values
    BY <1>1, EngineParts
  <1>3. PICK R : R = Held(s, Nothing)
    OBVIOUS
  <1>4. PICK cl : cl = View(s.cells, Nowhere)
    OBVIOUS
  <1>5. cl = s.cells
    BY <1>2, <1>4, ViewIs
  <1>6. Numbers(R) /\ Sound(s, R, Nowhere, 0)
    BY <1>1, <1>3, HeldType
  <1>7. v # 0 => s.live[v]
    <2> SUFFICES ASSUME v # 0 PROVE s.live[v]
      OBVIOUS
    <2>1. cl[o][f] # 0 /\ cl[o][f] = v
      BY <1>5
    <2>2. cl[o][f] \in Cells /\ s.live[cl[o][f]]
      BY <1>4, <1>6, <2>1, FieldLives
    <2> QED
      BY <2>1, <2>2
  <1> QED
    BY <1>2, <1>7 DEF Storable

-----------------------------------------------------------------------------
(* Arguments, globals and the end of the program *)

\* CallInd moves the arguments up by one register.
LEMMA MoveArgumentsGood ==
  ASSUME NEW s, NEW e, Good(s, e, Nowhere, 0), Numbers(e), NEW m \in Nat, m < NArgs,
         NEW w, w = MoveArguments(s, m)
  PROVE  Good(w, e, Nowhere, 0) /\ OnlyRegs(s, w)
  <1> DEFINE Move(u, i) == SetReg(u, m - i + 2, u.regs[m - i + 1])
             U == {u \in VmStates : OnlyRegs(s, u) /\ Good(u, e, Nowhere, 0)}
             T == [n \in Int |-> U]
             k == [p \in U \X Int |-> Move(p[1], p[2])]
  <1>1. 1 \in Int /\ m \in Int /\ 1 - 1 \in Int
    OBVIOUS
  <1>2. s \in U /\ s \in T[1 - 1]
    BY DEF Good, Sound, OnlyRegs
  <1>3. \A n \in 1..m : \A u \in T[n - 1] : Move(u, n) \in T[n]
    <2> SUFFICES ASSUME NEW n \in 1..m, NEW u \in T[n - 1] PROVE Move(u, n) \in T[n]
      OBVIOUS
    <2>1. n \in Int /\ n - 1 \in Int
      OBVIOUS
    <2>2. u \in VmStates /\ OnlyRegs(s, u) /\ Good(u, e, Nowhere, 0)
      BY <2>1
    <2>3. PICK r : r = m - n + 2
      OBVIOUS
    <2>4. PICK q : q = m - n + 1
      OBVIOUS
    <2>5. r \in Regs /\ q \in Regs
      BY <2>3, <2>4, Sizes DEF Regs
    <2>6. PICK v : v = u.regs[q]
      OBVIOUS
    <2>7. Storable(u, v)
      <3>1. v \in Values
        BY <2>2, <2>5, <2>6, Holders
      <3>2. RootsOn(u, v) > 0
        BY <2>2, <2>5, <2>6, RootsType
      <3> QED
        BY <2>2, <3>1, <3>2, HeldLives
    <2>8. PICK t : t = SetReg(u, r, v)
      OBVIOUS
    <2>9. Good(t, e, Nowhere, 0) /\ WroteReg(u, t, r, v)
      <3>1. 0 \in {0, v}
        OBVIOUS
      <3> QED
        BY <2>2, <2>5, <2>7, <2>8, <3>1, SetRegGood
    <2>10. t \in VmStates /\ OnlyRegs(s, t)
      BY <2>2, <2>9 DEF Good, Sound, WroteReg, OnlyRegs
    <2>11. t = Move(u, n)
      BY <2>3, <2>4, <2>6, <2>8
    <2>12. t \in U
      BY <2>9, <2>10
    <2> HIDE DEF U, Move
    <2> QED
      BY <2>1, <2>11, <2>12
  <1>4. \A n \in 1..m : \A x \in T[n - 1] : k[<<x, n>>] = Move(x, n)
    <2> SUFFICES ASSUME NEW n \in 1..m, NEW x \in T[n - 1] PROVE k[<<x, n>>] = Move(x, n)
      OBVIOUS
    <2>1. n \in Int /\ n - 1 \in Int
      BY <1>1
    <2>2. x \in U
      BY <2>1
    <2> HIDE DEF U, T, Move
    <2> QED
      BY <2>1, <2>2
  <1>5. CASE m < 1
    <2>1. w = s
      BY <1>5 DEF MoveArguments, For
    <2> QED
      BY <1>2, <2>1
  <1>6. CASE 1 <= m
    <2>1. w \in T[m]
      <3> HIDE DEF T, k, U, Move
      <3>1. 1 \in Int /\ m \in Int /\ 1 <= m
        BY <1>1, <1>6
      <3>2. PICK f : IsLoop(f, k, s, 1, m) /\ \A n \in (1 - 1)..m : f[n] \in T[n]
        <4>1. \A n \in 1..m : \A x \in T[n - 1] : k[<<x, n>>] \in T[n]
          BY <1>3, <1>4
        <4> QED
          BY <1>2, <3>1, <4>1, LoopRuns DEF StepsWithin
      <3>3. f = [n \in (1 - 1)..m |-> IF n < 1 THEN s ELSE Move(f[n - 1], n)]
        <4>1. f = [n \in (1 - 1)..m |-> IF n < 1 THEN s ELSE k[<<f[n - 1], n>>]]
          BY <3>2 DEF IsLoop
        <4>2. \A n \in (1 - 1)..m : ~(n < 1) => k[<<f[n - 1], n>>] = Move(f[n - 1], n)
          BY <1>4, <3>1, <3>2
        <4> QED
          BY <4>1, <4>2
      <3> DEFINE g[n \in (1 - 1)..m] == IF n < 1 THEN s ELSE Move(g[n - 1], n)
      <3>4. w = g[m]
        BY <3>1 DEF MoveArguments, For, Move
      <3>5. g = [n \in (1 - 1)..m |-> IF n < 1 THEN s ELSE Move(g[n - 1], n)]
        BY <3>3
      <3> HIDE DEF g
      <3>6. g[1 - 1] \in T[1 - 1]
        BY <1>2, <3>1, <3>5
      <3>7. \A n \in 1..m : g[n - 1] \in T[n - 1] => g[n] \in T[n]
        <4>1. \A n \in 1..m : g[n] = Move(g[n - 1], n)
          BY <3>1, <3>5
        <4> QED
          BY <1>3, <4>1
      <3>8. \A n \in (1 - 1)..m : g[n] \in T[n]
        BY <3>1, <3>6, <3>7, LoopStays
      <3> QED
        BY <3>1, <3>4, <3>8
    <2> QED
      BY <1>1, <2>1
  <1> QED
    BY <1>1, <1>5, <1>6

\* The globals give up their references.
LEMMA ClearGlobalsGood ==
  ASSUME NEW s, NEW e, Good(s, e, Nowhere, 0), Numbers(e), NEW w, w = ClearGlobals(s)
  PROVE  Good(w, e, Nowhere, 0) /\ OnlyGlobals(s, w) /\ \A g \in Globals : w.globals[g] = 0
  <1> DEFINE U == {u \in VmStates : OnlyGlobals(s, u) /\ Good(u, e, Nowhere, 0)}
             T == [n \in Int |-> {u \in U : \A i \in 1..n : u.globals[i] = 0}]
             k == [p \in U \X Int |-> SetGlobal(p[1], p[2], 0)]
  <1>1. 1 \in Int /\ NGlobals \in Int /\ 1 - 1 \in Int /\ Globals = 1..NGlobals
    BY Sizes DEF Globals
  <1>2. s \in T[1 - 1]
    <2>1. s \in U
      BY DEF Good, Sound, OnlyGlobals
    <2> HIDE DEF U
    <2> QED
      BY <1>1, <2>1
  <1>3. \A n \in 1..NGlobals : \A u \in T[n - 1] : SetGlobal(u, n, 0) \in T[n]
    <2> SUFFICES ASSUME NEW n \in 1..NGlobals, NEW u \in T[n - 1] PROVE SetGlobal(u, n, 0) \in T[n]
      OBVIOUS
    <2>1. n \in Int /\ n - 1 \in Int /\ n \in Globals
      BY <1>1
    <2>2. OnlyGlobals(s, u) /\ Good(u, e, Nowhere, 0) /\ \A i \in 1..(n - 1) : u.globals[i] = 0
      BY <2>1
    <2>3. PICK t : t = SetGlobal(u, n, 0)
      OBVIOUS
    <2>4. Storable(u, 0)
      BY DEF Storable, Values
    <2>5. Good(t, e, Nowhere, 0) /\ WroteGlobal(u, t, n, 0)
      BY <2>1, <2>2, <2>3, <2>4, SetGlobalGood
    <2>6. t \in VmStates /\ OnlyGlobals(s, t)
      BY <2>2, <2>5 DEF Good, Sound, WroteGlobal, OnlyGlobals
    <2>7. \A i \in 1..n : t.globals[i] = 0
      <3>1. u.globals \in [Globals -> Values] /\ t.globals = [u.globals EXCEPT ![n] = 0]
        BY <2>2, <2>5, Holders DEF Good, Sound, WroteGlobal
      <3> SUFFICES ASSUME NEW i \in 1..n PROVE t.globals[i] = 0
        OBVIOUS
      <3>2. i \in Globals
        BY <1>1
      <3>3. i = n \/ i \in 1..(n - 1)
        BY <2>1
      <3> QED
        BY <2>1, <2>2, <3>1, <3>2, <3>3
    <2>8. t \in U
      BY <2>5, <2>6
    <2> HIDE DEF U
    <2> QED
      BY <2>1, <2>3, <2>7, <2>8
  <1>4. \A n \in 1..NGlobals : \A x \in T[n - 1] : k[<<x, n>>] = SetGlobal(x, n, 0)
    <2> SUFFICES ASSUME NEW n \in 1..NGlobals, NEW x \in T[n - 1] PROVE k[<<x, n>>] = SetGlobal(x, n, 0)
      OBVIOUS
    <2>1. n \in Int /\ n - 1 \in Int
      BY <1>1
    <2>2. x \in U
      BY <2>1
    <2> HIDE DEF U, T
    <2> QED
      BY <2>1, <2>2
  <1>5. CASE NGlobals < 1
    <2>1. w = s
      BY <1>5 DEF ClearGlobals, For
    <2>2. OnlyGlobals(s, s)
      BY DEF OnlyGlobals
    <2> QED
      BY <1>1, <1>5, <2>1, <2>2
  <1>6. CASE 1 <= NGlobals
    <2>1. w \in T[NGlobals]
      <3> HIDE DEF T, k, U
      <3>1. 1 \in Int /\ NGlobals \in Int /\ 1 <= NGlobals
        BY <1>1, <1>6
      <3>2. PICK f : IsLoop(f, k, s, 1, NGlobals) /\ \A n \in (1 - 1)..NGlobals : f[n] \in T[n]
        <4>1. \A n \in 1..NGlobals : \A x \in T[n - 1] : k[<<x, n>>] \in T[n]
          BY <1>3, <1>4
        <4> QED
          BY <1>2, <3>1, <4>1, LoopRuns DEF StepsWithin
      <3>3. f = [n \in (1 - 1)..NGlobals |-> IF n < 1 THEN s ELSE SetGlobal(f[n - 1], n, 0)]
        <4>1. f = [n \in (1 - 1)..NGlobals |-> IF n < 1 THEN s ELSE k[<<f[n - 1], n>>]]
          BY <3>2 DEF IsLoop
        <4>2. \A n \in (1 - 1)..NGlobals : ~(n < 1) => k[<<f[n - 1], n>>] = SetGlobal(f[n - 1], n, 0)
          BY <1>4, <3>1, <3>2
        <4> QED
          BY <4>1, <4>2
      <3> DEFINE g[n \in (1 - 1)..NGlobals] == IF n < 1 THEN s ELSE SetGlobal(g[n - 1], n, 0)
      <3>4. w = g[NGlobals]
        BY <3>1 DEF ClearGlobals, For
      <3>5. g = [n \in (1 - 1)..NGlobals |-> IF n < 1 THEN s ELSE SetGlobal(g[n - 1], n, 0)]
        BY <3>3
      <3> HIDE DEF g
      <3>6. g[1 - 1] \in T[1 - 1]
        BY <1>2, <3>1, <3>5
      <3>7. \A n \in 1..NGlobals : g[n - 1] \in T[n - 1] => g[n] \in T[n]
        <4>1. \A n \in 1..NGlobals : g[n] = SetGlobal(g[n - 1], n, 0)
          BY <3>1, <3>5
        <4> QED
          BY <1>3, <4>1
      <3>8. \A n \in (1 - 1)..NGlobals : g[n] \in T[n]
        BY <3>1, <3>6, <3>7, LoopStays
      <3> QED
        BY <3>1, <3>4, <3>8
    <2> QED
      BY <1>1, <2>1
  <1> QED
    BY <1>1, <1>5, <1>6

\* A machine that holds nothing has no roots.
LEMMA NoRoots ==
  ASSUME NEW s \in VmStates, \A r \in Regs : s.regs[r] = 0, \A g \in Globals : s.globals[g] = 0,
         Len(s.data) = 0, s.frames = <<>>, NEW c \in Cells
  PROVE  RootsOn(s, c) = 0
  <1>1. c # 0
    BY Sizes
  <1>2. Hits(Regs, s.regs, c) = 0 /\ Hits(Globals, s.globals, c) = 0
    <2>1. {r \in Regs : s.regs[r] = c} = {} /\ {g \in Globals : s.globals[g] = c} = {}
      BY <1>1
    <2> QED
      BY <2>1, FS_EmptySet DEF Hits
  <1>3. Hits(1..Len(s.data), Spilled(s.data), c) = 0
    <2>1. 1..Len(s.data) = {}
      OBVIOUS
    <2>2. {i \in 1..Len(s.data) : Spilled(s.data)[i] = c} = {}
      BY <2>1
    <2> QED
      BY <2>2, FS_EmptySet DEF Hits
  <1>4. Hits(SavedAt(s.frames), SavedIn(s.frames), c) = 0
    <2>1. 1..Len(s.frames) = {}
      OBVIOUS
    <2>2. SavedAt(s.frames) = {}
      BY <2>1 DEF SavedAt
    <2>3. {x \in SavedAt(s.frames) : SavedIn(s.frames)[x] = c} = {}
      BY <2>2
    <2> QED
      BY <2>3, FS_EmptySet DEF Hits
  <1> QED
    BY <1>2, <1>3, <1>4, RootsAre

\* Without roots, candidates and suspects nothing is live: every live cell hangs off one.
LEMMA NothingLive ==
  ASSUME NEW g, NEW lv, NEW cl, NEW R, EngGood(g, lv, cl, R, 0), \A c \in Cells : R[c] = 0,
         g.zero = {}, g.stack = {}
  PROVE  \A c \in Cells : ~lv[c]
  <1>1. ASSUME NEW c \in Cells, lv[c], Anchor(g, c) PROVE FALSE
    <2>1. g.root[c] = 0
      BY DEF EngGood
    <2>2. Total(g, c) # 0
      <3>1. c # 0
        BY Sizes
      <3> QED
        BY <1>1, <3>1 DEF EngGood, ZerosQueued
    <2> QED
      BY <1>1, <2>1, <2>2 DEF Anchor
  <1>2. Covers(g, lv, {})
    BY <1>1 DEF Covers
  <1>3. {} \in SUBSET Cells /\ Anchored(g, lv)
    BY DEF EngGood
  <1>4. AllIn(lv, {})
    BY <1>2, <1>3 DEF Anchored
  <1> QED
    BY <1>4 DEF AllIn

\* finishGC: everything is given up; with no frame left the inline collector frees all.
Finished(s, t) ==
    /\ Good(t, Nothing, Nowhere, 0)
    /\ t.gc = s.gc /\ t.frames = s.frames /\ t.handlers = s.handlers /\ t.status = s.status
    /\ Len(t.data) = 0
    /\ s.frames = <<>> /\ ~Arc(s) => \A c \in Cells : ~t.live[c]

\* The end of the program, with every collector.
LEMMA FinishGood ==
  ASSUME NEW s, Good(s, Nothing, Nowhere, 0), NEW t, t = FinishGC(s)
  PROVE  Finished(s, t)
  <1>1. Numbers(Nothing)
    BY DEF Numbers, Nothing
  <1>2. PICK a : a = ClearRegs(s)
    OBVIOUS
  <1>3. Good(a, Nothing, Nowhere, 0) /\ OnlyRegs(s, a) /\ \A r \in Regs : a.regs[r] = 0
    <2>1. 0 \in Nat /\ LastLocal \in Nat /\ LastLocal <= LastLocal
      BY Sizes
    <2>2. a = For(ClearReg, s, 0, LastLocal)
      BY <1>2 DEF ClearRegs
    <2>3. Good(a, Nothing, Nowhere, 0) /\ OnlyRegs(s, a) /\ \A r \in 0..LastLocal : a.regs[r] = 0
      BY <1>1, <2>1, <2>2, ClearGood
    <2> QED
      BY <2>3 DEF Regs
  <1>4. PICK b : b = ClearGlobals(a)
    OBVIOUS
  <1>5. Good(b, Nothing, Nowhere, 0) /\ OnlyGlobals(a, b) /\ \A g \in Globals : b.globals[g] = 0
    BY <1>1, <1>3, <1>4, ClearGlobalsGood
  <1>6. PICK d : d = DropSpills(b)
    OBVIOUS
  <1>7. Good(d, Nothing, Nowhere, 0) /\ OnlySpills(b, d) /\ d.regs = b.regs /\ Len(d.data) = 0
    BY <1>1, <1>5, <1>6, DropSpillsGood
  <1>8. t = Shutdown(d)
    BY <1>2, <1>4, <1>6 DEF FinishGC
  <1>9. /\ d.gc = s.gc /\ d.frames = s.frames /\ d.handlers = s.handlers /\ d.status = s.status
        /\ d \in VmStates /\ Len(d.data) = 0
        /\ \A r \in Regs : d.regs[r] = 0
        /\ \A g \in Globals : d.globals[g] = 0
    BY <1>3, <1>5, <1>7 DEF OnlyRegs, OnlyGlobals, OnlySpills, Good, Sound
  <1>10. CASE Arc(s)
    <2>1. Arc(d)
      BY <1>9, <1>10 DEF Arc
    <2>2. t = d
      BY <1>8, <2>1 DEF Shutdown
    <2> QED
      BY <1>7, <1>9, <1>10, <2>2 DEF Finished
  <1>11. CASE ~Arc(s)
    <2>1. ~Arc(d)
      BY <1>9, <1>11 DEF Arc
    <2>2. t = FullSweep(d)
      BY <1>8, <2>1 DEF Shutdown
    <2>3. PICK R : R = Held(d, Nothing)
      OBVIOUS
    <2>4. Sound(d, R, Nowhere, 0)
      BY <1>7, <2>3 DEF Good
    <2>5. Sound(t, R, Nowhere, 0) /\ SameProgram(d, t) /\ ~Arc(t) /\ t.eng.stack = {} /\ t.eng.zero = {}
      BY <2>1, <2>2, <2>4, FullSweepEnds
    <2>6. PICK cl : cl = View(t.cells, Nowhere)
      OBVIOUS
    <2>7. PICK g : g = t.eng
      OBVIOUS
    <2>8. EngGood(g, t.live, cl, R, 0) /\ g.stack = {} /\ g.zero = {}
      BY <2>5, <2>6, <2>7 DEF Sound
    <2>9. Settled(t)
      <3>1. g.marks = {}
        BY <2>8 DEF EngGood, MarksQueued
      <3> QED
        BY <2>7, <2>8, <3>1 DEF Settled
    <2>10. Held(t, Nothing) = R
      <3>1. \A c : RootsOn(t, c) = RootsOn(d, c)
        BY <2>5, SameRoots DEF SameProgram
      <3> QED
        BY <2>3, <3>1 DEF Held
    <2>11. Good(t, Nothing, Nowhere, 0)
      BY <2>5, <2>9, <2>10 DEF Good
    <2>12. ASSUME s.frames = <<>> PROVE \A c \in Cells : ~t.live[c]
      <3>1. d.frames = <<>>
        BY <1>9, <2>12
      <3>2. \A c \in Cells : RootsOn(d, c) = 0
        BY <1>9, <3>1, NoRoots
      <3>3. \A c \in Cells : R[c] = 0
        BY <2>3, <3>2 DEF Held, Nothing
      <3> QED
        BY <2>8, <3>3, NothingLive
    <2> QED
      BY <1>9, <2>5, <2>11, <2>12 DEF Finished, SameProgram
  <1> QED
    BY <1>10, <1>11

-----------------------------------------------------------------------------
(* Handlers *)

\* Handlers belong to the n calls that are active and are ordered by call depth.
Sorted(hs, n) ==
    \A i \in 1..Len(hs) : hs[i].callDepth <= n /\ \A j \in 1..i : hs[j].callDepth <= hs[i].callDepth

\* They are records with a depth.
LEMMA HandlersAre ==
  ASSUME NEW hs \in Seq(HandlerRecords)
  PROVE  /\ Len(hs) \in Nat
         /\ \A i \in 1..Len(hs) : hs[i] \in HandlerRecords
         /\ \A i \in 1..Len(hs) : hs[i].callDepth \in Nat
  <1>1. Len(hs) \in Nat /\ \A i \in 1..Len(hs) : hs[i] \in HandlerRecords
    OBVIOUS
  <1>2. \A h \in HandlerRecords : h.callDepth \in Nat
    BY DEF HandlerRecords
  <1> QED
    BY <1>1, <1>2

\* The first k of them.
FirstOf(hs, q, k) == k \in 0..Len(hs) /\ Len(q) = k /\ \A i \in 1..k : q[i] = hs[i]

\* Handlers at the bottom of the stack stay ordered, and belong to fewer calls.
LEMMA SortedFirst ==
  ASSUME NEW hs \in Seq(HandlerRecords), NEW n, Sorted(hs, n), NEW q, NEW k, FirstOf(hs, q, k)
  PROVE  /\ Sorted(q, n)
         /\ \A m \in Nat : (k > 0 => hs[k].callDepth <= m) => Sorted(q, m)
  <1>1. Len(hs) \in Nat /\ \A i \in 1..Len(hs) : hs[i].callDepth \in Nat
    BY HandlersAre
  <1>2. k \in Nat /\ k <= Len(hs) /\ Len(q) = k /\ \A i \in 1..k : q[i] = hs[i]
    BY <1>1 DEF FirstOf
  <1>3. \A i \in 1..k : i \in 1..Len(hs) /\ \A j \in 1..i : j \in 1..k
    BY <1>1, <1>2
  <1>4. Sorted(q, n)
    BY <1>2, <1>3 DEF Sorted
  <1>5. ASSUME NEW m \in Nat, k > 0 => hs[k].callDepth <= m PROVE Sorted(q, m)
    <2> SUFFICES ASSUME NEW i \in 1..k
                 PROVE  q[i].callDepth <= m /\ \A j \in 1..i : q[j].callDepth <= q[i].callDepth
      BY <1>2 DEF Sorted
    <2>1. k > 0 /\ k \in 1..Len(hs) /\ i \in 1..k /\ q[i] = hs[i]
      BY <1>1, <1>2
    <2>2. hs[i].callDepth <= hs[k].callDepth
      BY <2>1 DEF Sorted
    <2>3. hs[i].callDepth \in Nat /\ hs[k].callDepth \in Nat /\ hs[k].callDepth <= m
      BY <1>1, <1>3, <1>5, <2>1
    <2>4. q[i].callDepth <= m
      BY <2>1, <2>2, <2>3
    <2> QED
      BY <1>2, <1>4, <2>4 DEF Sorted
  <1> QED
    BY <1>4, <1>5

\* More calls.
LEMMA SortedHigher ==
  ASSUME NEW hs \in Seq(HandlerRecords), NEW n \in Nat, Sorted(hs, n), NEW m \in Nat, n <= m
  PROVE  Sorted(hs, m)
  <1>1. Len(hs) \in Nat /\ \A i \in 1..Len(hs) : hs[i].callDepth \in Nat
    BY HandlersAre
  <1> QED
    BY <1>1 DEF Sorted

\* TryPop and a throw take the last handler, and the frames above its call go with it.
LEMMA SortedPop ==
  ASSUME NEW hs \in Seq(HandlerRecords), NEW n, Sorted(hs, n), hs # <<>>, NEW q, q = Pop(hs)
  PROVE  /\ q \in Seq(HandlerRecords) /\ Len(q) <= Len(hs)
         /\ Sorted(q, n) /\ Sorted(q, Top(hs).callDepth)
         /\ Top(hs).callDepth \in Nat /\ Top(hs).callDepth <= n
  <1>1. /\ q \in Seq(HandlerRecords) /\ Top(hs) \in HandlerRecords
        /\ Longer(hs, q, Len(hs)) /\ Top(hs) = hs[Len(hs)]
    BY PopIs
  <1>2. Len(hs) \in Nat \ {0} /\ Len(q) = Len(hs) - 1 /\ \A i \in 1..(Len(hs) - 1) : q[i] = hs[i]
    BY <1>1 DEF Longer
  <1>3. PICK k : k = Len(hs) - 1
    OBVIOUS
  <1>4. FirstOf(hs, q, k) /\ k \in Nat /\ Len(q) <= Len(hs)
    BY <1>2, <1>3 DEF FirstOf
  <1>5. PICK m : m = Top(hs).callDepth
    OBVIOUS
  <1>6. m \in Nat /\ m <= n
    <2>1. m \in Nat
      BY <1>1, <1>5 DEF HandlerRecords
    <2>2. Len(hs) \in 1..Len(hs)
      BY <1>2
    <2> QED
      BY <1>1, <1>5, <2>1, <2>2 DEF Sorted
  <1>7. k > 0 => hs[k].callDepth <= m
    <2>1. k > 0 => Len(hs) \in 1..Len(hs) /\ k \in 1..Len(hs)
      BY <1>2, <1>3
    <2> QED
      BY <1>1, <1>5, <2>1 DEF Sorted
  <1>8. Sorted(q, n) /\ Sorted(q, m)
    BY <1>4, <1>6, <1>7, SortedFirst
  <1> QED
    BY <1>1, <1>4, <1>5, <1>6, <1>8

\* TryPush: a handler of the innermost call.
LEMMA SortedPush ==
  ASSUME NEW hs \in Seq(HandlerRecords), NEW n \in Nat, Sorted(hs, n),
         NEW h \in HandlerRecords, h.callDepth = n, NEW q, q = Append(hs, h)
  PROVE  q \in Seq(HandlerRecords) /\ Len(q) = Len(hs) + 1 /\ Sorted(q, n)
  <1>1. q \in Seq(HandlerRecords) /\ Longer(q, hs, Len(hs) + 1) /\ q[Len(hs) + 1] = h
    <2>1. /\ q \in Seq(HandlerRecords) /\ Len(q) = Len(hs) + 1 /\ q[Len(hs) + 1] = h
          /\ \A i \in 1..Len(hs) : q[i] = hs[i]
      BY AppendProperties
    <2> QED
      BY <2>1, HandlersAre DEF Longer
  <1>0. Len(hs) \in Nat
    BY HandlersAre
  <1>2. PICK k : k = Len(hs) + 1
    OBVIOUS
  <1>3. /\ Len(hs) \in Nat /\ Len(q) = k /\ q[k] = h /\ k \in Nat
        /\ \A i \in 1..(k - 1) : q[i] = hs[i] /\ i \in 1..Len(hs)
    BY <1>0, <1>1, <1>2 DEF Longer
  <1>4. ASSUME NEW i \in 1..k
        PROVE  q[i].callDepth <= n /\ \A j \in 1..i : q[j].callDepth <= q[i].callDepth
    <2>1. CASE i \in 1..(k - 1)
      <3>1. \A j \in 1..i : j \in 1..(k - 1)
        BY <1>3, <2>1
      <3> QED
        BY <1>3, <2>1, <3>1 DEF Sorted
    <2>2. CASE i = k
      <3>1. \A j \in 1..i : j = k \/ j \in 1..(k - 1)
        BY <1>3, <2>2
      <3>2. \A j \in 1..(k - 1) : q[j].callDepth <= n
        BY <1>3 DEF Sorted
      <3>3. q[i].callDepth = n /\ n <= n
        BY <1>3, <2>2
      <3> QED
        BY <2>2, <3>1, <3>2, <3>3
    <2> QED
      BY <1>3, <2>1, <2>2
  <1> QED
    BY <1>1, <1>2, <1>3, <1>4 DEF Sorted

\* A set of numbers that is bounded and not empty has a greatest.
LEMMA GreatestIs ==
  ASSUME NEW n \in Nat, NEW S \in SUBSET (0..n), S # {}
  PROVE  Max(S) \in S /\ \A i \in S : i <= Max(S)
  <1> DEFINE D == {n - i : i \in S}
  <1>1. D \in SUBSET Nat /\ D # {}
    <2>1. \A i \in S : n - i \in Nat
      OBVIOUS
    <2> QED
      BY <2>1
  <1>2. \E d \in D : \A e \in D : d <= e
    BY <1>1, LeastNatural
  <1>3. PICK m \in S : \A i \in S : n - m <= n - i
    BY <1>2
  <1>4. \A i \in S : m >= i /\ i \in Nat
    BY <1>3
  <1>5. \E x \in S : \A y \in S : x >= y
    BY <1>4
  <1>6. Max(S) \in S /\ \A y \in S : Max(S) >= y
    BY <1>5 DEF Max
  <1>7. \A i \in S : i \in Nat
    OBVIOUS
  <1> QED
    BY <1>6, <1>7

\* Ret keeps the handlers of the calls below the one that returns.
LEMMA KeptSorted ==
  ASSUME NEW s \in VmStates, NEW n, n = Len(s.frames), Sorted(s.handlers, n),
         NEW q, q = KeptHandlers(s)
  PROVE  /\ q \in Seq(HandlerRecords) /\ Len(q) <= Len(s.handlers) /\ Sorted(q, n)
         /\ n > 0 => Sorted(q, n - 1)
  <1>1. PICK hs : hs = s.handlers
    OBVIOUS
  <1>2. hs \in Seq(HandlerRecords) /\ Len(hs) \in Nat /\ n \in Nat
    BY <1>1, Holders
  <1>3. PICK S : S = {0} \cup {i \in 1..Len(hs) : hs[i].callDepth < n}
    OBVIOUS
  <1>4. PICK k : k = Max(S)
    OBVIOUS
  <1>5. k \in S
    <2>1. S \in SUBSET (0..Len(hs)) /\ S # {}
      BY <1>2, <1>3
    <2> QED
      BY <1>2, <1>4, <2>1, GreatestIs
  <1>6. k \in 0..Len(hs) /\ (k > 0 => hs[k].callDepth < n)
    BY <1>2, <1>3, <1>5
  <1>7. q = SubSeq(hs, 1, k)
    BY <1>1, <1>3, <1>4 DEF KeptHandlers
  <1>8. q \in Seq(HandlerRecords) /\ Len(q) = k /\ \A i \in 1..k : q[i] = hs[i]
    BY <1>2, <1>6, <1>7, SubSeqProperties
  <1>9. FirstOf(hs, q, k) /\ Len(q) <= Len(hs)
    BY <1>2, <1>6, <1>8 DEF FirstOf
  <1>10. n > 0 => n - 1 \in Nat /\ (k > 0 => hs[k].callDepth <= n - 1)
    <2>1. k > 0 => hs[k].callDepth \in Nat
      BY <1>2, <1>6, HandlersAre
    <2> QED
      BY <1>2, <1>6, <2>1
  <1>11. Sorted(q, n) /\ (n > 0 => Sorted(q, n - 1))
    BY <1>1, <1>2, <1>9, <1>10, SortedFirst
  <1> QED
    BY <1>1, <1>8, <1>9, <1>11

-----------------------------------------------------------------------------
(* The invariant of the machine *)

\* The bounds on the three stacks.
Bounded(s) ==
    Len(s.frames) <= MaxFrames /\ Len(s.data) <= MaxData /\ Len(s.handlers) <= MaxHandlers

\* What the inline collector leaves of a program that has ended outside any call.
Emptied(s) == s.status = "finished" /\ s.frames = <<>> /\ ~Arc(s) => \A c \in Cells : ~s.live[c]

\* Between two instructions the collector agrees with what the program holds.  Object x, if
\* any, is the exception nobody caught: it has no root.
Stable(s, x) ==
    /\ Good(s, Nothing, Nowhere, x)
    /\ Bounded(s) /\ Sorted(s.handlers, Len(s.frames))
    /\ x # 0 => s.status = "uncaught"
    /\ Emptied(s)

\* A running machine, in the same terms.
Ready(s) ==
    /\ Good(s, Nothing, Nowhere, 0)
    /\ Bounded(s) /\ Sorted(s.handlers, Len(s.frames)) /\ s.status = "run"

\* The inductive invariant.
SomeStable(t) == \E x : Stable(t, x)

VmInv == SomeStable(vm)

\* Before the program ends nothing has been swept away.
LEMMA StableIs ==
  ASSUME NEW t, NEW x, Good(t, Nothing, Nowhere, x), Bounded(t), Sorted(t.handlers, Len(t.frames)),
         x # 0 => t.status = "uncaught", t.status # "finished"
  PROVE  SomeStable(t)
  BY DEF SomeStable, Stable, Emptied

\* Instructions that only write registers.
LEMMA RegStep ==
  ASSUME NEW s, Ready(s), NEW t, Good(t, Nothing, Nowhere, 0), OnlyRegs(s, t)
  PROVE  SomeStable(t)
  <1>1. Bounded(t) /\ Sorted(t.handlers, Len(t.frames)) /\ t.status = "run"
    BY DEF Ready, OnlyRegs, Bounded
  <1> QED
    BY <1>1, StableIs

\* What a register or a global holds may be stored.
LEMMA HolderStorable ==
  ASSUME NEW s, Good(s, Nothing, Nowhere, 0)
  PROVE  /\ \A r \in Regs :
               Storable(s, s.regs[r]) /\ (s.regs[r] # 0 => s.regs[r] \in Cells /\ RootsOn(s, s.regs[r]) > 0)
         /\ \A g \in Globals : Storable(s, s.globals[g])
         /\ Storable(s, 0) /\ Numbers(Nothing) /\ s \in VmStates
  <1>1. s \in VmStates /\ Numbers(Nothing)
    BY DEF Good, Sound, Numbers, Nothing
  <1>2. ASSUME NEW r \in Regs
        PROVE  Storable(s, s.regs[r]) /\ (s.regs[r] # 0 => s.regs[r] \in Cells /\ RootsOn(s, s.regs[r]) > 0)
    <2>1. PICK v : v = s.regs[r]
      OBVIOUS
    <2>2. v \in Values
      BY <1>1, <2>1, Holders
    <2>3. RootsOn(s, v) > 0
      BY <1>1, <2>1, RootsType
    <2>4. Storable(s, v)
      BY <1>1, <2>2, <2>3, HeldLives
    <2> QED
      BY <2>1, <2>2, <2>3, <2>4 DEF Values
  <1>3. ASSUME NEW g \in Globals PROVE Storable(s, s.globals[g])
    <2>1. PICK v : v = s.globals[g]
      OBVIOUS
    <2>2. v \in Values
      BY <1>1, <2>1, Holders
    <2>3. RootsOn(s, v) > 0
      BY <1>1, <2>1, RootsType
    <2>4. Storable(s, v)
      BY <1>1, <2>2, <2>3, HeldLives
    <2> QED
      BY <2>1, <2>4
  <1>4. Storable(s, 0)
    BY DEF Storable, Values
  <1> QED
    BY <1>1, <1>2, <1>3, <1>4

\* Compute, Mov, HLoad and GLoad: a value goes to a register.
LEMMA WriteStep ==
  ASSUME NEW s, Ready(s), NEW r \in Regs, NEW v, Storable(s, v), NEW t, t = SetReg(s, r, v)
  PROVE  SomeStable(t)
  <1>1. Good(s, Nothing, Nowhere, 0) /\ Numbers(Nothing) /\ 0 \in {0, v}
    BY HolderStorable DEF Ready
  <1>2. Good(t, Nothing, Nowhere, 0) /\ WroteReg(s, t, r, v)
    BY <1>1, SetRegGood
  <1> QED
    BY <1>2, RegStep DEF WroteReg

\* A throw, of a value that may still be without a root.
LEMMA ThrowStep ==
  ASSUME NEW s, NEW x, Good(s, Nothing, Nowhere, x), NEW v, Storable(s, v), x \in {0, v},
         Bounded(s), Sorted(s.handlers, Len(s.frames)), s.status = "run", NEW t, t = ThrowValue(s, v)
  PROVE  SomeStable(t)
  <1>1. s \in VmStates
    BY DEF Good, Sound
  <1>2. CASE s.handlers = <<>>
    <2>1. t = [s EXCEPT !.status = "uncaught"]
      BY <1>2 DEF ThrowValue
    <2>2. /\ Good(t, Nothing, Nowhere, x) /\ t.status = "uncaught"
          /\ t.frames = s.frames /\ t.data = s.data /\ t.handlers = s.handlers
      <3>1. PICK q : q = "uncaught"
        OBVIOUS
      <3>2. q \in {"run", "stopped", "finished", "uncaught", "panic"} /\ t = [s EXCEPT !.status = q]
        BY <2>1, <3>1
      <3> QED
        BY <3>1, <3>2, UncaughtGood
    <2>3. Bounded(t) /\ Sorted(t.handlers, Len(t.frames))
      BY <2>2 DEF Bounded
    <2> QED
      BY <2>2, <2>3, StableIs
  <1>3. CASE s.handlers # <<>>
    <2>1. PICK h : h = Top(s.handlers)
      OBVIOUS
    <2>2. Caught(s, t, h)
      BY <1>3, <2>1, CaughtGood
    <2>3. PICK hs : hs = s.handlers
      OBVIOUS
    <2>4. PICK q : q = Pop(hs)
      OBVIOUS
    <2>5. PICK n : n = Len(s.frames)
      OBVIOUS
    <2>6. hs \in Seq(HandlerRecords) /\ n \in Nat /\ Len(s.data) \in Nat /\ Len(hs) \in Nat
      BY <1>1, <2>3, <2>5, Holders
    <2>7. /\ q \in Seq(HandlerRecords) /\ Len(q) <= Len(hs) /\ Sorted(q, h.callDepth)
          /\ h.callDepth \in Nat /\ h.callDepth <= n
      BY <1>3, <2>1, <2>3, <2>4, <2>5, <2>6, SortedPop
    <2>8. Len(t.frames) = h.callDepth /\ t.handlers = q /\ Len(t.data) <= Len(s.data) /\ t.status = "run"
      <3>1. Len(t.frames) = IF h.callDepth < n THEN h.callDepth ELSE n
        BY <2>2, <2>5 DEF Caught
      <3>2. Len(t.frames) = h.callDepth
        BY <2>6, <2>7, <3>1
      <3> QED
        BY <2>2, <2>3, <2>4, <3>2 DEF Caught
    <2>9. Good(t, Nothing, Nowhere, 0)
      BY <2>2 DEF Caught
    <2>10. Bounded(t)
      <3>1. t \in VmStates
        BY <2>9 DEF Good, Sound
      <3>2. Len(t.data) \in Nat /\ Len(q) \in Nat
        BY <2>7, <3>1, Holders
      <3>3. n <= MaxFrames /\ Len(s.data) <= MaxData /\ Len(hs) <= MaxHandlers
        BY <2>3, <2>5 DEF Bounded
      <3>4. MaxFrames \in Nat /\ MaxData \in Nat /\ MaxHandlers \in Nat
        BY VmAssumption
      <3>5. Len(t.frames) <= MaxFrames /\ Len(t.data) <= MaxData /\ Len(q) <= MaxHandlers
        BY <2>6, <2>7, <2>8, <3>2, <3>3, <3>4
      <3> QED
        BY <2>8, <3>5 DEF Bounded
    <2> QED
      BY <2>7, <2>8, <2>9, <2>10, StableIs
  <1> QED
    BY <1>2, <1>3

\* raiseRuntime: a fresh exception is thrown, or there is no slot for it.
LEMMA RaiseStep ==
  ASSUME NEW s, Ready(s), NEW t, t = RaiseRuntime(s)
  PROVE  SomeStable(t)
  <1>1. Good(s, Nothing, Nowhere, 0) /\ Numbers(Nothing)
    BY HolderStorable DEF Ready
  <1>2. CASE FreeHandles(s) = {}
    <2>1. PICK q : q = "panic"
      OBVIOUS
    <2>2. q \in {"run", "stopped", "finished", "uncaught", "panic"} /\ t = [s EXCEPT !.status = q]
      BY <1>2, <2>1 DEF RaiseRuntime
    <2>3. /\ Good(t, Nothing, Nowhere, 0) /\ t.status = q
          /\ t.frames = s.frames /\ t.data = s.data /\ t.handlers = s.handlers
      BY <1>1, <2>2, UncaughtGood
    <2>4. Bounded(t) /\ Sorted(t.handlers, Len(t.frames))
      BY <2>3 DEF Bounded, Ready
    <2> QED
      BY <2>1, <2>3, <2>4, StableIs
  <1>3. CASE FreeHandles(s) # {}
    <2>1. PICK o : o = Min(FreeHandles(s))
      OBVIOUS
    <2>2. PICK a : a = AllocObject(s)
      OBVIOUS
    <2>3. o \in Cells /\ Storable(a, o) /\ Good(a, Nothing, Nowhere, o) /\ SameProgram(s, a)
      BY <1>1, <1>3, <2>1, <2>2, AllocGood
    <2>4. Bounded(a) /\ Sorted(a.handlers, Len(a.frames)) /\ a.status = "run"
      BY <2>3 DEF SameProgram, Bounded, Ready
    <2>5. t = ThrowValue(a, o)
      BY <1>3, <2>1, <2>2 DEF RaiseRuntime
    <2>6. o \in {0, o}
      OBVIOUS
    <2> QED
      BY <2>3, <2>4, <2>5, <2>6, ThrowStep
  <1> QED
    BY <1>2, <1>3

\* Alloc, with a slot that is free.
LEMMA AllocStep ==
  ASSUME NEW s, Ready(s), FreeHandles(s) # {}, NEW r \in Regs,
         NEW t, t = SetReg(AllocObject(s), r, Min(FreeHandles(s)))
  PROVE  SomeStable(t)
  <1>1. Good(s, Nothing, Nowhere, 0) /\ Numbers(Nothing)
    BY HolderStorable DEF Ready
  <1>2. PICK o : o = Min(FreeHandles(s))
    OBVIOUS
  <1>3. PICK a : a = AllocObject(s)
    OBVIOUS
  <1>4. o \in Cells /\ Storable(a, o) /\ Good(a, Nothing, Nowhere, o) /\ SameProgram(s, a)
    BY <1>1, <1>2, <1>3, AllocGood
  <1>5. t = SetReg(a, r, o) /\ o \in {0, o}
    BY <1>2, <1>3
  <1>6. Good(t, Nothing, Nowhere, 0) /\ WroteReg(a, t, r, o)
    BY <1>1, <1>4, <1>5, SetRegGood
  <1>7. OnlyRegs(s, t)
    BY <1>4, <1>6 DEF WroteReg, OnlyRegs, SameProgram
  <1> QED
    BY <1>6, <1>7, RegStep

-----------------------------------------------------------------------------
(* One step for each instruction *)

\* HStore: a field of a live object is overwritten.
LEMMA StoreStep ==
  ASSUME NEW s, Ready(s), NEW b \in Regs, NEW q \in Regs, NEW f \in Fields, s.regs[b] # 0,
         NEW a, NEW d, Overwrites(s, a, d, s.regs[b], f, s.regs[q]),
         NEW t, t = GcEdgeAdd(d, s.regs[b], s.regs[q])
  PROVE  SomeStable(t)
  <1>1. Good(s, Nothing, Nowhere, 0)
    BY DEF Ready
  <1>2. PICK o : o = s.regs[b]
    OBVIOUS
  <1>3. PICK new : new = s.regs[q]
    OBVIOUS
  <1>4. o \in Cells /\ RootsOn(s, o) > 0 /\ new \in Values /\ (new # 0 => RootsOn(s, new) > 0)
    BY <1>1, <1>2, <1>3, HolderStorable DEF Storable
  <1>5. Overwrites(s, a, d, o, f, new) /\ t = GcEdgeAdd(d, o, new)
    BY <1>2, <1>3
  <1>6. Kept(s, t, Nothing)
    BY <1>1, <1>4, <1>5, StoreGood
  <1>7. Good(t, Nothing, Nowhere, 0) /\ OnlyRegs(s, t)
    BY <1>6 DEF Kept, SameProgram, OnlyRegs
  <1> QED
    BY <1>7, RegStep

\* GStore.
LEMMA GlobalStep ==
  ASSUME NEW s, Ready(s), NEW g \in Globals, NEW r \in Regs, NEW t, t = SetGlobal(s, g, s.regs[r])
  PROVE  SomeStable(t)
  <1>1. PICK v : v = s.regs[r]
    OBVIOUS
  <1>2. Good(s, Nothing, Nowhere, 0) /\ Numbers(Nothing) /\ Storable(s, v)
    BY <1>1, HolderStorable DEF Ready
  <1>3. Good(t, Nothing, Nowhere, 0) /\ WroteGlobal(s, t, g, v)
    BY <1>1, <1>2, SetGlobalGood
  <1>4. Bounded(t) /\ Sorted(t.handlers, Len(t.frames)) /\ t.status = "run"
    BY <1>3 DEF Ready, WroteGlobal, OnlyGlobals, Bounded
  <1> QED
    BY <1>3, <1>4, StableIs

\* A call, once the arguments are where they belong.
LEMMA CallStep ==
  ASSUME NEW s, Ready(s), Len(s.frames) < MaxFrames, NEW last \in NArgs..LastLocal,
         NEW t, t = PushCallFrame(s, last)
  PROVE  SomeStable(t)
  <1>1. Good(s, Nothing, Nowhere, 0) /\ s \in VmStates
    BY HolderStorable DEF Ready
  <1>2. /\ Good(t, Nothing, Nowhere, 0) /\ OnlyFrames(s, t)
        /\ Len(t.frames) = Len(s.frames) + 1
    BY <1>1, PushGood
  <1>3. PICK n : n = Len(s.frames)
    OBVIOUS
  <1>4. PICK m : m = Len(t.frames)
    OBVIOUS
  <1>5. n \in Nat /\ m = n + 1 /\ m \in Nat /\ n <= m /\ m <= MaxFrames /\ s.handlers \in Seq(HandlerRecords)
    <2>1. n \in Nat /\ s.handlers \in Seq(HandlerRecords) /\ MaxFrames \in Nat /\ n < MaxFrames /\ m = n + 1
      BY <1>1, <1>2, <1>3, <1>4, Holders, VmAssumption
    <2> QED
      BY <2>1
  <1>6. Sorted(s.handlers, m)
    BY <1>3, <1>5, SortedHigher DEF Ready
  <1>7. Bounded(t) /\ Sorted(t.handlers, Len(t.frames)) /\ t.status = "run"
    BY <1>2, <1>4, <1>5, <1>6 DEF OnlyFrames, Bounded, Ready
  <1> QED
    BY <1>2, <1>7, StableIs

\* CallInd: the arguments move up, the closure becomes the first.
LEMMA CallIndStep ==
  ASSUME NEW s, Ready(s), Len(s.frames) < MaxFrames, NEW last \in NArgs..LastLocal,
         NEW c \in Regs, NEW n \in Nat, n < NArgs, NEW a, a = MoveArguments(s, n),
         NEW t, t = PushCallFrame(SetReg(a, 1, a.regs[c]), last)
  PROVE  SomeStable(t)
  <1>1. Good(s, Nothing, Nowhere, 0) /\ Numbers(Nothing)
    BY HolderStorable DEF Ready
  <1>2. Good(a, Nothing, Nowhere, 0) /\ OnlyRegs(s, a)
    BY <1>1, MoveArgumentsGood
  <1>3. PICK v : v = a.regs[c]
    OBVIOUS
  <1>4. PICK b : b = SetReg(a, 1, v)
    OBVIOUS
  <1>5. 1 \in Regs /\ Storable(a, v) /\ 0 \in {0, v}
    <2>1. 1 \in Regs
      BY Sizes DEF Regs
    <2> QED
      BY <1>2, <1>3, <2>1, HolderStorable
  <1>6. Good(b, Nothing, Nowhere, 0) /\ WroteReg(a, b, 1, v)
    BY <1>1, <1>2, <1>4, <1>5, SetRegGood
  <1>7. Ready(b) /\ Len(b.frames) < MaxFrames
    BY <1>2, <1>6 DEF Ready, Bounded, WroteReg, OnlyRegs
  <1>8. t = PushCallFrame(b, last)
    BY <1>3, <1>4
  <1> QED
    BY <1>7, <1>8, CallStep

\* Ret: the handlers of the call go first ...
LEMMA TrimStep ==
  ASSUME NEW s, Ready(s), NEW a, a = [s EXCEPT !.handlers = KeptHandlers(s)]
  PROVE  Ready(a) /\ (a.frames # <<>> => Sorted(a.handlers, Len(a.frames) - 1))
  <1>1. Good(s, Nothing, Nowhere, 0) /\ s \in VmStates /\ Numbers(Nothing)
    BY HolderStorable DEF Ready
  <1>2. PICK n : n = Len(s.frames)
    OBVIOUS
  <1>3. PICK q : q = KeptHandlers(s)
    OBVIOUS
  <1>4. Sorted(s.handlers, n)
    BY <1>2 DEF Ready
  <1>5. /\ q \in Seq(HandlerRecords) /\ Len(q) <= Len(s.handlers) /\ Sorted(q, n)
        /\ n > 0 => Sorted(q, n - 1)
    BY <1>1, <1>2, <1>3, <1>4, KeptSorted
  <1>6. /\ Good(a, Nothing, Nowhere, 0) /\ a.handlers = q /\ a.status = s.status
        /\ a.data = s.data /\ a.frames = s.frames
    BY <1>1, <1>3, <1>5, HandlersGood
  <1>7. Bounded(a)
    <2>1. Len(q) \in Nat /\ Len(s.handlers) \in Nat /\ MaxHandlers \in Nat
      BY <1>1, <1>5, Holders, VmAssumption
    <2>2. Len(s.handlers) <= MaxHandlers /\ Len(s.frames) <= MaxFrames /\ Len(s.data) <= MaxData
      BY DEF Ready, Bounded
    <2>3. Len(q) <= MaxHandlers
      BY <1>5, <2>1, <2>2
    <2> QED
      BY <1>6, <2>2, <2>3 DEF Bounded
  <1>8. s.frames # <<>> => n > 0
    <2>1. s.frames \in Seq(SavedFrames)
      BY <1>1, Holders
    <2> QED
      BY <1>2, <2>1
  <1>9. Ready(a)
    BY <1>2, <1>5, <1>6, <1>7 DEF Ready
  <1> QED
    BY <1>2, <1>5, <1>6, <1>8, <1>9

\* ... and then its frame.
LEMMA ReturnStep ==
  ASSUME NEW a, Ready(a), a.frames # <<>>, Sorted(a.handlers, Len(a.frames) - 1),
         NEW t, t = RestoreCallFrame(a)
  PROVE  SomeStable(t)
  <1>1. Good(a, Nothing, Nowhere, 0) /\ Numbers(Nothing)
    BY HolderStorable DEF Ready
  <1>2. /\ Good(t, Nothing, Nowhere, 0) /\ OnlyFrames(a, t)
        /\ Len(t.frames) = Len(a.frames) - 1 /\ Len(a.frames) \in Nat \ {0}
    BY <1>1, ReturnGood
  <1>3. Len(t.frames) <= MaxFrames
    <2>1. Len(a.frames) <= MaxFrames /\ MaxFrames \in Nat
      BY VmAssumption DEF Ready, Bounded
    <2> QED
      BY <1>2, <2>1
  <1>4. Bounded(t) /\ Sorted(t.handlers, Len(t.frames)) /\ t.status = "run"
    BY <1>2, <1>3 DEF Ready, Bounded, OnlyFrames
  <1> QED
    BY <1>2, <1>4, StableIs

\* TryPush and TryPop.
LEMMA HandlerStep ==
  ASSUME NEW s, Ready(s), NEW q \in Seq(HandlerRecords), Len(q) <= MaxHandlers,
         Sorted(q, Len(s.frames)), NEW t, t = [s EXCEPT !.handlers = q]
  PROVE  SomeStable(t)
  <1>1. Good(s, Nothing, Nowhere, 0)
    BY DEF Ready
  <1>2. /\ Good(t, Nothing, Nowhere, 0) /\ t.handlers = q /\ t.status = s.status
        /\ t.data = s.data /\ t.frames = s.frames
    BY <1>1, HandlersGood
  <1>3. Bounded(t) /\ Sorted(t.handlers, Len(t.frames)) /\ t.status = "run"
    BY <1>2 DEF Ready, Bounded
  <1> QED
    BY <1>2, <1>3, StableIs

\* PopR.
LEMMA SpillPopStep ==
  ASSUME NEW s, Ready(s), s.data # <<>>, NEW t, t = PopSaved(s)
  PROVE  SomeStable(t)
  <1>1. Good(s, Nothing, Nowhere, 0) /\ Numbers(Nothing)
    BY HolderStorable DEF Ready
  <1>2. /\ Good(t, Nothing, Nowhere, 0) /\ OnlySpills(s, t)
        /\ Len(t.data) = Len(s.data) - 1 /\ Len(s.data) \in Nat \ {0}
    BY <1>1, PopSavedGood
  <1>3. Len(t.data) <= MaxData
    <2>1. Len(s.data) <= MaxData /\ MaxData \in Nat
      BY VmAssumption DEF Ready, Bounded
    <2> QED
      BY <1>2, <2>1
  <1>4. Bounded(t) /\ Sorted(t.handlers, Len(t.frames)) /\ t.status = "run"
    BY <1>2, <1>3 DEF Ready, Bounded, OnlySpills
  <1> QED
    BY <1>2, <1>4, StableIs

\* A register is pushed onto the spilled ones.
Spilling(a, t, d) == t = [a EXCEPT !.data = Append(a.data, d)]

\* PushR: the copy on the stack is the root the barrier has made.
LEMMA SpillPushStep ==
  ASSUME NEW s, Ready(s), NEW r \in Regs, Len(s.data) < MaxData, NEW v, v = s.regs[r],
         NEW a, a = GcRootAdd(s, v), NEW d \in SpillRecords, d.value = v,
         NEW t, Spilling(a, t, d)
  PROVE  SomeStable(t)
  <1>1. Good(s, Nothing, Nowhere, 0) /\ Numbers(Nothing) /\ Storable(s, v) /\ s \in VmStates
    BY HolderStorable DEF Ready
  <1>2. PICK e : e = Rooting(Nothing, v)
    OBVIOUS
  <1>3. Good(a, e, Nowhere, 0) /\ SameProgram(s, a) /\ a \in VmStates
    <2>1. \A c \in Cells : e[c] = Nothing[c] + One(v, c)
      BY <1>2 DEF Rooting
    <2>2. 0 \in {0, v}
      OBVIOUS
    <2>3. Kept(s, a, e)
      BY <1>1, <2>1, <2>2, AddRoot
    <2> QED
      BY <2>3 DEF Kept, Good, Sound
  <1>4. PICK p : p = s.data
    OBVIOUS
  <1>5. PICK q : q = Append(p, d)
    OBVIOUS
  <1>6. PICK n : n = Len(p) + 1
    OBVIOUS
  <1>8. q \in Seq(SpillRecords) /\ Longer(q, p, n) /\ q[n] = d /\ Len(q) = n /\ Len(p) \in Nat
    <2>1. p \in Seq(SpillRecords) /\ Len(p) \in Nat
      BY <1>1, <1>4, Holders
    <2>2. /\ q \in Seq(SpillRecords) /\ Len(q) = Len(p) + 1 /\ q[Len(p) + 1] = d
          /\ \A i \in 1..Len(p) : q[i] = p[i]
      BY <1>5, <2>1, AppendProperties
    <2> QED
      BY <1>6, <2>1, <2>2 DEF Longer
  <1>10. /\ t \in VmStates /\ SameStore(a, t) /\ t.data = q
         /\ t.regs = a.regs /\ t.globals = a.globals /\ t.frames = a.frames
         /\ t.handlers = a.handlers /\ t.status = a.status
    <2>1. Append(a.data, d) = q
      BY <1>3, <1>4, <1>5 DEF SameProgram
    <2>2. t = [a EXCEPT !.data = q]
      BY <2>1 DEF Spilling
    <2> QED
      BY <1>3, <1>8, <2>2 DEF VmStates, SameStore, SpillRecords
  <1>11. Longer(t.data, a.data, n) /\ t.data[n].value = v
    BY <1>3, <1>4, <1>8, <1>10 DEF SameProgram
  <1>12. \A c \in Cells : RootsOn(t, c) + Nothing[c] = RootsOn(a, c) + e[c]
    <2> SUFFICES ASSUME NEW c \in Cells PROVE RootsOn(t, c) + Nothing[c] = RootsOn(a, c) + e[c]
      OBVIOUS
    <2>1. e[c] = One(v, c) /\ Nothing[c] = 0
      BY <1>2 DEF Rooting, Nothing, One
    <2>2. RootsOn(a, c) \in Nat /\ RootsOn(t, c) \in Nat
      BY <1>3, <1>10, RootsType
    <2>3. RootsOn(t, c) = RootsOn(a, c) + One(t.data[n].value, c)
      <3>1. Longer(t.data, a.data, n)
        BY <1>11
      <3>2. t.globals = a.globals /\ t.regs = a.regs /\ t.frames = a.frames
        BY <1>10
      <3>3. t \in VmStates /\ a \in VmStates
        BY <1>3, <1>10
      <3> QED
        BY <3>1, <3>2, <3>3, RootsSpill
    <2> QED
      BY <1>11, <2>1, <2>2, <2>3
  <1>13. Good(t, Nothing, Nowhere, 0)
    BY <1>3, <1>10, <1>12, MovesFree
  <1>14. Len(t.data) <= MaxData
    BY <1>4, <1>6, <1>8, <1>10, VmAssumption
  <1>15. Bounded(t) /\ Sorted(t.handlers, Len(t.frames)) /\ t.status = "run"
    BY <1>3, <1>10, <1>14 DEF Ready, Bounded, SameProgram
  <1> QED
    BY <1>13, <1>15, StableIs

\* Halt.
LEMMA StopStep ==
  ASSUME NEW s, Ready(s), NEW t, t = [s EXCEPT !.status = "stopped"]
  PROVE  SomeStable(t)
  <1>1. PICK q : q = "stopped"
    OBVIOUS
  <1>2. q \in {"run", "stopped", "finished", "uncaught", "panic"} /\ t = [s EXCEPT !.status = q]
    BY <1>1
  <1>3. Good(s, Nothing, Nowhere, 0)
    BY DEF Ready
  <1>4. /\ Good(t, Nothing, Nowhere, 0) /\ t.status = q
        /\ t.frames = s.frames /\ t.data = s.data /\ t.handlers = s.handlers
    BY <1>2, <1>3, UncaughtGood
  <1>5. Bounded(t) /\ Sorted(t.handlers, Len(t.frames))
    BY <1>4 DEF Ready, Bounded
  <1> QED
    BY <1>1, <1>4, <1>5, StableIs

\* finishGC after the end.
LEMMA FinishStep ==
  ASSUME NEW s, NEW x, Stable(s, x), s.status = "stopped", NEW a, a = FinishGC(s),
         NEW t, t = [a EXCEPT !.status = "finished"]
  PROVE  SomeStable(t)
  <1>1. x = 0 /\ Good(s, Nothing, Nowhere, 0)
    BY DEF Stable
  <1>3. Finished(s, a)
    BY <1>1, FinishGood
  <1>4. PICK q : q = "finished"
    OBVIOUS
  <1>5. q \in {"run", "stopped", "finished", "uncaught", "panic"} /\ t = [a EXCEPT !.status = q]
    BY <1>4
  <1>6. Good(a, Nothing, Nowhere, 0)
    BY <1>3 DEF Finished
  <1>7. /\ Good(t, Nothing, Nowhere, 0) /\ t.status = q /\ t.gc = a.gc
        /\ t.frames = a.frames /\ t.data = a.data /\ t.handlers = a.handlers
    BY <1>5, <1>6, UncaughtGood
  <1>8. t.live = a.live
    <2>1. a \in VmStates
      BY <1>6 DEF Good, Sound
    <2> QED
      BY <1>5, <2>1 DEF VmStates
  <1>9. Bounded(t) /\ Sorted(t.handlers, Len(t.frames))
    <2>1. Len(t.data) <= MaxData
      BY <1>3, <1>7, VmAssumption DEF Finished
    <2> QED
      BY <1>3, <1>7, <2>1 DEF Finished, Stable, Bounded
  <1>10. Emptied(t)
    BY <1>3, <1>7, <1>8 DEF Emptied, Finished, Arc
  <1>11. Stable(t, 0)
    BY <1>7, <1>9, <1>10 DEF Stable
  <1> QED
    BY <1>11 DEF SomeStable

-----------------------------------------------------------------------------
(* The machine starts sound, and every instruction keeps it so *)

\* An empty table agrees with a heap without objects.
LEMMA EmptyGood ==
  ASSUME NEW e, e = EmptyEngine, NEW lv, \A c \in Cells : ~lv[c],
         NEW cl, \A c \in Cells : cl[c] = Blank, NEW R, \A c \in Cells : R[c] = 0
  PROVE  EngGood(e, lv, cl, R, 0) /\ e \in Engines
  <1>1. /\ \A c \in Cells : e.root[c] = 0 /\ e.edge[c] = 0
        /\ \A q \in Pairs : e.out[q] = 0
        /\ e.zero = {} /\ e.marks = {} /\ e.stack = {} /\ e.errors = {}
    BY DEF EmptyEngine, Pairs
  <1>2. e \in Engines
    BY DEF EmptyEngine, Engines
  <1>3. EdgesExact(e)
    <2> SUFFICES ASSUME NEW c \in Cells PROVE e.edge[c] = Cardinality(Copies(Into(c), e.out))
      BY DEF EdgesExact
    <2>1. IsFiniteSet(Into(c)) /\ \A q \in Into(c) : e.out[q] = 0
      BY <1>1, HandlesFinite DEF Into
    <2>2. \A q \in Into(c) : e.out[q] \in Nat
      BY <2>1
    <2>3. Cardinality(Copies(Into(c), e.out)) = 0
      BY <2>1, <2>2, CopiesZero
    <2> QED
      BY <1>1, <2>3
  <1>4. RecordsLive(e, Src(lv))
    BY <1>1 DEF RecordsLive
  <1>5. Anchored(e, lv)
    BY DEF Anchored, AllIn
  <1>6. OutExact(e, cl)
    <2> SUFFICES ASSUME NEW a \in Cells, NEW b \in Cells
                 PROVE  e.out[<<At(a), At(b)>>] = Hits(Fields, cl[a], b)
      BY DEF OutExact
    <2>1. e.out[<<At(a), At(b)>>] = 0
      BY <1>1, OneGeneration
    <2>2. Hits(Fields, Blank, b) = 0
      BY BlankHits
    <2> QED
      BY <2>1, <2>2
  <1>7. MarksQueued(e, lv) /\ ZerosQueued(e, lv, 0)
    BY <1>1 DEF MarksQueued, ZerosQueued
  <1> QED
    BY <1>1, <1>2, <1>3, <1>4, <1>5, <1>6, <1>7 DEF EngGood, EngineType

\* The state a machine starts in, part by part.
LEMMA InitParts ==
  ASSUME NEW gc \in Collectors, NEW s, s = InitVm(gc)
  PROVE  /\ s \in VmStates /\ ~s.errors /\ s.status = "run"
         /\ s.frames = <<>> /\ s.data = <<>> /\ s.handlers = <<>>
         /\ \A r \in Regs : s.regs[r] = 0
         /\ \A g \in Globals : s.globals[g] = 0
         /\ s.eng = EmptyEngine
         /\ \A c \in Cells : s.rc[c] = 0 /\ ~s.live[c] /\ s.cells[c] = Blank
  <1>1. gc \in {"arc", "local", "adaptive"} /\ ThresholdInit \in ThresholdMin..ThresholdMax
    BY VmAssumption
  <1>2. EmptyEngine \in Engines
    BY DEF EmptyEngine, Engines
  <1>3. Blank \in [Fields -> Values] /\ 0 \in Values
    BY DEF Blank, Values
  <1>4. [r \in Regs |-> 0] \in [Regs -> Values] /\ [g \in Globals |-> 0] \in [Globals -> Values]
    BY <1>3
  <1>5. [c \in Cells |-> Blank] \in [Cells -> [Fields -> Values]]
    BY <1>3
  <1>6. \A S : <<>> \in Seq(S)
    OBVIOUS
  <1> HIDE DEF EmptyEngine, Blank
  <1>7. s \in VmStates
    BY <1>1, <1>2, <1>4, <1>5, <1>6 DEF InitVm, VmStates
  <1>8. /\ ~s.errors /\ s.status = "run" /\ s.frames = <<>> /\ s.data = <<>> /\ s.handlers = <<>>
        /\ s.eng = EmptyEngine
    BY DEF InitVm
  <1>9. /\ s.regs = [r \in Regs |-> 0] /\ s.globals = [g \in Globals |-> 0]
        /\ s.rc = [c \in Cells |-> 0] /\ s.live = [c \in Cells |-> FALSE]
        /\ s.cells = [c \in Cells |-> Blank]
    BY DEF InitVm
  <1>10. \A c \in Cells : s.rc[c] = 0 /\ ~s.live[c] /\ s.cells[c] = Blank
    BY <1>9
  <1>11. (\A r \in Regs : s.regs[r] = 0) /\ \A g \in Globals : s.globals[g] = 0
    BY <1>9
  <1> QED
    BY <1>7, <1>8, <1>10, <1>11

\* Whatever the collector, a machine starts sound.
LEMMA InitGood ==
  ASSUME NEW gc \in Collectors, NEW s, s = InitVm(gc)
  PROVE  SomeStable(s)
  <1>1. /\ s \in VmStates /\ ~s.errors /\ s.status = "run"
        /\ s.frames = <<>> /\ s.data = <<>> /\ s.handlers = <<>>
        /\ \A r \in Regs : s.regs[r] = 0
        /\ \A g \in Globals : s.globals[g] = 0
        /\ s.eng = EmptyEngine
        /\ \A c \in Cells : s.rc[c] = 0 /\ ~s.live[c] /\ s.cells[c] = Blank
    BY InitParts
  <1>2. PICK R : R = Held(s, Nothing)
    OBVIOUS
  <1>3. \A c \in Cells : R[c] = 0
    <2> SUFFICES ASSUME NEW c \in Cells PROVE R[c] = 0
      OBVIOUS
    <2>1. Len(s.data) = 0
      BY <1>1
    <2>2. RootsOn(s, c) = 0
      BY <1>1, <2>1, NoRoots
    <2> QED
      BY <1>2, <2>2 DEF Held, Nothing
  <1>4. PICK cl : cl = View(s.cells, Nowhere)
    OBVIOUS
  <1>5. \A c \in Cells : cl[c] = Blank
    <2>1. s.cells \in [Cells -> [Fields -> Values]]
      BY <1>1, EngineParts
    <2>2. cl = s.cells
      BY <1>4, <2>1, ViewIs
    <2> QED
      BY <1>1, <2>2
  <1>6. PICK e : e = EmptyEngine
    OBVIOUS
  <1>7. EngGood(s.eng, s.live, cl, R, 0) /\ s.eng.errors = {}
    <2>1. EngGood(e, s.live, cl, R, 0)
      BY <1>1, <1>3, <1>5, <1>6, EmptyGood
    <2> QED
      BY <1>1, <1>6, <2>1 DEF EngGood
  <1>8. ArcGood(s.rc, s.live, cl, R, 0)
    <2> SUFFICES ASSUME NEW c \in Cells
                 PROVE  /\ s.rc[c] = R[c] + Refs(cl, Cells, c)
                        /\ s.rc[c] = 0 /\ ~s.live[c]
                        /\ \A f \in Fields : cl[c][f] = 0
      BY DEF ArcGood
    <2>1. \A a \in Cells : \A f \in Fields : cl[a][f] = 0
      BY <1>5 DEF Blank
    <2>2. c # 0
      BY Sizes
    <2>3. \A a \in Cells : \A f \in Fields : cl[a][f] # c
      BY <2>1, <2>2
    <2>4. Cells \in SUBSET Cells
      OBVIOUS
    <2>5. Refs(cl, Cells, c) = 0
      BY <2>3, <2>4, RefsNone
    <2> QED
      BY <1>1, <1>3, <2>1, <2>5
  <1>9. Settled(s)
    BY <1>1 DEF Settled, EmptyEngine
  <1>10. Good(s, Nothing, Nowhere, 0)
    BY <1>1, <1>2, <1>4, <1>7, <1>8, <1>9 DEF Good, Sound
  <1>11. Bounded(s) /\ Sorted(s.handlers, Len(s.frames))
    BY <1>1, VmAssumption DEF Bounded, Sorted
  <1> QED
    BY <1>1, <1>10, <1>11, StableIs

\* A running machine is ready for its next instruction.
LEMMA RunningIs ==
  ASSUME NEW s, SomeStable(s), s.status = "run"
  PROVE  Ready(s)
  BY DEF SomeStable, Stable, Ready

\* The instructions that fault, allocate, load or store.
LEMMA MemorySteps ==
  ASSUME VmInv, NEW r \in Regs, NEW q \in Regs
  PROVE  /\ Compute(r) \/ Alloc(r) \/ Fault => VmInv'
         /\ Mov(r, q) => VmInv'
         /\ \A f \in Fields : HLoad(q, f, r) \/ HStore(q, f, r) => VmInv'
         /\ \A g \in Globals : GLoad(g, r) \/ GStore(g, r) => VmInv'
  <1> SUFFICES ASSUME Running
               PROVE  /\ Compute(r) \/ Alloc(r) \/ Fault => VmInv'
                      /\ Mov(r, q) => VmInv'
                      /\ \A f \in Fields : HLoad(q, f, r) \/ HStore(q, f, r) => VmInv'
                      /\ \A g \in Globals : GLoad(g, r) \/ GStore(g, r) => VmInv'
    BY DEF Compute, Alloc, Fault, Mov, HLoad, HStore, GLoad, GStore
  <1>1. PICK s : s = vm
    OBVIOUS
  <1>2. PICK t : t = vm'
    OBVIOUS
  <1>3. Ready(s)
    BY <1>1, RunningIs DEF VmInv, Running
  <1>4. SomeStable(t) => VmInv'
    BY <1>2 DEF VmInv
  <1>5. /\ \A k \in Regs :
              Storable(s, s.regs[k]) /\ (s.regs[k] # 0 => s.regs[k] \in Cells /\ RootsOn(s, s.regs[k]) > 0)
        /\ \A k \in Globals : Storable(s, s.globals[k])
        /\ Storable(s, 0) /\ Good(s, Nothing, Nowhere, 0)
    BY <1>3, HolderStorable DEF Ready
  <1>6. t = RaiseRuntime(s) => VmInv'
    BY <1>3, <1>4, RaiseStep
  <1>7. \A v : t = SetReg(s, r, v) /\ Storable(s, v) => VmInv'
    BY <1>3, <1>4, WriteStep
  <1>8. Compute(r) => VmInv'
    BY <1>1, <1>2, <1>5, <1>7 DEF Compute
  <1>9. Fault => VmInv'
    BY <1>1, <1>2, <1>6 DEF Fault
  <1>10. Alloc(r) => VmInv'
    <2>1. FreeHandles(s) # {} /\ t = SetReg(AllocObject(s), r, Min(FreeHandles(s))) => SomeStable(t)
      BY <1>3, AllocStep
    <2> QED
      BY <1>1, <1>2, <1>4, <1>6, <2>1 DEF Alloc
  <1>11. Mov(r, q) => VmInv'
    BY <1>1, <1>2, <1>5, <1>7 DEF Mov
  <1>12. ASSUME NEW f \in Fields PROVE HLoad(q, f, r) => VmInv'
    <2>1. PICK o : o = s.regs[q]
      OBVIOUS
    <2>2. PICK v : v = s.cells[o][f]
      OBVIOUS
    <2>3. o # 0 => Storable(s, v)
      BY <1>5, <2>1, <2>2, FieldStorable
    <2>4. HLoad(q, f, r) => t = RaiseRuntime(s) \/ (o # 0 /\ t = SetReg(s, r, v))
      BY <1>1, <1>2, <2>1, <2>2 DEF HLoad
    <2> QED
      BY <1>6, <1>7, <2>3, <2>4
  <1>13. ASSUME NEW f \in Fields PROVE HStore(q, f, r) => VmInv'
    <2>1. PICK o : o = s.regs[q]
      OBVIOUS
    <2>2. PICK new : new = s.regs[r]
      OBVIOUS
    <2>3. PICK a : a = GcEdgeRemove(s, o, s.cells[o][f])
      OBVIOUS
    <2>4. PICK d : d = [a EXCEPT !.cells[o][f] = new]
      OBVIOUS
    <2>5. Overwrites(s, a, d, s.regs[q], f, s.regs[r])
      BY <2>1, <2>2, <2>3, <2>4, ZenonT(40) DEF Overwrites
    <2>6. HStore(q, f, r) => \/ t = RaiseRuntime(s)
                             \/ t = s
                             \/ o # 0 /\ t = GcEdgeAdd(d, o, new)
      BY <1>1, <1>2, <2>1, <2>2, <2>3, <2>4 DEF HStore
    <2>7. o # 0 /\ t = GcEdgeAdd(d, o, new) => SomeStable(t)
      BY <1>3, <2>1, <2>2, <2>5, StoreStep
    <2>8. t = s => VmInv'
      BY <1>1, <1>2, <1>4 DEF VmInv
    <2> QED
      BY <1>4, <1>6, <2>6, <2>7, <2>8
  <1>14. ASSUME NEW g \in Globals PROVE GLoad(g, r) => VmInv'
    BY <1>1, <1>2, <1>5, <1>7 DEF GLoad
  <1>15. ASSUME NEW g \in Globals PROVE GStore(g, r) => VmInv'
    <2>1. t = SetGlobal(s, g, s.regs[r]) => SomeStable(t)
      BY <1>3, GlobalStep
    <2> QED
      BY <1>1, <1>2, <1>4, <2>1 DEF GStore
  <1>16. Compute(r) \/ Alloc(r) \/ Fault => VmInv'
    BY <1>8, <1>9, <1>10
  <1>17. ASSUME NEW f \in Fields PROVE HLoad(q, f, r) \/ HStore(q, f, r) => VmInv'
    BY <1>12, <1>13
  <1>18. ASSUME NEW g \in Globals PROVE GLoad(g, r) \/ GStore(g, r) => VmInv'
    BY <1>14, <1>15
  <1> QED
    BY <1>11, <1>16, <1>17, <1>18, ZenonT(40)

\* Those that call, return, throw, install a handler or use the data stack.
LEMMA ControlSteps ==
  ASSUME VmInv, NEW r \in Regs, NEW n \in 0..NArgs, NEW last \in NArgs..LastLocal
  PROVE  /\ Call(last) \/ CallInd(r, n, last) \/ Ret => VmInv'
         /\ TryPush(r) \/ TryPop \/ Throw(r) => VmInv'
         /\ PushR(r) \/ PopR \/ Stop => VmInv'
  <1> SUFFICES ASSUME Running
               PROVE  /\ Call(last) \/ CallInd(r, n, last) \/ Ret => VmInv'
                      /\ TryPush(r) \/ TryPop \/ Throw(r) => VmInv'
                      /\ PushR(r) \/ PopR \/ Stop => VmInv'
    BY DEF Call, CallInd, Ret, TryPush, TryPop, Throw, PushR, PopR, Stop
  <1>1. PICK s : s = vm
    OBVIOUS
  <1>2. PICK t : t = vm'
    OBVIOUS
  <1>3. Ready(s)
    BY <1>1, RunningIs DEF VmInv, Running
  <1>4. SomeStable(t) => VmInv'
    BY <1>2 DEF VmInv
  <1>5. /\ Good(s, Nothing, Nowhere, 0) /\ s \in VmStates
        /\ Bounded(s) /\ Sorted(s.handlers, Len(s.frames)) /\ s.status = "run"
        /\ Storable(s, s.regs[r])
    BY <1>3, HolderStorable DEF Ready
  <1>6. /\ s.handlers \in Seq(HandlerRecords) /\ s.data \in Seq(SpillRecords)
        /\ Len(s.frames) \in Nat /\ Len(s.data) \in Nat /\ Len(s.handlers) \in Nat
    BY <1>5, Holders
  <1>7. Call(last) => VmInv'
    <2>1. Len(s.frames) < MaxFrames /\ t = PushCallFrame(s, last) => SomeStable(t)
      BY <1>3, CallStep
    <2> QED
      BY <1>1, <1>2, <1>4, <2>1 DEF Call
  <1>8. CallInd(r, n, last) => VmInv'
    <2>1. PICK a : a = MoveArguments(s, n)
      OBVIOUS
    <2>2. n \in Nat
      BY Sizes
    <2>3. Len(s.frames) < MaxFrames /\ n < NArgs /\ t = PushCallFrame(SetReg(a, 1, a.regs[r]), last)
          => SomeStable(t)
      BY <1>3, <2>1, <2>2, CallIndStep
    <2> QED
      BY <1>1, <1>2, <1>4, <2>1, <2>3 DEF CallInd
  <1>9. Ret => VmInv'
    <2>1. PICK a : a = [s EXCEPT !.handlers = KeptHandlers(s)]
      OBVIOUS
    <2>2. Ready(a) /\ (a.frames # <<>> => Sorted(a.handlers, Len(a.frames) - 1))
      BY <1>3, <2>1, TrimStep
    <2>3. t = [a EXCEPT !.status = "stopped"] => SomeStable(t)
      BY <2>2, StopStep
    <2>4. a.frames # <<>> /\ t = RestoreCallFrame(a) => SomeStable(t)
      BY <2>2, ReturnStep
    <2>5. Ret => \/ t = [a EXCEPT !.status = "stopped"]
                 \/ a.frames # <<>> /\ t = RestoreCallFrame(a)
      BY <1>1, <1>2, <2>1 DEF Ret
    <2> QED
      BY <1>4, <2>3, <2>4, <2>5
  <1>10. TryPush(r) => VmInv'
    <2> SUFFICES ASSUME TryPush(r) PROVE SomeStable(t)
      BY <1>4
    <2>1. PICK h : h = [reg |-> r, callDepth |-> Len(s.frames), dataDepth |-> Len(s.data)]
      OBVIOUS
    <2>2. h \in HandlerRecords /\ h.callDepth = Len(s.frames)
      BY <1>6, <2>1 DEF HandlerRecords
    <2>3. PICK q : q = Append(s.handlers, h)
      OBVIOUS
    <2>4. PICK hs : hs = s.handlers
      OBVIOUS
    <2>5. PICK k : k = Len(s.frames)
      OBVIOUS
    <2>6. q \in Seq(HandlerRecords) /\ Len(q) = Len(hs) + 1 /\ Sorted(q, k)
      <3>1. hs \in Seq(HandlerRecords) /\ k \in Nat /\ Sorted(hs, k) /\ h \in HandlerRecords
            /\ h.callDepth = k /\ q = Append(hs, h)
        BY <1>5, <1>6, <2>2, <2>3, <2>4, <2>5
      <3> QED
        BY <3>1, SortedPush
    <2>7. Len(q) <= MaxHandlers
      <3>1. Len(hs) < MaxHandlers /\ Len(hs) \in Nat /\ MaxHandlers \in Nat
        BY <1>1, <1>6, <2>4, VmAssumption DEF TryPush
      <3> QED
        BY <2>6, <3>1
    <2>8. t = [s EXCEPT !.handlers = q]
      BY <1>1, <1>2, <2>1, <2>3 DEF TryPush
    <2> QED
      BY <1>3, <2>5, <2>6, <2>7, <2>8, HandlerStep
  <1>11. TryPop => VmInv'
    <2> SUFFICES ASSUME TryPop PROVE SomeStable(t)
      BY <1>4
    <2>1. PICK q : q = Pop(s.handlers)
      OBVIOUS
    <2>2. s.handlers # <<>>
      BY <1>1 DEF TryPop
    <2>3. PICK hs : hs = s.handlers
      OBVIOUS
    <2>4. q \in Seq(HandlerRecords) /\ Len(q) <= Len(hs) /\ Sorted(q, Len(s.frames))
      BY <1>5, <1>6, <2>1, <2>2, <2>3, SortedPop
    <2>5. Len(q) <= MaxHandlers
      <3>1. Len(hs) <= MaxHandlers /\ Len(hs) \in Nat /\ MaxHandlers \in Nat /\ Len(q) \in Nat
        BY <1>5, <1>6, <2>3, <2>4, VmAssumption DEF Bounded
      <3> QED
        BY <2>4, <3>1
    <2>6. t = [s EXCEPT !.handlers = q]
      BY <1>1, <1>2, <2>1 DEF TryPop
    <2> QED
      BY <1>3, <2>4, <2>5, <2>6, HandlerStep
  <1>12. Throw(r) => VmInv'
    <2>1. PICK v : v = s.regs[r]
      OBVIOUS
    <2>2. 0 \in {0, v} /\ Storable(s, v)
      BY <1>5, <2>1
    <2>3. t = ThrowValue(s, v) => SomeStable(t)
      BY <1>5, <2>2, ThrowStep
    <2> QED
      BY <1>1, <1>2, <1>4, <2>1, <2>3 DEF Throw
  <1>13. PushR(r) => VmInv'
    <2> SUFFICES ASSUME PushR(r) PROVE SomeStable(t)
      BY <1>4
    <2>1. PICK v : v = s.regs[r]
      OBVIOUS
    <2>2. PICK a : a = GcRootAdd(s, v)
      OBVIOUS
    <2>3. PICK d : d = [reg |-> r, value |-> v]
      OBVIOUS
    <2>4. d \in SpillRecords /\ d.value = v
      BY <1>5, <2>1, <2>3 DEF SpillRecords, Storable
    <2>5. Len(s.data) < MaxData
      BY <1>1 DEF PushR
    <2>6. Spilling(a, t, d)
      BY <1>1, <1>2, <2>1, <2>2, <2>3 DEF PushR, Spilling
    <2> QED
      BY <1>3, <2>1, <2>2, <2>4, <2>5, <2>6, SpillPushStep
  <1>14. PopR => VmInv'
    <2>1. s.data # <<>> /\ t = PopSaved(s) => SomeStable(t)
      BY <1>3, SpillPopStep
    <2> QED
      BY <1>1, <1>2, <1>4, <2>1 DEF PopR
  <1>15. Stop => VmInv'
    <2>1. t = [s EXCEPT !.status = "stopped"] => SomeStable(t)
      BY <1>3, StopStep
    <2> QED
      BY <1>1, <1>2, <1>4, <2>1 DEF Stop
  <1> QED
    BY <1>7, <1>8, <1>9, <1>10, <1>11, <1>12, <1>13, <1>14, <1>15

\* And the end of the program.
LEMMA EndStep ==
  ASSUME VmInv, Finish
  PROVE  VmInv'
  <1>1. PICK s : s = vm
    OBVIOUS
  <1>2. PICK t : t = vm'
    OBVIOUS
  <1>3. PICK a : a = FinishGC(s)
    OBVIOUS
  <1>4. s.status = "stopped" /\ t = [a EXCEPT !.status = "finished"]
    BY <1>1, <1>2, <1>3 DEF Finish
  <1>5. PICK x : Stable(s, x)
    BY <1>1 DEF VmInv, SomeStable
  <1>6. SomeStable(t)
    BY <1>3, <1>4, <1>5, FinishStep
  <1> QED
    BY <1>2, <1>6 DEF VmInv

\* The invariant holds throughout.
LEMMA VmInvariant == Spec => []VmInv
  <1>1. Init => VmInv
    <2> SUFFICES ASSUME Init PROVE VmInv
      OBVIOUS
    <2>1. PICK gc \in Collectors : vm = InitVm(gc)
      BY DEF Init
    <2> QED
      BY <2>1, InitGood DEF VmInv
  <1>2. VmInv /\ [Next]_vm => VmInv'
    <2> SUFFICES ASSUME VmInv, [Next]_vm PROVE VmInv'
      OBVIOUS
    <2>1. CASE UNCHANGED vm
      BY <2>1 DEF VmInv
    <2>2. ASSUME NEW r \in Regs, Compute(r) \/ Alloc(r) \/ TryPush(r) \/ Throw(r) \/ PushR(r) PROVE VmInv'
      <3>1. 0 \in 0..NArgs /\ NArgs \in NArgs..LastLocal
        BY Sizes
      <3> QED
        BY <2>2, <3>1, MemorySteps, ControlSteps
    <2>3. ASSUME NEW r \in Regs, NEW q \in Regs, Mov(r, q) PROVE VmInv'
      BY <2>3, MemorySteps
    <2>4. ASSUME NEW r \in Regs, NEW q \in Regs, NEW f \in Fields, HLoad(q, f, r) \/ HStore(q, f, r)
          PROVE  VmInv'
      BY <2>4, MemorySteps
    <2>5. ASSUME NEW r \in Regs, NEW g \in Globals, GLoad(g, r) \/ GStore(g, r) PROVE VmInv'
      BY <2>5, MemorySteps
    <2>6. ASSUME NEW last \in NArgs..LastLocal, Call(last) PROVE VmInv'
      <3>1. 0 \in Regs /\ 0 \in 0..NArgs
        BY Sizes DEF Regs
      <3> QED
        BY <2>6, <3>1, ControlSteps
    <2>7. ASSUME NEW last \in NArgs..LastLocal, NEW c \in Regs, NEW n \in 0..NArgs, CallInd(c, n, last)
          PROVE  VmInv'
      BY <2>7, ControlSteps
    <2>8. CASE Ret \/ TryPop \/ PopR \/ Fault \/ Stop
      <3>1. 0 \in Regs /\ 0 \in 0..NArgs /\ NArgs \in NArgs..LastLocal
        BY Sizes DEF Regs
      <3>2. CASE Fault
        BY <3>1, <3>2, MemorySteps
      <3>3. CASE Ret \/ TryPop \/ PopR \/ Stop
        BY <3>1, <3>3, ControlSteps
      <3> QED
        BY <2>8, <3>2, <3>3
    <2>9. CASE Finish
      BY <2>9, EndStep
    <2> QED
      BY <2>1, <2>2, <2>3, <2>4, <2>5, <2>6, <2>7, <2>8, <2>9 DEF Next
  <1> QED
    BY <1>1, <1>2, PTL DEF Spec

-----------------------------------------------------------------------------
(* What the invariant says *)

\* One copy of each member are as many as the members.
LEMMA OnesCount ==
  ASSUME NEW Q, IsFiniteSet(Q), NEW f, \A x \in Q : f[x] = 1
  PROVE  Cardinality(Copies(Q, f)) = Cardinality(Q)
  <1> DEFINE C == Copies(Q, f)
             g == [x \in Q |-> <<x, 1>>]
  <1>1. \A x \in Q : <<x, 1>> \in C
    BY CopyIs
  <1>2. g \in [Q -> C]
    BY <1>1
  <1>3. \A x, y \in Q : g[x] = g[y] => x = y
    OBVIOUS
  <1>4. \A t \in C : \E x \in Q : g[x] = t
    <2> SUFFICES ASSUME NEW t \in C PROVE \E x \in Q : g[x] = t
      OBVIOUS
    <2>1. t = <<t[1], t[2]>>
      BY CopyIs
    <2>2. t[1] \in Q /\ t[2] \in 1..f[t[1]]
      BY <2>1, CopyIs
    <2>3. t[2] = 1
      BY <2>2
    <2>4. g[t[1]] = <<t[1], 1>>
      BY <2>2
    <2> QED
      BY <2>1, <2>2, <2>3, <2>4
  <1> HIDE DEF C, g
  <1>5. Cardinality(C) = Cardinality(Q)
    BY <1>2, <1>3, <1>4, CardinalityByBijection
  <1> QED
    BY <1>5 DEF C

\* The edge count of a cell is the number of fields that refer to it.
LEMMA EdgeIsRefs ==
  ASSUME NEW e, NEW lv, NEW cl, NEW R, NEW x, EngGood(e, lv, cl, R, x), NEW c \in Cells
  PROVE  e.edge[c] = Refs(cl, Cells, c)
  <1> DEFINE Q == RefsAt(cl, Cells, c)
             S == Into(c)
             f == [y \in Q |-> 1]
             Of == [q \in S |-> RefsAt(cl, {Index(q[1])}, c)]
  <1>1. IsFiniteSet(Q) /\ IsFiniteSet(S) /\ \A a \in Cells : IsFiniteSet(RefsAt(cl, {a}, c))
    <2>1. Cells \in SUBSET Cells /\ \A a \in Cells : {a} \in SUBSET Cells
      OBVIOUS
    <2> QED
      BY <2>1, RefsFinite, HandlesFinite
  <1>2. \A q \in S : /\ Index(q[1]) \in Cells /\ q = <<At(Index(q[1])), At(c)>>
                    /\ e.out[q] = Hits(Fields, cl[Index(q[1])], c)
    <2> SUFFICES ASSUME NEW q \in S
                 PROVE  /\ Index(q[1]) \in Cells /\ q = <<At(Index(q[1])), At(c)>>
                        /\ e.out[q] = Hits(Fields, cl[Index(q[1])], c)
      OBVIOUS
    <2>1. q \in Pairs /\ Index(q[2]) = c
      BY DEF Into
    <2>2. q = <<At(Index(q[1])), At(c)>> /\ Index(q[1]) \in Cells
      BY <2>1, OneGeneration
    <2> QED
      BY <2>2 DEF EngGood, OutExact
  <1>3. \A q \in S : Of[q] = RefsAt(cl, {Index(q[1])}, c) /\ Of[q] \subseteq Q
    BY <1>2 DEF RefsAt
  <1>4. \A y : y \in Q <=> \E q \in S : y \in Of[q]
    <2>1. ASSUME NEW y \in Q PROVE \E q \in S : y \in Of[q]
      <3>1. y \in Cells \X Fields /\ cl[y[1]][y[2]] = c
        BY DEF RefsAt
      <3>2. PICK a \in Cells : a = y[1]
        BY <3>1
      <3>3. PICK q : q = <<At(a), At(c)>>
        OBVIOUS
      <3>4. q \in S /\ Index(q[1]) = a
        BY <3>3, OneGeneration DEF Into
      <3>5. y \in RefsAt(cl, {a}, c)
        BY <3>1, <3>2 DEF RefsAt
      <3> QED
        BY <1>3, <3>4, <3>5
    <2> QED
      BY <1>3, <2>1
  <1>5. \A q, r \in S : \A y : y \in Of[q] /\ y \in Of[r] => q = r
    <2> SUFFICES ASSUME NEW q \in S, NEW r \in S, NEW y, y \in Of[q], y \in Of[r] PROVE q = r
      OBVIOUS
    <2>1. y[1] = Index(q[1]) /\ y[1] = Index(r[1])
      BY <1>3 DEF RefsAt
    <2> QED
      BY <1>2, <2>1
  <1>6. \A y \in Q : f[y] = 1
    OBVIOUS
  <1> HIDE DEF f, Q, S, Of
  <1>7. \A q \in S : e.out[q] = Cardinality(Copies(Of[q], f))
    <2> SUFFICES ASSUME NEW q \in S PROVE e.out[q] = Cardinality(Copies(Of[q], f))
      OBVIOUS
    <2>1. PICK a \in Cells : a = Index(q[1])
      BY <1>2
    <2>2. PICK P : P = Of[q]
      OBVIOUS
    <2>3. P = RefsAt(cl, {a}, c) /\ IsFiniteSet(P) /\ \A y \in P : f[y] = 1
      BY <1>1, <1>3, <1>6, <2>1, <2>2
    <2>4. Cardinality(Copies(P, f)) = Cardinality(P)
      BY <2>3, OnesCount
    <2>5. Cardinality(P) = Hits(Fields, cl[a], c)
      BY <2>3, RefsRow DEF Refs
    <2> QED
      BY <1>2, <2>1, <2>2, <2>4, <2>5
  <1>8. \A y \in Q : f[y] \in Nat
    BY <1>6
  <1>9. Cardinality(Copies(S, e.out)) = Cardinality(Copies(Q, f))
    BY <1>1, <1>4, <1>5, <1>7, <1>8, CopiesByPart
  <1>10. Cardinality(Copies(Q, f)) = Cardinality(Q)
    BY <1>1, <1>6, OnesCount
  <1>11. e.edge[c] = Cardinality(Copies(S, e.out))
    BY DEF EngGood, EdgesExact, S
  <1> QED
    BY <1>9, <1>10, <1>11 DEF Refs, Q

\* What a stable machine's collector knows, with nothing hidden.
LEMMA StableParts ==
  ASSUME NEW s, NEW x, Stable(s, x), NEW R, R = Held(s, Nothing)
  PROVE  /\ s \in VmStates /\ ~s.errors /\ s.eng.errors = {}
         /\ Sound(s, R, Nowhere, x) /\ Settled(s) /\ Numbers(R)
         /\ View(s.cells, Nowhere) = s.cells
         /\ Arc(s) => ArcGood(s.rc, s.live, s.cells, R, x)
         /\ ~Arc(s) => EngGood(s.eng, s.live, s.cells, R, x)
         /\ \A c \in Cells : R[c] = RootsOn(s, c) /\ RootsOn(s, c) \in Nat
  <1>1. Sound(s, R, Nowhere, x) /\ Settled(s) /\ s \in VmStates
    BY DEF Stable, Good, Sound
  <1>2. View(s.cells, Nowhere) = s.cells
    BY <1>1, EngineParts, ViewIs
  <1>3. Numbers(Nothing) /\ \A c \in Cells : Nothing[c] = 0
    BY DEF Numbers, Nothing
  <1>4. /\ Numbers(R)
        /\ \A c \in Cells : R[c] = RootsOn(s, c) + Nothing[c] /\ RootsOn(s, c) \in Nat
    BY <1>1, <1>3, HeldType
  <1>5. \A c \in Cells : R[c] = RootsOn(s, c)
    BY <1>3, <1>4
  <1> QED
    BY <1>1, <1>2, <1>4, <1>5 DEF Sound

\* The counts of the collector are the references there are.
LEMMA StableCounts ==
  ASSUME NEW s, NEW x, Stable(s, x), NEW c \in Cells
  PROVE  IF Arc(s) THEN s.rc[c] = RootsOn(s, c) + RefsFrom(s, Cells, c)
         ELSE s.eng.root[c] = RootsOn(s, c) /\ s.eng.edge[c] = RefsFrom(s, Cells, c)
  <1>1. PICK R : R = Held(s, Nothing)
    OBVIOUS
  <1>2. /\ Arc(s) => ArcGood(s.rc, s.live, s.cells, R, x)
        /\ ~Arc(s) => EngGood(s.eng, s.live, s.cells, R, x)
        /\ R[c] = RootsOn(s, c)
    BY <1>1, StableParts
  <1>3. RefsFrom(s, Cells, c) = Refs(s.cells, Cells, c)
    BY DEF RefsFrom, Refs, RefsAt
  <1>4. Arc(s) => s.rc[c] = RootsOn(s, c) + RefsFrom(s, Cells, c)
    BY <1>2, <1>3 DEF ArcGood
  <1>5. ~Arc(s) => s.eng.root[c] = RootsOn(s, c)
    BY <1>2 DEF EngGood
  <1>6. ~Arc(s) => s.eng.edge[c] = RefsFrom(s, Cells, c)
    BY <1>2, <1>3, EdgeIsRefs
  <1> QED
    BY <1>4, <1>5, <1>6

\* An edge is a field, and between live objects; a root is on a live object.
LEMMA EdgeIs ==
  ASSUME NEW s, NEW x, Stable(s, x), NEW a \in Cells, NEW b \in Cells
  PROVE  /\ <<a, b>> \in CellEdges(s) => s.live[a] /\ s.live[b]
         /\ <<a, b>> \in CellEdges(s) <=> \E f \in Fields : s.cells[a][f] = b
         /\ RootsOn(s, a) > 0 => s.live[a]
  <1>1. PICK R : R = Held(s, Nothing)
    OBVIOUS
  <1>2. PICK h : h = Nowhere
    OBVIOUS
  <1>3. PICK cl : cl = View(s.cells, h)
    OBVIOUS
  <1>4. Sound(s, R, h, x) /\ Numbers(R) /\ cl = s.cells /\ R[a] = RootsOn(s, a)
    BY <1>1, <1>2, <1>3, StableParts
  <1>5. RootsOn(s, a) > 0 => s.live[a]
    BY <1>4, RootLives
  <1>6. <<a, b>> \in CellEdges(s) <=> Refs(s.cells, {a}, b) > 0
    BY DEF CellEdges, RefsFrom, Refs, RefsAt
  <1>7. {a} \in SUBSET Cells /\ Refs(s.cells, {a}, b) \in Nat
    BY RefsType
  <1>8. Refs(s.cells, {a}, b) > 0 <=> \E f \in Fields : s.cells[a][f] = b
    <2>1. ASSUME NEW f \in Fields, s.cells[a][f] = b PROVE Refs(s.cells, {a}, b) > 0
      BY <1>7, <2>1, RefsSome
    <2>2. (\A f \in Fields : s.cells[a][f] # b) => Refs(s.cells, {a}, b) = 0
      BY <1>7, RefsNone
    <2> QED
      BY <2>1, <2>2
  <1>9. ASSUME NEW f \in Fields, s.cells[a][f] = b PROVE s.live[a] /\ s.live[b]
    <2>1. cl[a][f] = b /\ b # 0
      BY <1>4, <1>9, Sizes
    <2>2. cl[a][f] # 0
      BY <2>1
    <2>3. Sound(s, R, h, x) /\ Numbers(R)
      BY <1>4
    <2>4. cl[a][f] \in Cells /\ s.live[cl[a][f]] /\ s.live[a]
      BY <1>3, <2>2, <2>3, FieldLives
    <2> QED
      BY <2>1, <2>4
  <1> QED
    BY <1>5, <1>6, <1>8, <1>9

\* Whatever the program can reach is live.
LEMMA StableReach ==
  ASSUME NEW s, NEW x, Stable(s, x)
  PROVE  /\ \A c \in ReachableObjects(s) : c \in Cells /\ s.live[c]
         /\ \A c \in Cells : RootsOn(s, c) > 0 => c \in ReachableObjects(s)
         /\ ClosedIn(Cells, CellEdges(s), ReachableObjects(s))
  <1> DEFINE E == CellEdges(s)
             S == {c \in Cells : RootsOn(s, c) > 0}
             X == {c \in Cells : s.live[c]}
  <1>1. S \subseteq X
    BY EdgeIs
  <1>2. ClosedIn(Cells, E, X)
    BY EdgeIs DEF ClosedIn
  <1>3. X \subseteq Cells /\ S \subseteq Cells
    OBVIOUS
  <1>4. ReachableObjects(s) = ReachIn(Cells, E, S)
    BY DEF ReachableObjects
  <1> HIDE DEF E
  <1>5. /\ ReachIn(Cells, E, S) \subseteq X
        /\ S \subseteq ReachIn(Cells, E, S)
        /\ ClosedIn(Cells, E, ReachIn(Cells, E, S))
    <2> HIDE DEF S, X
    <2> QED
      BY <1>1, <1>2, <1>3, ReachLeast, ReachClosed
  <1> QED
    BY <1>4, <1>5 DEF E

\* What is live but out of reach hangs off a suspect.
LEMMA StableGarbage ==
  ASSUME NEW s, Stable(s, 0), ~Arc(s)
  PROVE  Garbage(s) \subseteq Visited(s.eng, Source(s))
  <1>1. PICK R : R = Held(s, Nothing)
    OBVIOUS
  <1>2. PICK e : e = s.eng
    OBVIOUS
  <1>3. PICK lv : lv = s.live
    OBVIOUS
  <1>4. /\ EngGood(e, lv, s.cells, R, 0) /\ s \in VmStates /\ e.zero = {}
        /\ \A c \in Cells : R[c] = RootsOn(s, c)
    BY <1>1, <1>2, <1>3, StableParts DEF Settled
  <1>5. Source(s) = Src(lv)
    BY <1>3, <1>4, EngineParts
  <1>6. PICK V : V = Visited(e, Src(lv))
    OBVIOUS
  <1>7. PICK P : P = ReachableObjects(s)
    OBVIOUS
  <1>8. /\ \A c \in P : c \in Cells
        /\ \A c \in Cells : RootsOn(s, c) > 0 => c \in P
        /\ ClosedIn(Cells, CellEdges(s), P)
    BY <1>7, StableReach
  <1>9. /\ V \subseteq Cells /\ ClosedIn(Cells, GraphOf(e, Src(lv)), V)
        /\ ScanRoots(e, Src(lv)) \subseteq V
    <2>1. ScanRoots(e, Src(lv)) \subseteq Cells
      BY <1>4 DEF ScanRoots, EngGood, EngineType, Engines
    <2> QED
      BY <1>6, <2>1, ReachClosed DEF Visited
  <1>10. Covers(e, lv, P \cup V)
    <2>1. ASSUME NEW a \in P \cup V, NEW y \in Cells, Refers(e, a, y) PROVE y \in P \cup V
      <3>1. CASE a \in V
        <4>1. RecordsLive(e, Src(lv))
          BY <1>4 DEF EngGood
        <4>2. <<a, y>> \in GraphOf(e, Src(lv))
          BY <2>1, <4>1, GraphIsRecords
        <4> QED
          BY <1>9, <3>1, <4>2 DEF ClosedIn
      <3>2. CASE a \in P
        <4>1. PICK q \in Pairs : e.out[q] > 0 /\ Index(q[1]) = a /\ Index(q[2]) = y
          BY <2>1 DEF Refers
        <4>2. a \in Cells /\ q = <<At(a), At(y)>>
          BY <1>8, <3>2, <4>1, OneGeneration
        <4>3. Hits(Fields, s.cells[a], y) > 0
          BY <1>4, <4>1, <4>2 DEF EngGood, OutExact
        <4>4. \E f \in Fields : s.cells[a][f] = y
          <5>1. IsFiniteSet(Fields)
            BY Sizes
          <5> QED
            BY <4>3, <5>1, HitsSome
        <4>5. <<a, y>> \in CellEdges(s)
          BY <4>2, <4>4, EdgeIs
        <4> QED
          BY <1>8, <3>2, <4>5 DEF ClosedIn
      <3> QED
        BY <2>1, <3>1, <3>2
    <2>2. ASSUME NEW c \in Cells, lv[c], Anchor(e, c) PROVE c \in P \cup V
      <3>1. e.root[c] > 0 => c \in P
        BY <1>4, <1>8 DEF EngGood
      <3>2. Total(e, c) # 0
        <4>1. c # 0
          BY Sizes
        <4> QED
          BY <1>4, <2>2, <4>1 DEF EngGood, ZerosQueued
      <3>3. Total(e, c) \in Nat
        BY <1>4 DEF EngGood, EngineType, Engines, Total
      <3>4. c \in e.marks \cap e.stack => c \in ScanRoots(e, Src(lv))
        BY <2>2, <3>2, <3>3 DEF ScanRoots, Src
      <3> QED
        BY <1>9, <2>2, <3>1, <3>2, <3>4 DEF Anchor
    <2> QED
      BY <2>1, <2>2 DEF Covers
  <1>11. AllIn(lv, P \cup V)
    <2>1. P \cup V \in SUBSET Cells /\ Anchored(e, lv)
      BY <1>4, <1>8, <1>9 DEF EngGood
    <2> QED
      BY <1>10, <2>1 DEF Anchored
  <1> QED
    BY <1>2, <1>3, <1>5, <1>6, <1>7, <1>11 DEF Garbage, AllIn

\* Everything that leaks under counting has another leak that refers to it.
LEMMA LeakHasReferrer ==
  ASSUME NEW s, Stable(s, 0), Arc(s), NEW d \in Garbage(s)
  PROVE  d \in Cells /\ \E p \in Garbage(s) : p \in Cells /\ <<p, d>> \in CellEdges(s)
  <1>1. PICK R : R = Held(s, Nothing)
    OBVIOUS
  <1>2. /\ ArcGood(s.rc, s.live, s.cells, R, 0)
        /\ \A c \in Cells : R[c] = RootsOn(s, c) /\ RootsOn(s, c) \in Nat
    BY <1>1, StableParts
  <1>3. d \in Cells /\ s.live[d] /\ d \notin ReachableObjects(s)
    BY DEF Garbage
  <1>4. RootsOn(s, d) = 0
    BY <1>2, <1>3, StableReach
  <1>5. d # 0
    BY <1>3, Sizes
  <1>6. Refs(s.cells, Cells, d) > 0
    <2>1. Cells \in SUBSET Cells /\ Refs(s.cells, Cells, d) \in Nat
      BY RefsType
    <2>2. s.rc[d] = R[d] + Refs(s.cells, Cells, d) /\ s.rc[d] > 0
      BY <1>2, <1>3, <1>5 DEF ArcGood
    <2> QED
      BY <1>2, <1>3, <1>4, <2>1, <2>2
  <1>7. PICK p \in Cells, f \in Fields : s.cells[p][f] = d
    <2>1. Cells \in SUBSET Cells
      OBVIOUS
    <2> QED
      BY <1>6, <2>1, RefsNone
  <1>8. <<p, d>> \in CellEdges(s) /\ s.live[p]
    BY <1>3, <1>7, EdgeIs
  <1>9. p \notin ReachableObjects(s)
    BY <1>3, <1>8, StableReach DEF ClosedIn
  <1> QED
    BY <1>3, <1>7, <1>8, <1>9 DEF Garbage

\* Where everybody has a referrer, everybody is on or behind a cycle: of those that reach
\* a node, one that the fewest reach is reached by all who reach it.
LEMMA BehindCycle ==
  ASSUME NEW N, IsFiniteSet(N), NEW E, NEW G \in SUBSET N,
         \A d \in G : \E p \in G : <<p, d>> \in E, NEW c \in G
  PROVE  \E p \in G : /\ c \in ReachIn(N, E, {p})
                      /\ \E d \in N : <<p, d>> \in E /\ p \in ReachIn(N, E, {d})
  <1> DEFINE Back(d) == {a \in G : d \in ReachIn(N, E, {a})}
             Counts == {Cardinality(Back(d)) : d \in Back(c)}
  <1>1. \A a \in G : {a} \subseteq N /\ a \in N
    OBVIOUS
  <1>2. \A a \in G : a \in ReachIn(N, E, {a})
    BY <1>1, ReachClosed
  <1>3. \A a, b : a \in G /\ b \in ReachIn(N, E, {a}) => ReachIn(N, E, {b}) \subseteq ReachIn(N, E, {a})
    BY <1>1, ReachFrom
  <1>4. \A a \in G : \A b \in N : <<a, b>> \in E => b \in ReachIn(N, E, {a})
    <2> SUFFICES ASSUME NEW a \in G, NEW b \in N, <<a, b>> \in E PROVE b \in ReachIn(N, E, {a})
      OBVIOUS
    <2>1. ClosedIn(N, E, ReachIn(N, E, {a}))
      BY <1>1, ReachClosed
    <2> QED
      BY <1>2, <2>1 DEF ClosedIn
  <1>5. \A d : Back(d) \subseteq G /\ IsFiniteSet(Back(d)) /\ Cardinality(Back(d)) \in Nat
    <2>1. \A d : Back(d) \subseteq N
      OBVIOUS
    <2> HIDE DEF Back
    <2>2. \A d : IsFiniteSet(Back(d))
      BY <2>1, FS_Subset
    <2>3. \A d : Cardinality(Back(d)) \in Nat
      BY <2>2, FS_CardinalityType
    <2> QED
      BY <2>2, <2>3 DEF Back
  <1>6. c \in Back(c)
    BY <1>2
  <1>7. PICK d \in Back(c) : \A a \in Back(c) : Cardinality(Back(d)) <= Cardinality(Back(a))
    <2>1. Counts \in SUBSET Nat /\ Counts # {}
      BY <1>5, <1>6
    <2>2. /\ \A n \in Counts : \E d \in Back(c) : n = Cardinality(Back(d))
          /\ \A a \in Back(c) : Cardinality(Back(a)) \in Counts
      OBVIOUS
    <2> HIDE DEF Back, Counts
    <2>3. PICK n \in Counts : \A k \in Counts : n <= k
      BY <2>1, LeastNatural
    <2>4. PICK d \in Back(c) : n = Cardinality(Back(d))
      BY <2>2
    <2> QED
      BY <2>2, <2>3, <2>4
  <1>8. d \in G /\ c \in ReachIn(N, E, {d}) /\ d \in Back(d)
    BY <1>2, <1>7
  <1>9. PICK p \in G : <<p, d>> \in E
    BY <1>8
  <1>10. d \in ReachIn(N, E, {p}) /\ d \in N
    BY <1>1, <1>4, <1>8, <1>9
  <1>11. c \in ReachIn(N, E, {p})
    BY <1>3, <1>8, <1>9, <1>10
  <1>12. Back(p) \subseteq Back(d)
    BY <1>3, <1>10
  <1>13. Back(p) = Back(d)
    <2>1. p \in Back(c)
      BY <1>9, <1>11
    <2>2. Cardinality(Back(d)) <= Cardinality(Back(p))
      BY <1>7, <2>1
    <2> HIDE DEF Back
    <2>3. PICK A : A = Back(p)
      OBVIOUS
    <2>4. PICK B : B = Back(d)
      OBVIOUS
    <2>5. /\ A \subseteq B /\ IsFiniteSet(B) /\ Cardinality(B) <= Cardinality(A)
          /\ Cardinality(A) \in Nat /\ Cardinality(B) \in Nat
      BY <1>5, <1>12, <2>2, <2>3, <2>4
    <2>6. Cardinality(A) <= Cardinality(B) /\ (Cardinality(B) = Cardinality(A) => B = A)
      BY <2>5, FS_Subset
    <2>7. A = B
      BY <2>5, <2>6
    <2> QED
      BY <2>3, <2>4, <2>7
  <1>14. p \in ReachIn(N, E, {d})
    BY <1>8, <1>13
  <1> QED
    BY <1>9, <1>10, <1>11, <1>14

\* ArcBackend's leaks are on or behind a cycle of leaks.
LEMMA StableLeaks ==
  ASSUME NEW s, Stable(s, 0), Arc(s), NEW c \in Garbage(s)
  PROVE  \E d \in Garbage(s) :
            /\ c = d \/ c \in ReachIn(Cells, CellEdges(s), {d})
            /\ \E e \in Cells : <<d, e>> \in CellEdges(s) /\ d \in ReachIn(Cells, CellEdges(s), {e})
  <1>1. PICK G : G = Garbage(s)
    OBVIOUS
  <1>2. PICK E : E = CellEdges(s)
    OBVIOUS
  <1>3. G \in SUBSET Cells /\ \A d \in G : \E p \in G : <<p, d>> \in E
    BY <1>1, <1>2, LeakHasReferrer
  <1>4. \E p \in G : /\ c \in ReachIn(Cells, E, {p})
                     /\ \E d \in Cells : <<p, d>> \in E /\ p \in ReachIn(Cells, E, {d})
    <2>1. PICK N : N = Cells
      OBVIOUS
    <2>2. IsFiniteSet(N) /\ G \in SUBSET N /\ c \in G
      BY <1>1, <1>3, <2>1, Sizes
    <2>3. \E p \in G : /\ c \in ReachIn(N, E, {p})
                       /\ \E d \in N : <<p, d>> \in E /\ p \in ReachIn(N, E, {d})
      BY <1>3, <2>2, BehindCycle
    <2> QED
      BY <2>1, <2>3
  <1> QED
    BY <1>1, <1>2, <1>4

\* With the invariant, the six properties.
LEMMA InvariantSays ==
  ASSUME VmInv
  PROVE  /\ TypeOK /\ NoDanglingRef /\ CountsExact
         /\ NothingLeaks /\ GarbageIsSuspected /\ HandlersBelongToCalls
  <1>1. PICK s : s = vm
    OBVIOUS
  <1>2. PICK x : Stable(s, x)
    BY <1>1 DEF VmInv, SomeStable
  <1>3. s \in VmStates /\ ~s.errors /\ s.eng.errors = {} /\ Settled(s)
    BY <1>2, StableParts
  <1>4. Running => Stable(s, 0)
    BY <1>1, <1>2 DEF Running, Stable
  <1>5. TypeOK
    BY <1>1, <1>2, <1>3 DEF TypeOK, Stable, Bounded
  <1>6. NoDanglingRef
    <2>1. \A c \in ReachableObjects(s) : s.live[c]
      BY <1>2, StableReach
    <2> QED
      BY <1>1, <2>1 DEF NoDanglingRef
  <1>7. CountsExact
    <2>1. \A c \in Cells : IF Arc(s) THEN s.rc[c] = RootsOn(s, c) + RefsFrom(s, Cells, c)
                           ELSE s.eng.root[c] = RootsOn(s, c) /\ s.eng.edge[c] = RefsFrom(s, Cells, c)
      BY <1>2, StableCounts
    <2> QED
      BY <1>1, <1>3, <2>1 DEF CountsExact
  <1>8. OnlyCyclesLeak
    <2>1. Stable(s, 0) /\ Arc(s) =>
             \A c \in Garbage(s) : \E d \in Garbage(s) :
                /\ c = d \/ c \in ReachIn(Cells, CellEdges(s), {d})
                /\ \E e \in Cells : <<d, e>> \in CellEdges(s) /\ d \in ReachIn(Cells, CellEdges(s), {e})
      BY StableLeaks
    <2> QED
      BY <1>1, <1>4, <2>1 DEF OnlyCyclesLeak
  <1>9. FinishedIsEmpty
    BY <1>1, <1>2 DEF FinishedIsEmpty, Stable, Emptied
  <1>10. GarbageIsSuspected
    <2>1. Stable(s, 0) /\ ~Arc(s) => Garbage(s) \subseteq Visited(s.eng, Source(s))
      BY StableGarbage
    <2>2. ~Arc(s) /\ s.eng.marks # {} => s.since < Interval(s)
      BY <1>3 DEF Settled
    <2> QED
      BY <1>1, <1>4, <2>1, <2>2 DEF GarbageIsSuspected
  <1>11. HandlersBelongToCalls
    <2>1. Sorted(s.handlers, Len(s.frames)) /\ Len(s.handlers) \in Nat
      BY <1>2, <1>3, Holders DEF Stable
    <2>2. \A i \in 1..Len(s.handlers) : i > 1 => i - 1 \in 1..i
      BY <2>1
    <2> QED
      BY <1>1, <2>1, <2>2 DEF HandlersBelongToCalls, Sorted
  <1> QED
    BY <1>5, <1>6, <1>7, <1>8, <1>9, <1>10, <1>11 DEF NothingLeaks

-----------------------------------------------------------------------------
(* The theorems *)

\* Every value is an object or none, the stacks keep within their bounds and the threshold
\* within the policy's window (TypeOK), whatever the barriers and their collections do.
THEOREM VmTypeOK == Spec => []TypeOK
  BY VmInvariant, InvariantSays, PTL

\* No instruction, call, return, throw or collection frees an object that a register, a
\* global, a spilled register, a saved local or a field of such an object refers to.
THEOREM NothingDangles == Spec => []NoDanglingRef
  BY VmInvariant, InvariantSays, PTL

\* The counts of both backends are the references the program has, between any two
\* instructions, and no barrier is ever applied to a dead object or below zero.
THEOREM BarriersBalance == Spec => []CountsExact
  BY VmInvariant, InvariantSays, PTL

\* Counting leaks only what is on or behind a cycle of leaked objects, and the tracing
\* backend leaves nothing after a program that has ended outside any call.
THEOREM LeaksAreCycles == Spec => []NothingLeaks
  BY VmInvariant, InvariantSays, PTL

\* Everything unreachable that is still alive is visited by the next scan, and no suspect
\* waits longer than the policy's interval.
THEOREM NoSilentGarbage == Spec => []GarbageIsSuspected
  BY VmInvariant, InvariantSays, PTL

\* A handler belongs to a call that is still active, and handlers are ordered by call depth.
THEOREM HandlersFollowCalls == Spec => []HandlersBelongToCalls
  BY VmInvariant, InvariantSays, PTL
=============================================================================
