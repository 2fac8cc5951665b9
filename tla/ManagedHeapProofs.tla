-------------------------- MODULE ManagedHeapProofs --------------------------
(* The abstract heap keeps its promise for any objects and threads.        *)
EXTENDS ManagedHeap, TLAPS

\* The start nodes are reachable, and reachability is closed under the edges.
LEMMA ReachClosed ==
  ASSUME NEW N, NEW R, NEW S, S \subseteq N
  PROVE  /\ S \subseteq ReachIn(N, R, S)
         /\ ReachIn(N, R, S) \subseteq N
         /\ ClosedIn(N, R, ReachIn(N, R, S))
  BY DEF ReachIn, ClosedIn

\* Reachability is the least closed set around the start nodes.
LEMMA ReachLeast ==
  ASSUME NEW N, NEW R, NEW S, NEW X, X \subseteq N, S \subseteq X, ClosedIn(N, R, X)
  PROVE  ReachIn(N, R, S) \subseteq X
  BY DEF ReachIn

\* Fewer start nodes and fewer edges reach no more.
LEMMA ReachMonotone ==
  ASSUME NEW N, NEW R, NEW S, NEW R2, NEW S2, S \subseteq N,
         S2 \subseteq ReachIn(N, R, S),
         \A x \in ReachIn(N, R, S) : \A y \in N : <<x, y>> \in R2 => y \in ReachIn(N, R, S)
  PROVE  ReachIn(N, R2, S2) \subseteq ReachIn(N, R, S)
  <1>1. ClosedIn(N, R2, ReachIn(N, R, S))
    BY DEF ClosedIn
  <1>2. ReachIn(N, R, S) \subseteq N
    BY ReachClosed
  <1> QED
    BY <1>1, <1>2, ReachLeast

\* An object that does not exist has no fields.
AbsentIsEmpty == \A q \in Objects \X Objects : q[1] \notin present => fields[q] = 0

HeapInv == TypeOK /\ AbsentIsEmpty /\ AccessibleIsPresent

\* The empty heap satisfies the inductive invariant.
LEMMA HeapInit == Init => HeapInv
  <1> SUFFICES ASSUME Init PROVE HeapInv
    OBVIOUS
  <1>1. TypeOK /\ AbsentIsEmpty
    BY DEF Init, TypeOK, AbsentIsEmpty
  <1>2. Accessible \subseteq {}
    <2>1. HeldByAny \subseteq {}
      BY DEF Init, HeldByAny
    <2>2. ClosedIn(Objects, References, {})
      BY DEF ClosedIn
    <2> QED
      BY <2>1, <2>2, ReachLeast DEF Accessible
  <1> QED
    BY <1>1, <1>2 DEF HeapInv, AccessibleIsPresent

\* Every program operation and every collection preserves the inductive invariant:
\* an operation starts from accessible objects, a collection takes inaccessible ones.
LEMMA HeapStep == HeapInv /\ [Next]_vars => HeapInv'
  <1> SUFFICES ASSUME HeapInv, [Next]_vars PROVE HeapInv'
    OBVIOUS
  <1> USE DEF HeapInv
  <1>0. /\ HeldByAny \subseteq Accessible /\ Accessible \subseteq Objects
        /\ \A x \in Accessible : \A y \in Objects : <<x, y>> \in References => y \in Accessible
    <2>1. HeldByAny \subseteq Objects
      BY DEF HeldByAny
    <2> QED
      BY <2>1, ReachClosed DEF Accessible, ClosedIn
  \* Whatever a step does, it suffices that the old accessible set bounds the new.
  <1>a. ASSUME HeldByAny' \subseteq Accessible,
               \A x \in Accessible : \A y \in Objects : <<x, y>> \in References' => y \in Accessible
        PROVE  Accessible' \subseteq Accessible
    <2>1. HeldByAny \subseteq Objects
      BY DEF HeldByAny
    <2> QED
      BY <1>a, <2>1, ReachMonotone DEF Accessible
  <1>1. ASSUME NEW t \in Threads, NEW o \in Objects, Allocate(t, o) PROVE HeapInv'
    <2>1. TypeOK' /\ AbsentIsEmpty'
      BY <1>1 DEF Allocate, TypeOK, AbsentIsEmpty
    <2>2. HeldByAny' \subseteq Accessible \cup {o}
      BY <1>1, <1>0 DEF Allocate, HeldByAny, TypeOK
    <2>3. References' = References
      BY <1>1 DEF Allocate, References
    <2>4. ClosedIn(Objects, References, Accessible \cup {o})
      <3>1. \A y \in Objects : <<o, y>> \notin References
        BY <1>1 DEF Allocate, AbsentIsEmpty, References, TypeOK
      <3> QED
        BY <3>1, <1>0 DEF ClosedIn
    <2>5. Accessible' \subseteq Accessible \cup {o}
      <3>1. Accessible \cup {o} \subseteq Objects
        BY <1>0
      <3>2. Accessible' = ReachIn(Objects, References, HeldByAny')
        BY <2>3 DEF Accessible
      <3> QED
        BY <3>1, <3>2, <2>2, <2>4, ReachLeast
    <2> QED
      BY <2>1, <2>5, <1>1 DEF Allocate, AccessibleIsPresent
  <1>2. ASSUME NEW t \in Threads, NEW o \in Objects, Acquire(t, o) PROVE HeapInv'
    <2>1. TypeOK' /\ AbsentIsEmpty' /\ References' = References
      BY <1>2 DEF Acquire, TypeOK, AbsentIsEmpty, References
    <2>2. HeldByAny' \subseteq Accessible
      BY <1>2, <1>0 DEF Acquire, HeldByAny, TypeOK
    <2> QED
      BY <2>1, <2>2, <1>0, <1>a, <1>2 DEF Acquire, AccessibleIsPresent
  <1>3. ASSUME NEW t \in Threads, NEW o \in Objects, Release(t, o) PROVE HeapInv'
    <2>1. TypeOK' /\ AbsentIsEmpty' /\ References' = References
      BY <1>3 DEF Release, TypeOK, AbsentIsEmpty, References
    <2>2. HeldByAny' \subseteq Accessible
      BY <1>3, <1>0 DEF Release, HeldByAny, TypeOK
    <2> QED
      BY <2>1, <2>2, <1>0, <1>a, <1>3 DEF Release, AccessibleIsPresent
  <1>4. ASSUME NEW o \in Objects, NEW q \in Objects, Store(o, q) PROVE HeapInv'
    <2>1. TypeOK' /\ HeldByAny' = HeldByAny
      BY <1>4 DEF Store, TypeOK, HeldByAny
    <2>2. AbsentIsEmpty'
      BY <1>4 DEF Store, AbsentIsEmpty, AccessibleIsPresent, TypeOK
    <2>3. \A r \in Objects \X Objects : r \in References' => r \in References \/ r = <<o, q>>
      BY <1>4 DEF Store, References, TypeOK
    <2> QED
      BY <2>1, <2>2, <2>3, <1>0, <1>a, <1>4 DEF Store, AccessibleIsPresent
  <1>5. ASSUME NEW o \in Objects, NEW q \in Objects, Clear(o, q) PROVE HeapInv'
    <2>1. TypeOK' /\ AbsentIsEmpty' /\ HeldByAny' = HeldByAny
      BY <1>5 DEF Clear, TypeOK, AbsentIsEmpty, HeldByAny
    <2>2. \A r \in Objects \X Objects : r \in References' => r \in References
      BY <1>5 DEF Clear, References, TypeOK
    <2> QED
      BY <2>1, <2>2, <1>0, <1>a, <1>5 DEF Clear, AccessibleIsPresent
  <1>6. CASE Collect
    <2>1. PICK S \in SUBSET (present \ Accessible) :
            /\ present' = present \ S
            /\ fields' = [r \in Objects \X Objects |-> IF r[1] \in S THEN 0 ELSE fields[r]]
      BY <1>6 DEF Collect
    <2>2. TypeOK' /\ AbsentIsEmpty' /\ HeldByAny' = HeldByAny
      BY <2>1, <1>6 DEF Collect, TypeOK, AbsentIsEmpty, HeldByAny
    <2>3. \A r \in Objects \X Objects : r \in References' => r \in References
      BY <2>1 DEF References, TypeOK
    <2>4. Accessible' \subseteq Accessible
      BY <2>2, <2>3, <1>0, <1>a
    <2> QED
      BY <2>1, <2>2, <2>4 DEF AccessibleIsPresent
  <1>7. CASE UNCHANGED vars
    <2>1. HeldByAny' = HeldByAny /\ References' = References /\ present' = present
      BY <1>7 DEF vars, HeldByAny, References
    <2>2. TypeOK' /\ AbsentIsEmpty'
      BY <1>7 DEF vars, TypeOK, AbsentIsEmpty
    <2> QED
      BY <2>1, <2>2, <1>0, <1>a DEF AccessibleIsPresent
  <1> QED
    BY <1>1, <1>2, <1>3, <1>4, <1>5, <1>6, <1>7 DEF Next

\* In every heap that follows the rules, whatever the number of objects and
\* threads, an object some thread can reach exists: this is what the runtime
\* inherits by implementing the abstract heap.
THEOREM HeapIsSafe == Spec => []AccessibleIsPresent
  <1>1. HeapInv => AccessibleIsPresent
    BY DEF HeapInv
  <1> QED
    BY <1>1, HeapInit, HeapStep, PTL DEF Spec
=============================================================================
