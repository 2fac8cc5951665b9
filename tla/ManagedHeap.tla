----------------------------- MODULE ManagedHeap ----------------------------
(***************************************************************************)
(* What the collector promises the program: a heap of objects, threads     *)
(* that hold roots and write fields, and a collector that may at any       *)
(* moment remove objects no thread can reach.  It knows nothing of counts, *)
(* messages, rounds or candidates.                                         *)
(***************************************************************************)
EXTENDS Integers, Reachability

CONSTANTS
    Objects,   \* names an object can have
    Threads

VARIABLES
    present,   \* the objects that exist
    roots,     \* roots[t][o]: how many roots thread t holds on o
    fields     \* fields[o, q]: how many fields of o refer to q

vars == <<present, roots, fields>>

Init ==
    /\ present = {}
    /\ roots = [t \in Threads |-> [o \in Objects |-> 0]]
    /\ fields = [q \in Objects \X Objects |-> 0]

HeldByAny == {o \in Objects : \E t \in Threads : roots[t][o] > 0}

References == {q \in Objects \X Objects : fields[q] > 0}

Accessible == ReachIn(Objects, References, HeldByAny)

\* A new object has one root and empty fields.
Allocate(t, o) ==
    /\ o \notin present
    /\ present' = present \cup {o}
    /\ roots' = [roots EXCEPT ![t][o] = @ + 1]
    /\ UNCHANGED fields

Acquire(t, o) ==
    /\ o \in Accessible
    /\ roots' = [roots EXCEPT ![t][o] = @ + 1]
    /\ UNCHANGED <<present, fields>>

Release(t, o) ==
    /\ roots[t][o] > 0
    /\ roots' = [roots EXCEPT ![t][o] = @ - 1]
    /\ UNCHANGED <<present, fields>>

Store(o, q) ==
    /\ o \in Accessible /\ q \in Accessible
    /\ fields' = [fields EXCEPT ![<<o, q>>] = @ + 1]
    /\ UNCHANGED <<present, roots>>

Clear(o, q) ==
    /\ fields[<<o, q>>] > 0
    /\ fields' = [fields EXCEPT ![<<o, q>>] = @ - 1]
    /\ UNCHANGED <<present, roots>>

\* Remove any set of inaccessible objects, and their fields with them.
Collect ==
    /\ \E S \in SUBSET (present \ Accessible) :
        /\ S # {}
        /\ present' = present \ S
        /\ fields' = [q \in Objects \X Objects |-> IF q[1] \in S THEN 0 ELSE fields[q]]
    /\ UNCHANGED roots

Next ==
    \/ \E t \in Threads, o \in Objects : Allocate(t, o) \/ Acquire(t, o) \/ Release(t, o)
    \/ \E o, q \in Objects : Store(o, q) \/ Clear(o, q)
    \/ Collect

Spec == Init /\ [][Next]_vars
-----------------------------------------------------------------------------
TypeOK ==
    /\ present \subseteq Objects
    /\ roots \in [Threads -> [Objects -> Nat]]
    /\ fields \in [Objects \X Objects -> Nat]

\* An object a thread can reach from its roots exists.
AccessibleIsPresent == Accessible \subseteq present
=============================================================================
