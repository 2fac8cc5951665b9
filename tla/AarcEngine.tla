----------------------------- MODULE AarcEngine -----------------------------
(***************************************************************************)
(* The reference-count engine (arc/engine.hpp) over the reference table    *)
(* (arc/ref_table_reverse.hpp) and the liveness words of the cell pool     *)
(* (core/cell.hpp).  Every operation is a function of an engine record e   *)
(* and a pool record pl, so that the runtime modules can apply it inside   *)
(* their own actions.                                                      *)
(*                                                                         *)
(*   e.root[c], e.edge[c]   the two counts of a row of the table           *)
(*   e.out[h, k]            number of edge records from handle h to k      *)
(*   e.zero                 zeroStack_ (zeroMark_ is membership in it)     *)
(*   e.marks, e.stack       suspectMark_ and suspectStack_                 *)
(*   e.errors               which of the three error counters moved        *)
(*   pl.live, pl.gen, pl.owner, pl.avail   meta word, owner, free lists    *)
(*                                                                         *)
(* The stacks are sets: the order in which candidates are visited and how  *)
(* often a suspect is listed do not change what a sweep leaves behind.     *)
(***************************************************************************)
EXTENDS Integers, FiniteSets, FiniteSetsExt, Reachability

CONSTANTS
    Cells,     \* slot indexes of the pool
    MaxGen,    \* largest generation; a slot freed at it is retired
    NoOwner    \* kNoOwner

ASSUME EngineAssumption == MaxGen \in Nat /\ IsFiniteSet(Cells)

\* ObjHandle: a slot index and the generation it was allocated under.
Handles == Cells \X (0..MaxGen)
Index(h) == h[1]
Gen(h) == h[2]

\* Every x of S f[x] times, told apart by a number: its cardinality is the sum.
Copies(S, f) == UNION {{x} \X (1..f[x]) : x \in S}

-----------------------------------------------------------------------------
(* The cell pool, as the engine sees it *)

EmptyPool ==
    [live  |-> [c \in Cells |-> FALSE],
     gen   |-> [c \in Cells |-> 0],
     owner |-> [c \in Cells |-> NoOwner],
     avail |-> Cells]

Valid(pl, h) == pl.live[Index(h)] /\ pl.gen[Index(h)] = Gen(h)

\* allocInto + activate: claim a free slot for an owner.
Activate(pl, c, o) ==
    [pl EXCEPT !.live[c] = TRUE, !.owner[c] = o, !.avail = @ \ {c}]

\* CellPool::free: bump the generation, or retire the slot at the last one.
FreeSlots(pl, S) ==
    [pl EXCEPT
        !.live  = [c \in Cells |-> IF c \in S THEN FALSE ELSE @[c]],
        !.gen   = [c \in Cells |-> IF c \in S /\ @[c] < MaxGen THEN @[c] + 1 ELSE @[c]],
        !.avail = @ \cup {c \in S : pl.gen[c] < MaxGen}]

-----------------------------------------------------------------------------
(* The reference table *)

EmptyEngine ==
    [root |-> [c \in Cells |-> 0], edge |-> [c \in Cells |-> 0],
     out |-> [p \in Handles \X Handles |-> 0],
     zero |-> {}, marks |-> {}, stack |-> {}, errors |-> {}]

Total(e, c) == e.root[c] + e.edge[c]

HasOutgoing(e, c) == \E p \in Handles \X Handles : Index(p[1]) = c /\ e.out[p] > 0

Fail(e, err) == [e EXCEPT !.errors = @ \cup {err}]

MarkZero(e, c) == [e EXCEPT !.zero = @ \cup {c}]

MarkSuspect(e, c) ==
    IF c \in e.marks THEN e
    ELSE [e EXCEPT !.marks = @ \cup {c}, !.stack = @ \cup {c}]

MarkLossZeroOnly(e, c) == IF Total(e, c) = 0 THEN MarkZero(e, c) ELSE e

\* A cell that has just lost a reference is a candidate of one kind or the other.
MarkLoss(e, c) ==
    IF Total(e, c) = 0 THEN MarkZero(e, c)
    ELSE IF HasOutgoing(e, c) THEN MarkSuspect(e, c) ELSE e

-----------------------------------------------------------------------------
(* process(): one message of a producer *)

RootAdd(e, pl, m) ==
    IF Valid(pl, m.b) THEN [e EXCEPT !.root[Index(m.b)] = @ + m.count]
    ELSE Fail(e, "stale")

RootRemove(e, pl, m) ==
    LET c == Index(m.b) IN
    IF ~Valid(pl, m.b) THEN Fail(e, "stale")
    ELSE IF e.root[c] < m.count THEN Fail([e EXCEPT !.root[c] = 0], "rootUnderflow")
    ELSE MarkLoss([e EXCEPT !.root[c] = @ - m.count], c)

RootCheck(e, pl, m) ==
    IF Valid(pl, m.b) THEN MarkLoss(e, Index(m.b)) ELSE Fail(e, "stale")

EdgeAdd(e, pl, m) ==
    IF Valid(pl, m.a) /\ Valid(pl, m.b)
    THEN [e EXCEPT !.edge[Index(m.b)] = @ + 1, !.out[<<m.a, m.b>>] = @ + 1]
    ELSE Fail(e, "stale")

EdgeRemove(e, pl, m) ==
    LET c == Index(m.b)
        gone == [e EXCEPT !.out[<<m.a, m.b>>] = @ - 1] IN
    IF ~Valid(pl, m.a) THEN Fail(e, "stale")
    ELSE IF e.out[<<m.a, m.b>>] = 0 THEN Fail(e, "edgeUnderflow")
    ELSE IF ~Valid(pl, m.b) THEN Fail(gone, "stale")
    ELSE IF e.edge[c] = 0 THEN Fail(gone, "edgeUnderflow")
    ELSE MarkLoss([gone EXCEPT !.edge[c] = @ - 1], c)

Process(e, pl, m) ==
    CASE m.op = "RootAdd"    -> RootAdd(e, pl, m)
      [] m.op = "RootRemove" -> RootRemove(e, pl, m)
      [] m.op = "RootCheck"  -> RootCheck(e, pl, m)
      [] m.op = "EdgeAdd"    -> EdgeAdd(e, pl, m)
      [] m.op = "EdgeRemove" -> EdgeRemove(e, pl, m)

-----------------------------------------------------------------------------
(* Reclamation *)

\* Drop rel[c] edges into each c one at a time, marking after each: a cell that
\* still has references after the first loss is a suspect even if it ends at zero.
Release(e, rel) ==
    LET hit == {c \in Cells : rel[c] > 0}
        left(c) == IF e.edge[c] > rel[c] THEN e.edge[c] - rel[c] ELSE 0
        one(c) == IF e.edge[c] > 0 THEN e.edge[c] - 1 ELSE 0
        suspect == {c \in hit : e.root[c] + one(c) > 0 /\ HasOutgoing(e, c)} \ e.marks
    IN [e EXCEPT !.edge = [c \in Cells |-> IF c \in hit THEN left(c) ELSE @[c]],
                 !.zero = @ \cup {c \in hit : e.root[c] + left(c) = 0},
                 !.marks = @ \cup suspect, !.stack = @ \cup suspect]

\* RefTable::resetSlot / clearOuts for every row of S.
ResetRows(e, S) ==
    [e EXCEPT !.root = [c \in Cells |-> IF c \in S THEN 0 ELSE @[c]],
              !.edge = [c \in Cells |-> IF c \in S THEN 0 ELSE @[c]],
              !.out = [p \in Handles \X Handles |-> IF Index(p[1]) \in S THEN 0 ELSE @[p]]]

ClearSuspectsNot(e, S) == e

\* clearSuspect for every cell of S: the mark goes, a stack entry may stay behind.
ClearSuspects(e, S) == [e EXCEPT !.marks = @ \ S]

\* Number of edge records from a cell of S to cell c that satisfy Counts.
EdgesInto(e, S, c, Counts(_, _)) ==
    Cardinality(Copies({q \in Handles \X Handles :
        Index(q[1]) \in S /\ Index(q[2]) = c /\ Counts(q[1], q[2])}, e.out))

ReclaimCellShallow(e, pl, c) == ResetRows(ClearSuspects(e, {c}), {c})

\* reclaimCell: release the outgoing edges, then reset the row.
ReclaimCell(e, pl, c) ==
    LET rel == [t \in Cells |->
                   EdgesInto(e, {c}, t, LAMBDA h, k : pl.live[Index(k)])]
    IN ResetRows(Release(ClearSuspects(e, {c}), rel), {c})

\* sweepZero drops a candidate that is gone or was revived within the drain.
IsZeroGarbage(e, pl, c) == pl.live[c] /\ Total(e, c) = 0

-----------------------------------------------------------------------------
(* Cycle collection *)

\* The edges Tarjan follows: records whose target handle is still valid.
GraphOf(e, pl) ==
    {<<Index(p[1]), Index(p[2])>> :
        p \in {q \in Handles \X Handles : e.out[q] > 0 /\ Valid(pl, q[2])}}

ScanRoots(e, pl) == {c \in e.stack : c \in e.marks /\ pl.live[c] /\ Total(e, c) > 0}

\* findComponents: what a scan visits, and the component of a visited cell.
Visited(e, pl) == ReachIn(Cells, GraphOf(e, pl), ScanRoots(e, pl))

SccOf(e, pl, c) ==
    {d \in ReachIn(Cells, GraphOf(e, pl), {c}) : c \in ReachIn(Cells, GraphOf(e, pl), {d})}

\* ECR = 0: no root, and every counted edge comes from inside the component.
HasNoExternalRefs(e, pl, S) ==
    /\ \A c \in S : e.root[c] = 0
    /\ Cardinality(Copies(S, e.edge)) =
       Cardinality(Copies({q \in Handles \X Handles :
           Index(q[1]) \in S /\ Index(q[2]) \in S /\ Valid(pl, q[2])}, e.out))

GarbageIn(e, pl) ==
    {c \in Visited(e, pl) : HasNoExternalRefs(e, pl, SccOf(e, pl, c))}

\* collectCyclePass after the scan: consume the suspects, then release the edges
\* that leave each garbage component and reset its rows (reclaimCycleComponent).
ReclaimCycles(e, pl, G) ==
    LET seen == [ClearSuspects(e, Visited(e, pl)) EXCEPT !.stack = {}]
        rel == [t \in Cells |->
                   EdgesInto(e, G, t, LAMBDA h, k :
                       Valid(pl, k) /\ Index(k) \notin SccOf(e, pl, Index(h)))]
    IN ClearSuspects(ResetRows(Release(seen, rel), G), G)

Engines ==
    [root : [Cells -> Nat], edge : [Cells -> Nat], out : [Handles \X Handles -> Nat],
     zero : SUBSET Cells, marks : SUBSET Cells, stack : SUBSET Cells,
     errors : SUBSET {"stale", "rootUnderflow", "edgeUnderflow"}]

EngineType(e) == e \in Engines

PoolType(pl, owners) ==
    pl \in [live : [Cells -> BOOLEAN], gen : [Cells -> 0..MaxGen],
            owner : [Cells -> owners \cup {NoOwner}], avail : SUBSET Cells]
=============================================================================
