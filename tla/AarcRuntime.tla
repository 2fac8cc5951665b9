----------------------------- MODULE AarcRuntime ----------------------------
(***************************************************************************)
(* The asynchronous runtime (arc/runtime.hpp, mode Async): mutator threads *)
(* operate on a shared object graph, every operation stages a message, the *)
(* worker applies published messages to the engine and sweeps only after a *)
(* stable round.                                                           *)
(*                                                                         *)
(* fields and bag are the program's own view, changed when an operation is *)
(* called: the heap fields between objects and the roots a mutator holds   *)
(* (RootBag).  eng is the worker's view, changed when the message is       *)
(* applied.  The snapshot is coarser than in module Publication (both      *)
(* samples of all pubSeq counters are one step each), which the proof      *)
(* there justifies: a round that passes is a consistent cut.               *)
(***************************************************************************)
EXTENDS AarcEngine, Sequences

CONSTANTS
    NProducers,  \* mutators, numbered in slots_ order
    BatchLimit,  \* batchLimit: messages per published batch
    Fold,        \* fold_: fold root operations of a batch
    OwnFields,   \* TRUE: only the thread that allocated a cell writes its fields
    MaxOps,      \* bound: operations called in one behaviour
    MaxFields    \* bound: fields of one object that hold the same target

ASSUME RuntimeAssumption ==
    /\ NProducers \in Nat \ {0} /\ BatchLimit \in Nat \ {0}
    /\ Fold \in BOOLEAN /\ OwnFields \in BOOLEAN
    /\ MaxOps \in Nat /\ MaxFields \in Nat

Producers == 1..NProducers

VARIABLES
    eng, pool,
    bag,      \* roots_ of each mutator: handle -> number of roots held
    fields,   \* heap fields: (source, target) -> how many
    batch,    \* staged messages; non-empty is an open publication window
    queue,    \* published, not yet drained
    phase,    \* of each mutator: "run", or "flush" while it publishes a batch
    closed,   \* closed_ of each mutator
    ops,      \* operations called so far
    wpc, wi,  \* worker: step of the round, slot index
    left,     \* messages of each slot up to the round's tail snapshot
    hot,      \* producers whose pubSeq was odd or moved since the first sample
    stable

mutVars == <<bag, fields, batch, queue, phase, closed, ops>>
roundVars == <<wi, left, hot, stable>>
vars == <<eng, pool, mutVars, wpc, roundVars>>

\* No message is staged, queued or being applied and no operation has run.
NothingInFlight ==
    /\ fields = [p \in Handles \X Handles |-> 0]
    /\ batch = [p \in Producers |-> <<>>] /\ queue = [p \in Producers |-> <<>>]
    /\ phase = [p \in Producers |-> "run"] /\ closed = [p \in Producers |-> FALSE]
    /\ ops = 0
    /\ wpc = "idle" /\ wi = 1
    /\ left = [p \in Producers |-> 0] /\ hot = {} /\ stable = FALSE

Init ==
    /\ eng = EmptyEngine /\ pool = EmptyPool
    /\ bag = [p \in Producers |-> [h \in Handles |-> 0]]
    /\ NothingInFlight

-----------------------------------------------------------------------------
(* The program's view *)

Held(p) == {h \in Handles : bag[p][h] > 0}

Edges == {q \in Handles \X Handles : fields[q] > 0}

\* What some thread can still get at: from any mutator's roots along the fields.
Reachable == ReachIn(Handles, Edges, UNION {Held(p) : p \in Producers})

-----------------------------------------------------------------------------
(* Staging and publishing *)

Msg(op, a, b) == [op |-> op, a |-> a, b |-> b, count |-> 1]

IsRootOp(m) == m.op \in {"RootAdd", "RootRemove"}

NetRootOpUnit(m, d) ==
    IF d > 0 THEN [m EXCEPT !.op = "RootAdd"]
    ELSE IF d < 0 THEN [m EXCEPT !.op = "RootRemove"]
    ELSE [m EXCEPT !.op = "RootCheck"]

\* foldBatch: the one message that stands for a handle's root operations with net
\* effect d; a balanced pair becomes a RootCheck.
NetRootOp(m, d) ==
    IF d > 0 THEN [m EXCEPT !.op = "RootAdd", !.count = d]
    ELSE IF d < 0 THEN [m EXCEPT !.op = "RootRemove", !.count = -d]
    ELSE [m EXCEPT !.op = "RootCheck", !.count = 0]

\* The k-th smallest member of a set of indexes.
Nth(S, k) == CHOOSE i \in S : Cardinality({j \in S : j <= i}) = k

\* The root operations of a batch on a handle, and their net effect.
RootOpsOn(s, h) == {i \in 1..Len(s) : IsRootOp(s[i]) /\ s[i].b = h}
NetRoots(s, h) ==
    2 * Cardinality({i \in RootOpsOn(s, h) : s[i].op = "RootAdd"}) - Cardinality(RootOpsOn(s, h))

\* foldBatch: all root operations on a handle collapse into one message at the
\* place of the first; edge operations stay where they are.
Kept(s) == {i \in 1..Len(s) : IsRootOp(s[i]) => \A j \in RootOpsOn(s, s[i].b) : i <= j}
Folded(s) ==
    [k \in 1..Cardinality(Kept(s)) |->
        LET m == s[Nth(Kept(s), k)] IN IF IsRootOp(m) THEN NetRootOp(m, NetRoots(s, m.b)) ELSE m]

\* What flushSlot pushes for a staged batch.
Outgoing(s) == IF Fold THEN Folded(s) ELSE s

BatchFullLate(s) == Len(s) > BatchLimit

BatchFull(s) == Len(s) >= BatchLimit

\* submit / publish: stage the message; a full batch must be flushed before the
\* mutator goes on.  Opening a window during the snapshot makes the round unstable.
Submit(p, m) ==
    LET s == Append(batch[p], m) IN
    /\ batch' = [batch EXCEPT ![p] = IF BatchFull(s) THEN Outgoing(s) ELSE s]
    /\ phase' = [phase EXCEPT ![p] = IF BatchFull(s) THEN "flush" ELSE "run"]
    /\ hot' = IF wpc = "tails" THEN hot \cup {p} ELSE hot
    /\ UNCHANGED <<queue, wpc, wi, left, stable, eng>>

\* The calling thread is not inside another operation and has not closed.
CanOperate(p) == phase[p] = "run" /\ ~closed[p] /\ ops < MaxOps

Count == ops' = ops + 1 /\ UNCHANGED closed

Gain(p, h) == bag' = [bag EXCEPT ![p][h] = @ + 1]
Lose(p, h) == bag' = [bag EXCEPT ![p][h] = @ - 1]

\* Mutator::alloc; nothing happens when the pool is exhausted.
Alloc(p) ==
    /\ CanOperate(p)
    /\ \E c \in pool.avail :
        LET h == <<c, pool.gen[c]>> IN
        /\ pool' = Activate(pool, c, p)
        /\ Submit(p, Msg("RootAdd", h, h))
        /\ Gain(p, h)
    /\ Count /\ UNCHANGED fields

\* Mutator::rootAdd on an object some thread can reach.
AddRoot(p, h) ==
    /\ CanOperate(p) /\ h \in Reachable /\ Valid(pool, h)
    /\ Submit(p, Msg("RootAdd", h, h))
    /\ Gain(p, h) /\ Count
    /\ UNCHANGED <<pool, fields>>

\* Mutator::rootRemove: only a root this mutator's bag holds.
RemoveRoot(p, h) ==
    /\ CanOperate(p) /\ Valid(pool, h) /\ bag[p][h] > 0
    /\ Lose(p, h)
    /\ Submit(p, Msg("RootRemove", h, h))
    /\ Count /\ UNCHANGED <<pool, fields>>

\* A thread writes fields of an object it holds a root on.
MayWrite(p, a) == a \in Held(p) /\ (OwnFields => pool.owner[Index(a)] = p)

\* Mutator::edgeAdd: store a reference to b in a field of a.
AddEdge(p, a, b) ==
    /\ CanOperate(p) /\ Valid(pool, a) /\ Valid(pool, b)
    /\ MayWrite(p, a) /\ b \in Reachable /\ fields[<<a, b>>] < MaxFields
    /\ fields' = [fields EXCEPT ![<<a, b>>] = @ + 1]
    /\ Submit(p, Msg("EdgeAdd", a, b))
    /\ Count /\ UNCHANGED <<pool, bag>>

\* Mutator::edgeRemove: clear a field of a that holds b.
RemoveEdge(p, a, b) ==
    /\ CanOperate(p) /\ Valid(pool, a) /\ Valid(pool, b)
    /\ MayWrite(p, a) /\ fields[<<a, b>>] > 0
    /\ fields' = [fields EXCEPT ![<<a, b>>] = @ - 1]
    /\ Submit(p, Msg("EdgeRemove", a, b))
    /\ Count /\ UNCHANGED <<pool, bag>>

\* flush / willPark / awaitQuiesce / close with a non-empty batch.
Flush(p) ==
    /\ phase[p] = "run" /\ batch[p] # <<>>
    /\ batch' = [batch EXCEPT ![p] = Outgoing(batch[p])]
    /\ phase' = [phase EXCEPT ![p] = "flush"]
    /\ UNCHANGED <<eng, pool, bag, fields, queue, closed, ops, wpc, roundVars>>

\* flushSlot: the batch enters the ring in order; the window closes with the last.
Push(p) ==
    /\ phase[p] = "flush"
    /\ queue' = [queue EXCEPT ![p] = Append(@, Head(batch[p]))]
    /\ batch' = [batch EXCEPT ![p] = Tail(@)]
    /\ phase' = [phase EXCEPT ![p] = IF Len(batch[p]) = 1 THEN "run" ELSE "flush"]
    /\ UNCHANGED <<eng, pool, bag, fields, closed, ops, wpc, roundVars>>

\* Mutator::close after its flush: no further operation is accepted ...
Close(p) ==
    /\ CanOperate(p) /\ batch[p] = <<>>
    /\ closed' = [closed EXCEPT ![p] = TRUE] /\ ops' = ops + 1
    /\ UNCHANGED <<eng, pool, bag, fields, batch, queue, phase, wpc, roundVars>>

\* ... and every root the bag still holds is given back.
CloseRoot(p, h) ==
    /\ closed[p] /\ phase[p] = "run" /\ bag[p][h] > 0
    /\ Lose(p, h)
    /\ Submit(p, Msg("RootRemove", h, h))
    /\ UNCHANGED <<pool, fields, closed, ops>>

-----------------------------------------------------------------------------
(* The worker's round *)

\* A round that finds nothing to apply and nothing to reclaim changes nothing.
HasWork ==
    \/ \E p \in Producers : queue[p] # <<>>
    \/ eng.zero # {} \/ eng.stack # {}

\* Sample every pubSeq ...
BeginRound ==
    /\ wpc = "idle" /\ HasWork /\ wpc' = "tails" /\ wi' = 1
    /\ hot' = {p \in Producers : batch[p] # <<>>}
    /\ UNCHANGED <<eng, pool, mutVars, left, stable>>

StableCutIgnored == TRUE

\* Every counter even and unchanged around the snapshot.
StableCut == hot = {}

\* ... then the tails in slot order; the second sample follows the last of them.
ReadTail ==
    /\ wpc = "tails"
    /\ left' = [left EXCEPT ![wi] = Len(queue[wi])]
    /\ IF wi < NProducers
       THEN wi' = wi + 1 /\ UNCHANGED <<wpc, hot, stable>>
       ELSE wi' = 1 /\ wpc' = "drain" /\ hot' = {} /\ stable' = StableCut
    /\ UNCHANGED <<eng, pool, mutVars>>

\* The slots this round still has to drain, in slot order.
ToDrain == {p \in Producers : left[p] > 0}

\* Apply one message.
Drain ==
    /\ wpc = "drain"
    /\ \E p \in ToDrain :
        /\ \A r \in ToDrain : p <= r
        /\ eng' = Process(eng, pool, Head(queue[p]))
        /\ queue' = [queue EXCEPT ![p] = Tail(@)]
        /\ left' = [left EXCEPT ![p] = @ - 1]
    /\ UNCHANGED <<pool, bag, fields, batch, phase, closed, ops, wpc, wi, hot, stable>>

\* An unstable round ends here: messages were applied, nothing may be reclaimed.
EndDrain ==
    /\ wpc = "drain" /\ ToDrain = {}
    /\ wpc' = IF stable THEN "zero" ELSE "idle"
    /\ stable' = FALSE
    /\ UNCHANGED <<eng, pool, mutVars, wi, left, hot>>

-----------------------------------------------------------------------------
(* sweep(): zero candidates, then cyclic candidates, to a fixed point *)

\* A reclaimed object's fields are gone with it.
DropFields(S) ==
    fields' = [q \in Handles \X Handles |->
                  IF Index(q[1]) \in S /\ Valid(pool, q[1]) THEN 0 ELSE fields[q]]

SweepZero ==
    /\ wpc = "zero" /\ eng.zero # {}
    /\ \E c \in eng.zero :
        LET popped == [eng EXCEPT !.zero = @ \ {c}] IN
        IF IsZeroGarbage(popped, pool, c)
        THEN /\ eng' = ReclaimCell(popped, pool, c)
             /\ pool' = FreeSlots(pool, {c}) /\ DropFields({c})
        ELSE eng' = popped /\ UNCHANGED <<pool, fields>>
    /\ UNCHANGED <<bag, batch, queue, phase, closed, ops, wpc, roundVars>>

SweepZeroDone ==
    /\ wpc = "zero" /\ eng.zero = {}
    /\ wpc' = IF eng.stack = {} THEN "idle" ELSE "cycle"
    /\ UNCHANGED <<eng, pool, mutVars, roundVars>>

\* One collectCyclePass; collectCycles repeats it while it reclaims something.
CyclePass ==
    /\ wpc = "cycle"
    /\ LET G == GarbageIn(eng, pool) IN
        /\ eng' = ReclaimCycles(eng, pool, G)
        /\ pool' = FreeSlots(pool, G) /\ DropFields(G)
        /\ wpc' = IF G = {} THEN "zero" ELSE "cycle"
    /\ UNCHANGED <<bag, batch, queue, phase, closed, ops, roundVars>>

WorkerStep ==
    \/ BeginRound \/ ReadTail \/ Drain \/ EndDrain
    \/ SweepZero \/ SweepZeroDone \/ CyclePass

MutatorStep(p) ==
    \/ Alloc(p) \/ Flush(p) \/ Push(p) \/ Close(p)
    \/ \E h \in Handles : AddRoot(p, h) \/ RemoveRoot(p, h) \/ CloseRoot(p, h)
    \/ \E a, b \in Handles : AddEdge(p, a, b) \/ RemoveEdge(p, a, b)

Next == WorkerStep \/ \E p \in Producers : MutatorStep(p)

Spec == Init /\ [][Next]_vars

\* A mutator that stops operating publishes its batch (flush before park), a batch
\* being published or a close in progress runs on, and the worker is scheduled.
Fairness ==
    /\ WF_vars(WorkerStep)
    /\ \A p \in Producers : WF_vars(Flush(p) \/ Push(p))

FairSpec == Spec /\ Fairness

-----------------------------------------------------------------------------
(* Properties *)

\* Type correctness of the runtime and of the engine's tables.
TypeOK ==
    /\ EngineType(eng) /\ PoolType(pool, Producers)
    /\ bag \in [Producers -> [Handles -> Nat]]
    /\ fields \in [Handles \X Handles -> 0..MaxFields]
    /\ \A p \in Producers : Len(batch[p]) <= BatchLimit
    /\ phase \in [Producers -> {"run", "flush"}]
    /\ wpc \in {"idle", "tails", "drain", "zero", "cycle"}

\* No object that some mutator can still reach is ever reclaimed, whatever is
\* staged, queued or half drained (workers reclaim only at a stable cut).
ReachableIsLive == \A h \in Reachable : Valid(pool, h)

\* Nothing is published, nothing is waiting to be applied or looked at again:
\* without a further operation no sweep will change anything.
Quiet ==
    /\ wpc = "idle" /\ eng.zero = {} /\ eng.stack = {}
    /\ \A p \in Producers : batch[p] = <<>> /\ queue[p] = <<>>

\* When the runtime is quiet every live object is reachable: cyclic garbage, garbage
\* behind garbage, and objects dropped by another thread are all collected.
NoGarbageLeft ==
    Quiet => \A c \in Cells : pool.live[c] => <<c, pool.gen[c]>> \in Reachable

\* Every root held on an object in cell c and every field that refers to one.
RootsOn(c) ==
    Copies({t \in Producers \X Handles : Index(t[2]) = c},
           [t \in Producers \X Handles |-> bag[t[1]][t[2]]])
FieldsOn(c) == Copies({q \in Handles \X Handles : Index(q[2]) = c}, fields)

\* When the runtime is quiet the engine's table agrees with the program's fields
\* and roots, and no message was ever dropped or refused.
TableIsExact ==
    /\ eng.errors = {}
    /\ Quiet => /\ eng.out = fields
                /\ \A c \in Cells : eng.root[c] = Cardinality(RootsOn(c))
                /\ \A c \in Cells : eng.edge[c] = Cardinality(FieldsOn(c))

\* A marked suspect is always queued for a scan, or is about to be reclaimed as a
\* zero cell: a mark without a stack entry would block re-marking for good.
SuspectIsQueued == eng.marks \subseteq eng.stack \cup eng.zero

\* An object nobody can reach any more is eventually reclaimed.
GarbageIsReclaimed ==
    \A h \in Handles : (Valid(pool, h) /\ h \notin Reachable) ~> ~Valid(pool, h)

Heap == INSTANCE ManagedHeap WITH
    Objects <- Handles, Threads <- Producers,
    present <- {h \in Handles : Valid(pool, h)}, roots <- bag, fields <- fields

\* The runtime implements the abstract heap: every step of mutators and worker is
\* a program operation, a collection of inaccessible objects, or invisible.
ImplementsHeap == Heap!Spec
=============================================================================
