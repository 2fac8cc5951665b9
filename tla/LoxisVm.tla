------------------------------- MODULE LoxisVm -------------------------------
(***************************************************************************)
(* The virtual machine's root discipline (vm/VM.cpp) over the two          *)
(* collecting backends (vm/GC.cpp): ArcBackend counts references and frees *)
(* at zero, LocalAarcBackend runs the engine of module AarcEngine on the   *)
(* mutator's own thread, sweeping zero cells after every barrier and       *)
(* scanning for cycles when its policy says so.                            *)
(*                                                                         *)
(* One step is one instruction.  An instruction is a sequence of barriers, *)
(* each of which may free objects, so the machine is one record and every  *)
(* routine of the VM a function of it, composed in the order of the code.  *)
(* Which instruction comes next is up to the program: any may follow any.  *)
(*                                                                         *)
(* A value is the slot of a heap object, or 0 for everything that is not a *)
(* heap reference (integers, strings, null).  Registers hold bare slot     *)
(* indexes and the backend always asks for the slot's current generation   *)
(* (current()), so generations stay at 0 here.                             *)
(***************************************************************************)
EXTENDS AarcEngine, Sequences

CONSTANTS
    Collectors,      \* collectors the VM may be started with (GCMode, m_adaptive)
    NArgs,           \* registers r1 ... cleared when a call returns
    NLocals,         \* local registers
    NGlobals,        \* global slots
    Fields,          \* cells of an object
    FixedInterval, MaxInterval,               \* CyclePolicy, in barriers
    ThresholdMin, ThresholdInit, ThresholdMax, YieldMin,
    HeapTarget, AllocThreshold,               \* CyclePolicy, in objects
    MaxFrames, MaxHandlers, MaxData           \* bounds: depth of the three stacks

ASSUME VmAssumption ==
    /\ Collectors \subseteq {"arc", "local", "adaptive"}
    /\ Cells \subseteq Nat \ {0} /\ MaxGen = 0
    /\ NArgs \in Nat /\ NLocals \in Nat /\ NGlobals \in Nat /\ IsFiniteSet(Fields)
    /\ FixedInterval \in Nat \ {0} /\ MaxInterval \in Nat \ {0}
    /\ ThresholdMin \in Nat \ {0} /\ ThresholdMax \in Nat /\ ThresholdInit \in ThresholdMin..ThresholdMax
    /\ HeapTarget \in Nat /\ AllocThreshold \in Nat /\ YieldMin \in Nat
    /\ MaxFrames \in Nat /\ MaxHandlers \in Nat /\ MaxData \in Nat

VARIABLE vm

\* r0 is the result register; r1..r10 and r240..r255 are one class here (cleared on
\* return), r16 and up the locals; they are numbered without gaps.
FirstLocal == NArgs + 1
LastLocal == NArgs + NLocals
Regs == 0..LastLocal
Globals == 1..NGlobals

Blank == [f \in Fields |-> 0]

InitVm(gc) ==
    [gc |-> gc, regs |-> [r \in Regs |-> 0], globals |-> [g \in Globals |-> 0],
     data |-> <<>>, frames |-> <<>>, handlers |-> <<>>,
     live |-> [c \in Cells |-> FALSE], cells |-> [c \in Cells |-> Blank], peak |-> 0,
     rc |-> [c \in Cells |-> 0], eng |-> EmptyEngine, errors |-> FALSE,
     since |-> 0, alloced |-> 0, threshold |-> ThresholdInit, status |-> "run"]

Init == \E gc \in Collectors : vm = InitVm(gc)

Arc(s) == s.gc = "arc"
Adaptive(s) == s.gc = "adaptive"

Capped(n, bound) == IF n < bound THEN n ELSE bound

\* Counters only the adaptive policy reads are followed only for it.
Tracked(s, bound) == IF Adaptive(s) THEN bound ELSE 0

\* for (n = lo; n <= hi; ++n) s = Step(s, n)
For(Step(_, _), s, lo, hi) ==
    LET f[n \in (lo - 1)..hi] == IF n < lo THEN s ELSE Step(f[n - 1], n)
    IN IF hi < lo THEN s ELSE f[hi]

\* Rounds that the loops of a collector need at most: a round that goes on frees
\* an object, and an object that is freed leaves at most Cells candidates (SweepEnds and
\* CollectEnds in LoxisVmProofs).
MaxPasses == Cardinality(Cells) + 1
MaxPops == MaxPasses * MaxPasses

-----------------------------------------------------------------------------
(* Heap *)

FreeHandles(s) == {c \in Cells : ~s.live[c]}
LiveCount(s) == Cardinality({c \in Cells : s.live[c]})

\* Heap::alloc and onAlloc.  freeHandles_ is a stack; nothing modelled depends on
\* which free slot is taken.  The arena grows only when no payload is free.
AllocObject(s) ==
    LET c == Min(FreeHandles(s)) IN
    [s EXCEPT !.live[c] = TRUE, !.rc[c] = 0,
              !.peak = IF @ > LiveCount(s) THEN @ ELSE Capped(LiveCount(s) + 1, Tracked(s, HeapTarget)),
              !.alloced = Capped(@ + 1, Tracked(s, AllocThreshold))]

\* Heap::freePayload
FreePayload(s, S) ==
    [s EXCEPT !.live = [c \in Cells |-> @[c] /\ c \notin S],
              !.cells = [c \in Cells |-> IF c \in S THEN Blank ELSE @[c]]]

\* Number of cells of the objects in S that refer to c.
RefsFrom(s, S, c) == Cardinality({x \in S \X Fields : s.cells[x[1]][x[2]] = c})

-----------------------------------------------------------------------------
(* ArcBackend *)

ReclaimSetShallow(s, c) == {c}

\* Nothing outside X has all its references in cells of objects of X.
Drained(s, X) == \A d \in Cells \ X : s.rc[d] = 0 \/ RefsFrom(s, X, d) < s.rc[d]

\* reclaim(): the worklist takes every object whose last references were cells of
\* objects already on it.
ReclaimSet(s, c) ==
    {d \in Cells : \A X \in SUBSET Cells : c \in X /\ Drained(s, X) => d \in X}

\* The objects of X give up their references and their cells.
ArcFree(s, X) ==
    FreePayload([s EXCEPT !.rc = [d \in Cells |-> Max({0, s.rc[d] - RefsFrom(s, X, d)})]], X)

ArcReclaim(s, c) == ArcFree(s, ReclaimSet(s, c))

Retain(s, c) == [s EXCEPT !.rc[c] = @ + 1]

Drop(s, c) ==
    CASE s.rc[c] = 0 -> [s EXCEPT !.errors = TRUE]
      [] s.rc[c] = 1 -> ArcReclaim([s EXCEPT !.rc[c] = 0], c)
      [] OTHER -> [s EXCEPT !.rc[c] = @ - 1]

-----------------------------------------------------------------------------
(* LocalAarcBackend *)

\* AarcCellSource: what the engine sees of the heap.
Source(s) == [live |-> s.live, gen |-> [c \in Cells |-> 0]]

PopZero(s) ==
    LET c == Min(s.eng.zero)
        popped == [s.eng EXCEPT !.zero = @ \ {c}] IN
    IF IsZeroGarbage(popped, Source(s), c)
    THEN FreePayload([s EXCEPT !.eng = ReclaimCell(popped, Source(s), c)], {c})
    ELSE [s EXCEPT !.eng = popped]

SweepNext(s) == IF s.eng.zero = {} THEN s ELSE PopZero(s)

\* while a candidate is left.
SweepZero(s) == For(LAMBDA u, n : SweepNext(u), s, 1, MaxPops)

FreeCycles(s, G) == FreePayload([s EXCEPT !.eng = ReclaimCycles(s.eng, Source(s), G)], G)

\* collectCyclePass, with the number of cells visited so far.
ScanNext(u) ==
    IF u.s.eng.stack = {} THEN u
    ELSE [s |-> FreeCycles(u.s, GarbageIn(u.s.eng, Source(u.s))),
          visited |-> u.visited + Cardinality(Visited(u.s.eng, Source(u.s)))]

\* while suspects are left.
CollectCycles(s) == For(LAMBDA u, n : ScanNext(u), [s |-> s, visited |-> 0], 1, MaxPasses)

NextThresholdUncapped(s, visited, reclaimed) ==
    IF reclaimed = 0 THEN 2 * s.threshold ELSE s.threshold \div 2

\* The yield feedback of collectCyclesNow.
NextThreshold(s, visited, reclaimed) ==
    LET t == s.threshold IN
    IF ~Adaptive(s) \/ visited < YieldMin THEN t
    ELSE IF reclaimed = 0 THEN Capped(2 * t, ThresholdMax)
    ELSE IF 4 * reclaimed < visited THEN t
    ELSE IF t \div 2 < ThresholdMin THEN ThresholdMin ELSE t \div 2

\* After the scan: sweep what it left at zero, then the feedback and the counters.
AfterScan(s, scan) ==
    [SweepZero(scan.s) EXCEPT
        !.threshold = NextThreshold(s, scan.visited, LiveCount(s) - LiveCount(scan.s)),
        !.since = 0, !.alloced = 0]

CollectCyclesNow(s) == AfterScan(s, CollectCycles(s))

Interval(s) == IF Adaptive(s) THEN MaxInterval ELSE FixedInterval

CycleTriggerNoStarvation(s) ==
    s.eng.marks # {} /\ Adaptive(s) /\ Cardinality(s.eng.marks) >= s.threshold

\* cycleTrigger() # None
CycleTrigger(s) ==
    /\ s.eng.marks # {}
    /\ \/ s.since >= Interval(s)
       \/ Adaptive(s) /\ Cardinality(s.eng.marks) >= s.threshold
       \/ Adaptive(s) /\ s.peak >= HeapTarget /\ s.alloced >= AllocThreshold

CollectIfDue(s) == IF CycleTrigger(s) THEN CollectCyclesNow(s) ELSE s

AfterOp(s) == CollectIfDue(SweepZero([s EXCEPT !.since = Capped(@ + 1, Interval(s))]))

Apply(s, op, a, b) ==
    LET m == [op |-> op, a |-> <<a, 0>>, b |-> <<b, 0>>, count |-> 1]
    IN AfterOp([s EXCEPT !.eng = Process(s.eng, Source(s), m)])

-----------------------------------------------------------------------------
(* The barriers, on a value that may not be a reference *)

GcRootAdd(s, v) ==
    IF v = 0 THEN s ELSE IF Arc(s) THEN Retain(s, v) ELSE Apply(s, "RootAdd", v, v)

GcRootRemove(s, v) ==
    IF v = 0 THEN s ELSE IF Arc(s) THEN Drop(s, v) ELSE Apply(s, "RootRemove", v, v)

GcEdgeAdd(s, o, v) ==
    IF v = 0 THEN s ELSE IF Arc(s) THEN Retain(s, v) ELSE Apply(s, "EdgeAdd", o, v)

GcEdgeRemove(s, o, v) ==
    IF v = 0 THEN s ELSE IF Arc(s) THEN Drop(s, v) ELSE Apply(s, "EdgeRemove", o, v)

\* sweep(): zero cells and cycles to a fixed point.
SweepRound(s) ==
    IF s.eng.zero \cup s.eng.stack = {} THEN s ELSE CollectCycles(SweepZero(s)).s

FullSweep(s) == For(LAMBDA u, n : SweepRound(u), s, 1, MaxPasses)

\* ArcBackend::shutdown only counts what leaked.
Shutdown(s) == IF Arc(s) THEN s ELSE FullSweep(s)

-----------------------------------------------------------------------------
(* Registers, globals, call frames *)

SetRegReleaseFirst(s, r, v) ==
    IF s.regs[r] = v THEN s
    ELSE GcRootAdd([GcRootRemove(s, s.regs[r]) EXCEPT !.regs[r] = v], v)

\* Acquire the new reference before the old one is released.
SetReg(s, r, v) ==
    IF s.regs[r] = v THEN s
    ELSE GcRootRemove([GcRootAdd(s, v) EXCEPT !.regs[r] = v], s.regs[r])

SetGlobal(s, g, v) ==
    IF s.globals[g] = v THEN s
    ELSE GcRootRemove([GcRootAdd(s, v) EXCEPT !.globals[g] = v], s.globals[g])

SaveLocal(s, r) == GcRootAdd(s, s.regs[r])

\* Save the caller's locals up to its last one; each copy is a root of its own.
PushCallFrame(s, last) ==
    [For(SaveLocal, s, FirstLocal, last) EXCEPT
        !.frames = Append(@, [r \in FirstLocal..last |-> s.regs[r]])]

Top(q) == q[Len(q)]
Pop(q) == SubSeq(q, 1, Len(q) - 1)

RestoreLocalKeep(s, r, v) == SetReg(s, r, v)

\* One saved local: install it, then drop the frame's own reference.
RestoreLocal(s, r, v) == GcRootRemove(SetReg(s, r, v), v)

RestoreSaved(s, frame, r) == IF r \in DOMAIN frame THEN RestoreLocal(s, r, frame[r]) ELSE s

ClearReg(s, r) == SetReg(s, r, 0)

ClearArguments(s) == For(ClearReg, s, 1, NArgs)

RestoreLocals(s, frame) ==
    For(LAMBDA u, r : RestoreSaved(u, frame, r), s, FirstLocal, LastLocal)

RestoreCallFrame(s) == RestoreLocals(ClearArguments([s EXCEPT !.frames = Pop(@)]), Top(s.frames))

\* PopR and the unwinding of the data stack.
PopSaved(s) ==
    LET saved == Top(s.data) IN
    GcRootRemove(SetReg([s EXCEPT !.data = Pop(@)], saved.reg, saved.value), saved.value)

UnwindCalls(s, depth) == For(LAMBDA u, n : RestoreCallFrame(u), s, depth + 1, Len(s.frames))

UnwindSpills(s, depth) == For(LAMBDA u, n : PopSaved(u), s, depth + 1, Len(s.data))

\* Hand a held exception over to its handler.
HandOver(s, r, v) == GcRootRemove(SetReg(s, r, v), v)

\* Hold the exception while frames and spilled registers are unwound to the depths
\* the handler recorded, then hand it over.
ThrowValue(s, v) ==
    IF s.handlers = <<>> THEN [s EXCEPT !.status = "uncaught"]
    ELSE LET h == Top(s.handlers)
         IN HandOver(UnwindSpills(UnwindCalls(GcRootAdd([s EXCEPT !.handlers = Pop(@)], v),
                                              h.callDepth),
                                  h.dataDepth),
                     h.reg, v)

\* raiseRuntime: a fresh RuntimeException is thrown; with no slot left it panics.
RaiseRuntime(s) ==
    IF FreeHandles(s) = {} THEN [s EXCEPT !.status = "panic"]
    ELSE ThrowValue(AllocObject(s), Min(FreeHandles(s)))

-----------------------------------------------------------------------------
(* Instructions *)

Running == vm.status = "run"

\* Only the AARC heap has a slot limit (reserveSlots); a full ARC heap is where the
\* model stops, not an error of the program.
MayAllocate == ~Arc(vm) \/ FreeHandles(vm) # {}

\* Every instruction or system call whose result is not a heap reference.
Compute(r) == Running /\ vm' = SetReg(vm, r, 0)

\* Division by zero, failed parse, S_ERROR, ...
Fault == Running /\ MayAllocate /\ vm' = RaiseRuntime(vm)

\* Mov / Push with a register operand.
Mov(r, q) == Running /\ vm' = SetReg(vm, r, vm.regs[q])

Alloc(r) ==
    /\ Running /\ MayAllocate
    /\ vm' = IF FreeHandles(vm) = {} THEN RaiseRuntime(vm)
             ELSE SetReg(AllocObject(vm), r, Min(FreeHandles(vm)))

HLoad(b, f, r) ==
    /\ Running
    /\ IF vm.regs[b] = 0 THEN MayAllocate /\ vm' = RaiseRuntime(vm)
       ELSE vm' = SetReg(vm, r, vm.cells[vm.regs[b]][f])

HStore(b, f, q) ==
    LET base == vm.regs[b]
        old == vm.cells[base][f]
        new == vm.regs[q] IN
    /\ Running
    /\ IF base = 0 THEN MayAllocate /\ vm' = RaiseRuntime(vm)
       ELSE IF old = new THEN UNCHANGED vm
       ELSE vm' = GcEdgeAdd([GcEdgeRemove(vm, base, old) EXCEPT !.cells[base][f] = new],
                            base, new)

GLoad(g, r) == Running /\ vm' = SetReg(vm, r, vm.globals[g])

GStore(g, r) == Running /\ vm' = SetGlobal(vm, g, vm.regs[r])

\* Call, VCall, ICall from a function whose last local is the given one.
Call(last) ==
    /\ Running /\ Len(vm.frames) < MaxFrames
    /\ vm' = PushCallFrame(vm, last)

\* The last of n arguments moves up by one register, then the one before it, ...
MoveArguments(s, n) ==
    For(LAMBDA u, i : SetReg(u, n - i + 2, u.regs[n - i + 1]), s, 1, n)

\* CallInd on a closure: n arguments move up by one, the closure becomes the first.
CallInd(c, n, last) ==
    /\ Running /\ Len(vm.frames) < MaxFrames /\ vm.regs[c] # 0 /\ n < NArgs
    /\ LET t == MoveArguments(vm, n) IN vm' = PushCallFrame(SetReg(t, 1, t.regs[c]), last)

KeptHandlersAll(s) == s.handlers

\* Ret first removes the handlers the returning call installed.
KeptHandlers(s) ==
    SubSeq(s.handlers, 1,
           Max({0} \cup {i \in 1..Len(s.handlers) : s.handlers[i].callDepth < Len(s.frames)}))

Ret ==
    /\ Running
    /\ LET t == [vm EXCEPT !.handlers = KeptHandlers(vm)] IN
       vm' = IF t.frames = <<>> THEN [t EXCEPT !.status = "stopped"]
             ELSE RestoreCallFrame(t)

TryPush(r) ==
    /\ Running /\ Len(vm.handlers) < MaxHandlers
    /\ vm' = [vm EXCEPT !.handlers =
                Append(@, [reg |-> r, callDepth |-> Len(vm.frames), dataDepth |-> Len(vm.data)])]

\* The compiler pairs TryPop with the TryPush of the same call.
TryPop ==
    /\ Running /\ vm.handlers # <<>> /\ Top(vm.handlers).callDepth = Len(vm.frames)
    /\ vm' = [vm EXCEPT !.handlers = Pop(@)]

Throw(r) == Running /\ vm' = ThrowValue(vm, vm.regs[r])

PushR(r) ==
    /\ Running /\ Len(vm.data) < MaxData
    /\ vm' = [GcRootAdd(vm, vm.regs[r]) EXCEPT
                !.data = Append(@, [reg |-> r, value |-> vm.regs[r]])]

PopR == Running /\ vm.data # <<>> /\ vm' = PopSaved(vm)

\* Halt, or the instruction limit of run(): at any point, inside any call.
Stop == Running /\ vm' = [vm EXCEPT !.status = "stopped"]

DropSpill(s) == GcRootRemove([s EXCEPT !.data = Pop(@)], Top(s.data).value)

DropSpills(s) == For(LAMBDA u, n : DropSpill(u), s, 1, Len(s.data))

ClearGlobals(s) == For(LAMBDA u, g : SetGlobal(u, g, 0), s, 1, NGlobals)

ClearRegs(s) == For(ClearReg, s, 0, LastLocal)

\* finishGC: registers, globals and spilled registers give up their roots.
FinishGC(s) == Shutdown(DropSpills(ClearGlobals(ClearRegs(s))))

Finish == vm.status = "stopped" /\ vm' = [FinishGC(vm) EXCEPT !.status = "finished"]

Next ==
    \/ \E r \in Regs : Compute(r) \/ Alloc(r) \/ TryPush(r) \/ Throw(r) \/ PushR(r)
    \/ \E r, q \in Regs : Mov(r, q)
    \/ \E r, q \in Regs, f \in Fields : HLoad(q, f, r) \/ HStore(q, f, r)
    \/ \E r \in Regs, g \in Globals : GLoad(g, r) \/ GStore(g, r)
    \/ \E last \in NArgs..LastLocal :
          Call(last) \/ \E c \in Regs, n \in 0..NArgs : CallInd(c, n, last)
    \/ Ret \/ TryPop \/ PopR \/ Fault \/ Stop \/ Finish

Spec == Init /\ [][Next]_vm

-----------------------------------------------------------------------------
(* Properties *)

\* How many registers, globals, spilled registers and saved locals refer to c.
RootsOn(s, c) ==
    Cardinality({r \in Regs : s.regs[r] = c})
    + Cardinality({g \in Globals : s.globals[g] = c})
    + Cardinality({i \in 1..Len(s.data) : s.data[i].value = c})
    + Cardinality({x \in (1..Len(s.frames)) \X Regs :
                      x[2] \in DOMAIN s.frames[x[1]] /\ s.frames[x[1]][x[2]] = c})

CellEdges(s) == {x \in Cells \X Cells : RefsFrom(s, {x[1]}, x[2]) > 0}

ReachableObjects(s) ==
    ReachIn(Cells, CellEdges(s), {c \in Cells : RootsOn(s, c) > 0})

Garbage(s) == {c \in Cells : s.live[c]} \ ReachableObjects(s)

\* A value, a saved frame, and what the machine is made of.
Values == Cells \cup {0}
SavedFrames == UNION {[FirstLocal..last -> Values] : last \in NArgs..LastLocal}

VmStates ==
    [gc : {"arc", "local", "adaptive"},
     regs : [Regs -> Values], globals : [Globals -> Values],
     data : Seq([reg : Regs, value : Values]), frames : Seq(SavedFrames),
     handlers : Seq([reg : Regs, callDepth : Nat, dataDepth : Nat]),
     live : [Cells -> BOOLEAN], cells : [Cells -> [Fields -> Values]], peak : Nat,
     rc : [Cells -> Nat], eng : Engines, errors : BOOLEAN,
     since : Nat, alloced : Nat, threshold : ThresholdMin..ThresholdMax,
     status : {"run", "stopped", "finished", "uncaught", "panic"}]

\* Type correctness: slot numbers, stack bounds, the policy's threshold window.
TypeOK ==
    /\ vm \in VmStates
    /\ Len(vm.frames) <= MaxFrames /\ Len(vm.data) <= MaxData /\ Len(vm.handlers) <= MaxHandlers

\* No register, global, spilled register, saved local or field of a live object
\* refers to a slot that has been freed (the debug sweep in runJit, extended from
\* registers to everything the program can still read).
NoDanglingRef == \A c \in ReachableObjects(vm) : vm.live[c]

\* The collector's counts are exactly the references that exist, and no barrier was
\* ever applied to a dead object or below zero (rootAdd ... edgeRemove, release).
CountsExact ==
    /\ ~vm.errors /\ vm.eng.errors = {}
    /\ \A c \in Cells : LET held == RefsFrom(vm, Cells, c) IN
         IF Arc(vm) THEN vm.rc[c] = RootsOn(vm, c) + held
         ELSE vm.eng.root[c] = RootsOn(vm, c) /\ vm.eng.edge[c] = held

\* Reference counting leaks only what "leak by construction" allows: every live
\* object nobody can reach is on or behind a cycle of such objects (ArcBackend).
OnlyCyclesLeak ==
    Running /\ Arc(vm) => \A c \in Garbage(vm) : \E d \in Garbage(vm) :
        /\ c = d \/ c \in ReachIn(Cells, CellEdges(vm), {d})
        /\ \E e \in Cells : <<d, e>> \in CellEdges(vm) /\ d \in ReachIn(Cells, CellEdges(vm), {e})

\* Between two instructions every unreachable object still alive will be visited by
\* the next scan, and no suspect waits longer than the policy's interval: nothing
\* becomes garbage behind the collector's back (markSuspect, afterOp, cycleTrigger).
GarbageIsSuspected ==
    Running /\ ~Arc(vm) =>
        /\ Garbage(vm) \subseteq Visited(vm.eng, Source(vm))
        /\ vm.eng.marks # {} => vm.since < Interval(vm)

\* A handler belongs to a call that is still active, and handlers are ordered by
\* call depth, so a throw never lands in a function that has returned (Ret, throwValue).
HandlersBelongToCalls ==
    \A i \in 1..Len(vm.handlers) :
        /\ vm.handlers[i].callDepth <= Len(vm.frames)
        /\ i > 1 => vm.handlers[i - 1].callDepth <= vm.handlers[i].callDepth

\* A program that ran to its end leaves nothing behind after finishGC: registers,
\* globals and spills held the last references, cycles included.
FinishedIsEmpty ==
    vm.status = "finished" /\ vm.frames = <<>> /\ ~Arc(vm) =>
        \A c \in Cells : ~vm.live[c]

\* What a collector may leave behind: a counting heap only cycles, a tracing one
\* nothing once the program has ended.
NothingLeaks == OnlyCyclesLeak /\ FinishedIsEmpty
=============================================================================
