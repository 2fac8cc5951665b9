# Formal model of Loxis

Loxis is a statically typed language: a compiler (lexer, parser, type checker,
HIR, monomorphizer, MIR lowering, bytecode), a register virtual machine with a
choice of garbage collectors, and AARC, a reference-counting runtime with cycle
collection that can run its collector on another thread.

This directory holds TLA+ modules translated from the C++ sources, TLC
configurations that check them on small instances, and TLAPS proofs. Paths
below are relative to `src/src/`. `PROJECT.json` maps every modelled definition
to the lines it stands for, lists the runs, the mutants that show each property
can fail, the hazards, the findings and the theorems.

## 1. Inventory

| Component | State | Operations | Interaction | Hard behaviour | What makes it correct |
|---|---|---|---|---|---|
| Publication protocol (`aarc/arc/runtime.hpp`, `core/producer_slot.hpp`, `core/spsc_queue.hpp`) | per producer: pubSeq, batch, reserved run, ring; slots list and epoch; work epoch; quiesce counters | publish, flush, willPark, makeMutator, awaitQuiesce, worker round, shutdown | atomics and two condition variables between mutators and worker | interleaving of snapshot and publication, registration during a round, lost wake-ups, full ring | a swept cut is consistent; a served ticket covers what was issued; nothing is left behind at exit; waits end |
| Engine (`aarc/arc/engine.hpp`, `ref_table_reverse.hpp`) | counts, edge records, zero and suspect candidates | process, sweepZero, collectCycles, sweep | called by the worker, or inline by the VM backend | revived candidates, garbage behind garbage, stale suspects, reused slots | frees only what is unreachable, frees all of it |
| Asynchronous runtime (`aarc/arc/runtime.hpp`) | root bags, batches, queues | alloc, rootAdd/Remove, edgeAdd/Remove, flush, close, fold | stages messages for the worker | cross-thread hand-over of references, folding, close | reachable objects live; quiet heap holds no garbage |
| Adaptive mode (`runtime.hpp`, `local_components.hpp`, `owner_registry.hpp`) | per-owner engines, regimes, promotion requests | local fast path, promote, serve requests, close | owners wait for one another | request races close and time-out, authority changes cell by cell | one authority per cell; promotions end |
| Cell pool, root bag, edge arena (`core/cell.hpp`, `root_bag.hpp`) | free lists, caches, recycle rings, tombstones | alloc, free, refill, insert, erase | lock-free lists shared by owner and worker | ABA, stranded slots | a slot has one owner; no slot is lost |
| Cycle detector (`cycle/cycle_detector.hpp`) | Tarjan stacks and stamps | findComponents | called by the engine | iterative form, stamp reuse | components are the strongly connected components |
| VM backends (`cpp/vm/GC.cpp`) | ARC counts; inline engine and its trigger policy | barriers, afterOp, collect, shutdown | called inside VM instructions | collection in the middle of an instruction, starvation | counts are exact; nothing in use is freed |
| VM heap (`cpp/vm/Heap.hpp`) | slots, payload arena, free lists | alloc, freePayload, cell access | used by VM and backends | exhaustion | bounds hold, space is reused |
| VM (`cpp/vm/VM.cpp`) | registers, globals, call stack, spill stack, handlers | one per opcode, throw/unwind, finishGC | calls barriers on each overwrite | unwinding with live references, order of barriers, teardown | see backends; handlers die with their calls |
| Lowering (`cpp/v2/backend/Lowering.cpp`) | blocks, finalizer stack, loop stack, scope map | one per HIR node | emits handler instructions for the VM | inline copies of finally, exits from finalizers | lowered code means what the language says |
| MIR compiler (`backend/MIRCompiler.cpp`) | labels, registers, patches | emit, patch | bytecode for the VM | register limits, forward jumps | jumps and tables land where meant |
| Monomorphizer (`hir/Monomorphizer.cpp`) | worklist of instances | instantiate, substitute | between HIR and lowering | recursion through types | one instance per key, ends |
| Module loader, driver | loaded modules, import graph | load, resolve imports | before the type checker | import cycles, selective imports | each module once |
| Type checker and scopes (`cpp/v2/type`) | scopes, class layouts, captures | declare, resolve, check | annotates the tree for the builder | order of declarations, nested closures, named and spread arguments | a name, a call and a dynamic call reach what the source means |
| Lexer, parser, dumps, tools | syntax trees, text | syntax-directed | pipeline | none concurrent | not modelled (section 8) |

Nothing is persisted, there is no network protocol, and the VM is single
threaded: concurrency exists only in AARC. The difficult sequential parts are
the barriers inside instructions, exception unwinding, the lowering of
`finally`, and the agreements between phases (a slot number computed by the
scope, named by the checker, tabled by the compiler and used by the machine).

## 2. Modules

| Module | Models | Uses |
|---|---|---|
| `Publication`, `PublicationProofs` | the publication protocol, one step per access another thread can see; its theorems | |
| `Reachability` | reachability in a finite graph | |
| `AarcEngine`, `AarcEngineProofs` | the engine, reference table and pool liveness as functions on records; lemmas on reachability, counting, messages, anchors, scanning and reclaiming | `Reachability` |
| `AarcRuntime` | mutators, batches, queues and worker over a shared object graph | `AarcEngine`, instance of `ManagedHeap` |
| `AarcLedgerProofs` | lemmas on accounts: what a sequence of messages, or its folded form, adds up to | `AarcRuntime`, `AarcEngineProofs` |
| `AarcRuntimeProofs` | the inductive invariant of the runtime, its safety theorems and its refinement of `ManagedHeap` | `AarcLedgerProofs` |
| `AarcGarbageProofs` | the theorem that the asynchronous collector forgets no garbage | `AarcRuntimeProofs` |
| `ManagedHeap`, `ManagedHeapProofs` | what the collector promises, and its safety theorem | `Reachability` |
| `Adaptive` | the adaptive mode: local engines, regimes, promotion, requests, close | `AarcRuntime` |
| `CellPool` | where the slots of the pool are | |
| `EdgeArena`, `RootBag`, `Components` | the rest of the storage under the runtime | |
| `HeapStore` | the VM's object heap: slots, payloads, free lists | |
| `StorageProofs` | that the pool loses and doubles no slot, that the edge arena keeps its books, that the root bag counts exactly, that the components stay closed, and that the VM's objects share no cell | `CellPool`, `EdgeArena`, `RootBag`, `Components`, `HeapStore` |
| `LoxisVm`, `LoxisVmProofs` | the VM's references, frames, handlers and the collecting backends; the invariant of its barriers and six theorems | `AarcEngine`, `AarcEngineProofs` |
| `Hir`, `HirMeaning` | the typed tree, and a reference evaluator written from `docs/spec.md` | |
| `Lowering` | tree to basic blocks | `Hir` |
| `MirCompiler` | basic blocks to register code | `Lowering` |
| `Machine` | the VM running that code, compared with the evaluator | `MirCompiler`, `HirMeaning` |
| `ModuleLoader` | imports, and the stages of the driver | |
| `Monomorphizer` | instantiation of generics | |
| `ClassLayout` | fields, virtual slots, interface tables and the calls through them | |
| `CallBinding` | named, collected and spread arguments, from the checker to run time | |
| `NameBinding` | names, smart casts and closures, from the checker to the lowering | |
| `MC*` | instances for TLC (`MCParts` composes the storage and front-end modules) | the module they are named for |

### Publication

A message has no content; a ring is its two free-running counters. `ppc` is the
place of a producer in `publish`, `flushSlot` or `awaitQuiesce`, `wpc` the
worker's in `workerLoop`/`doRound`. Producers are numbered in `slots_` order, so
`slotsEpoch_` is `nslots`. `SpanPath` chooses the zero-copy path
(`writeToSpan`/`commitStaged`) or the copying one (`batch[]`, `tryPush`).
`issued`, `cut`, `swept` and `issuedAt` are history variables. Batch folding
does not appear: a folded batch is written at flush inside the same window.
`Spin` is the yield of a producer whose ring is full.
Memory is sequentially consistent; the code's acquire/release pairs are on the
accesses that are steps here, and weaker orders are not modelled.

### AarcEngine, AarcRuntime, ManagedHeap

The table is counts plus a multiset of edges between handles (slot, generation);
`zeroStack_` and `suspectStack_` are sets. A scan is defined by reachability and
strong connectivity; the iterative Tarjan walk is not modelled. Generations start at 0
(1 in the code) and `MaxGen` stands for the last 32-bit one, at which a slot is
retired. `AarcRuntime` adds the program: `fields` and `bag` change when an
operation is called, `eng` when its message is applied. Its snapshot is coarser
than `Publication`'s (an open batch is an open window); the theorem
`CutIsConsistent` is why that is enough. `Folded` gives the batch `foldBatch` leaves: the
first root operation on a handle stays, as one message with their net effect. The worker may start a round whenever
there is something to do. `OwnFields` says whether only the allocating thread
writes an object's fields. `ManagedHeap` is the abstract specification: objects,
roots, fields, and a collector that may remove inaccessible objects; `present`
is mapped to the valid handles.

### LoxisVm

One record is the machine; each routine of the VM or of a backend is a function
of it and instructions compose them in the order of the code, since each barrier
may free objects. A value is a slot, or 0 for anything that is not a reference.
Any instruction may follow any other: the program is arbitrary. Registers
r1..r10 and r240..r255 (cleared on return) are one class, r16 and up the locals;
which last local a caller has is chosen at each call. Slot choice is the
smallest free one. Byte quantities of the policy are counted in objects, and
`since`, `alloced` and `peak` stop at their thresholds. The arena of the ARC heap
grows on demand, so a full model heap there disables allocation; only the AARC
heap has a slot limit and only there allocation fails. PushR and PopR exist in
the VM although the present lowering emits none. Arithmetic, strings, files and
sockets store values that are not references (`Compute`) or raise (`Fault`).
A loop of the code is a fold over its index range (`For`). The three `while` loops of the
collector (`sweepZero`, the passes of `collectCycles`, the rounds of `sweep`) have no range of their own: they
are folds of `MaxPops` or `MaxPasses` rounds in which a round after the end of the loop changes
nothing. That these bounds cover what the code needs is proved (section 4). ARC's worklist is given by the
set of objects it ends with, the least that `Drained` holds of (`ReclaimSet`).

### Adaptive

Extends `AarcRuntime`, whose table `eng` is the one all engines share; `loc[p]`
holds the candidates of owner p's inline engine, `regime` says who decides about
a cell, and `gate`, `pc` and the requests are the protocol of `promoteForeign`
and `servePromotions`. An operation classifies its cells step by step, because
a regime may change between two classifications; what an owner does with its own
local cells is one step. Each operation follows the code through its retries:
wait on the gate, wake because the request was answered or because the owner no
longer accepts, classify again (at most `MaxAttempts` times in the code, 8). The
guards of the program are the contract of the runtime: it operates on reachable
objects, and drops the last reference to a shared object only when no other
thread is rooting it.

### Storage: CellPool, EdgeArena, RootBag, Components, HeapStore

`CellPool` follows a slot through owner caches, recycle rings and sharded free
lists; a step is what happens under one shard's lock. `EdgeArena` is the tagged
lock-free free list of edge records with both adjacency lists, one step per
atomic access (`Walk` follows a list by its links); `MaxTag` bounds the tag (32 bits
in the code), so that a record never returns with the same tag. `RootBag` has its
probe sequence, tombstones and growth: `Probed` is the k-th slot a probe looks at,
`Rehashed` inserts the live keys of the old table in its order, and `NextPow2` is
the code's doubling loop. `Components` is the may-connected scheme of the
`AARC_CONSERVATIVE` build with its forward table; `MembersOf` follows a list by its
links. `HeapStore` cuts the payload array into cells and keeps a free list per size
class.

### The back end: Hir, HirMeaning, Lowering, MirCompiler, Machine

A program is a record of functions, classes and globals over tree nodes.
`Lower` translates every expression form with control, with the state of class
`Lowering` (blocks, current block, terminated flag, finalizer and loop stacks,
scope map). `MirCompiler` assigns registers, stages calls, and builds the code
and its tables. `Machine` executes it, one action per group of opcodes.
`Meaning` evaluates the tree directly, in the order and with the scoping of
`docs/spec.md`; it shares nothing with the lowering but the tree. Programs read
their choices from an input sequence, so that each try fails or not and each loop
goes on or not. Instructions are decoded records, not bytes; an address is a
label until it is followed. Objects are never freed here: that is `LoxisVm`'s
subject. Left out are strings, bit operations and iterators: more instructions,
no more control.

### The front end: ModuleLoader, Monomorphizer, ClassLayout, CallBinding, NameBinding

Each is a state machine over one input chosen at the start. `ModuleLoader` keeps
the activations of `appendModule` as frames, then runs the stages of
`compileAndRun`, any of which may refuse. `Monomorphizer` keeps the worklist;
a body is the sequence of its instantiation sites, and an overload carries its signature, which
names its instances. `ClassLayout` resolves the
classes in file order, builds the tables and defines `VCall` and `ICall` on
them. `CallBinding` tries the candidates, then evaluates, packs and supplies the
arguments. `NameBinding` runs the checker over the events of a body and derives
from its scopes and captures the register, environment cell, field or global that
each use reaches. The reference definitions beside them (`Needed`, `Nearest`,
`BoundTo`, ...) are stated without the algorithms' state.

## 3. Runs

| Run | Instance | Shows |
|---|---|---|
| `publication` | 2 mutators that register at any time, ring of 4, runs of 3, batches of 2, one ticket, shutdown | `TypeOK`, `ConsistentCut`, `QuiesceCovers`, `DrainedAtExit`, `RunIsFree` |
| `publication_live` | 2 mutators, 2 messages in all, copying path, rings of 1 on which a producer spins | `QuiesceReturns`, `SettledIsSwept` |
| `async_shared` | 2 mutators, 2 objects, 5 operations, batches of 2: cycles, self loops, hand-over | `TypeOK`, `ReachableIsLive`, `NoGarbageLeft`, `TableIsExact`, `SuspectIsQueued` |
| `async_reuse` | folded batches of 3; 1 slot through 3 generations and retirement; 5 operations | `ReachableIsLive` |
| `async_live` | 2 mutators, 2 objects, 4 operations | `GarbageIsReclaimed`, `ImplementsHeap` |
| `fold_leak` | folded batches of 3, one mutator | violation of `NoGarbageLeft` |
| `adaptive` | 2 owners and the worker, 2 objects, 3 operations after any allocation; promotion, requests, close | `ReachableIsLive`, `RegimesApart`, `NothingLost`, `RequestsReturn` |
| `adaptive_close` | the same, with a close while a request is waiting | violation of `NothingLost` |
| `vm` | 3 collectors (counting, inline engine with fixed and with adaptive trigger), 2 objects, calls, one handler, one spill, one global | `TypeOK`, `NoDanglingRef`, `CountsExact`, `NothingLeaks`, `GarbageIsSuspected`, `HandlersBelongToCalls` |
| `pipeline` | 156 programs, every input of length 3 | `FollowsTheSpec`, `HandlersAreBalanced`, `JumpsStayInside`, `Terminates` |
| `catch_fails` | an operation that fails in a handler | violation of `FollowsTheSpec` |
| `parts` | the storage structures through every sequence of operations; 3,600 generic units, 2,000 with overloads and an enum, 3,459 class units, 567 bodies, all calls with up to 3 arguments, all programs of a small file tree | the properties below |

`parts` checks one property per component, each a conjunction of named parts:
`PoolIsSound` (no slot lost, doubled or stale; an allocation fails only when the
slots it could have found were taken; a freed handle never becomes valid again), `ArenaIsSound`
(records neither lost nor handed out twice, both adjacency lists agree), `BagIsSound`,
`ComponentsAreSound` (lists whole, closed under edges), `ObjectsAreApart`
(a recycled payload shows nothing of another object), `ImportsAreSound` and
`OutputIsPure`, `InstancesAreSound` (exactly the reachable instances, each once; calls
resolve; two share a name only as overloads with the same types, and type ids are unique but for
an enum numbered after every class, see deviation 14), `LayoutIsSound` (fields disjoint, dynamic calls
reach the nearest override), `BindingIsSound`, `NamesAreSound`.

Bounds. Two producers are the smallest number between which a reference can be
handed over during a snapshot; `MaxIssue` of 6 lets a lone producer wrap its ring
and reuse a partly filled run. `MaxTotal` bounds the messages of all producers: 6 in
`publication`, 2 in `publication_live`, where either producer may find its ring of 1 full, spin on it with its
window open, and depend on a worker that has no stable cut. When several publish in
`publication`, the first producer issues `MaxTogether` (2) messages and the others one, so that
a window opens and closes between the two samples
(action constraint `Narrowed` of `MCPublication`). Two objects give self
loops, two-cycles and garbage behind garbage. Four or five operations build, share, cut
and drop such a graph. In `adaptive` three operations follow any initial
allocation of the two cells: enough to make a cell shared, join it with another
and drop it; `Givers = {1}` says that only the first mutator's local cells are referred to by
another thread, and `CloseAlone` that an owner closes only while no other asks for its cells
(see finding 2 and deviation 4). `MaxFrames`, `MaxHandlers` and `MaxData` of
one let a throw cross a call; deeper stacks repeat the same step. `Narrowed` of `MCLoxisVm`
says which root holders are explored together: calls and handlers under the plain collectors,
globals or spilled registers under the policy. Three choices let
two loops be entered and an operation fail afterwards. The pool has two slots,
two owners, two shards and rings of one, so that a refill, a spill and a steal
compete for the last slot; the root bag five keys in a table of four, so that it
grows and rehashes with tombstones; the arena two records and five tags; object
sizes and memory are such that payloads and handles are reused. Three nested
closures let a capture pass through a closure that does not use the name.
In `async_shared` every slot has one object, and only `async_reuse` uses a slot
again; what the other properties say of reused slots rests on the theorems of section 4, which hold for
any number of generations. In no asynchronous run does a message outlive the object it names, since a
sweep needs every window closed and every message before it applied, so the engine's check of
generations never refuses one there. `adaptive_close` is the run in which a requester gives up.
`SlotSymmetry` permutes slots, which the engine never orders; it is not used with
liveness.

Deadlock is checked in the publication runs (the joined worker stutters). In the
other runs a stop is legitimate: mutators may cease to operate while the worker
has nothing to do, a program or a compilation ends.

Fairness. `Publication!FairSpec` and `AarcRuntime!FairSpec` assume that the
worker thread is scheduled, that a thread inside `publish`, `flush` or
`awaitQuiesce` runs on, and that a mutator that stops operating flushes first
(the flush-before-park contract in `runtime.hpp`). `AdaptiveFairness` adds that
an owner with a request in its gate keeps coming to safe points (the
`pollPromotions` contract). No fairness is assumed of starting operations.
`awaitQuiesce` needs the cut to become stable: the bounded number of messages
provides that; a producer that publishes for ever may starve it. `Machine`
assumes only that the single thread goes on, so `Terminates` shows that the
compiled loops and exceptions end.

## 4. Proofs

A theorem holds for every value of the constants that the named assumptions allow (`PublicationAssumption`,
`EngineAssumption`, `RuntimeAssumption`, `PoolAssumption`, `ArenaAssumption`, `BagAssumption`,
`ComponentsAssumption`, `HeapAssumption`, `VmAssumption`: sizes are positive, sets of cells, slots and fields
finite, zero is not a value the program stores, `kNoEdge` is no record's id and `kNoComp` no slot's, the two marks
of an unused slot of the bag differ, the VM's objects have one generation). TLC checks the same properties on the
instances above.

### Publication

Any number of mutators, any ring, run and batch size, either publish path.

- `TypeCorrect`: `Spec => []TypeOK`.
- `CutIsConsistent`: `Spec => []ConsistentCut`. `ConsistentCut` alone is not
  inductive. `IInv == TypeOK /\ Unregistered /\ Window /\ WorkerInv /\ Promised`
  strengthens it. `Window` says that pubSeq is odd exactly while a producer has
  messages the worker cannot see, so an even counter means all issued messages
  are in the ring. `WorkerInv` follows the round: a counter read as even and still
  equal to `pre` was never opened since, so its producer's `issued` and `tail`
  are what they were at the cut; a slot outside the round, or a counter that
  moved, makes `stable` false by the time it is used; during the drain heads
  do not pass the sampled tails.
- `QuiesceIsCovered`: `Spec => []QuiesceCovers`. `Promised` says that a ticket
  captured by the round was drawn before the cut, so the cut includes what was
  issued then.
- `RunsAreFree`: `Spec => []RunIsFree`. `Runs` ties a producer's reserved run to the
  tail it was reserved at and to what it has written since; the arithmetic of ring
  positions (`RemainderAdd`) shows that a run that does not pass the end of the ring
  stays within the free part while heads only advance.
- `ExitIsDrained`: `Spec => []DrainedAtExit`. `Stopped` is the lifecycle rule (no
  producer is active once stop is set); `Late` says that, while the work epoch is
  the one the round captured, whoever issued a message the round did not see has
  still to bump the epoch. So an unchanged epoch at the exit test means that the
  last sweep saw everything.

### The engine

`AarcEngineProofs` has lemmas about the functions `process` and `sweep` are made of, used by the
proofs of both runtimes; a count is the number of `Copies` in a finite multiset. `NoExternalRefs`: if
the counts of a component equal the records inside it (the test of `collectCyclePass`), no record
leads into it from outside. `GarbageIsClosed`: so the union of the condemned components has no
root and no record from outside. `ReclaimCellExact`, `ReclaimCyclesExact`: after
`reclaimCell` and `reclaimCycles` the counts are again exactly the records, nothing else
was freed, and each cell that lost a record is queued when its count is zero.

An *anchor* is what a live cell can hang on in the table: a root, a count of zero, or a mark that is queued.
`Anchored` says that a set of cells that holds every anchor and is closed under the records holds every live
cell: there is no cell that no later sweep would find. `MessageAnchored`, `ZeroAnchored` and the lemmas on a
scan show that applying a message, reclaiming a zero candidate and reclaiming the condemned components keep it.
The hard case is a scan, which consumes all marks: among the components it visits that no root leads to, one
nobody else refers to is condemned.

### The asynchronous runtime

Any number of mutators, cells, generations and operations, any batch size, with and
without folding. The hypothesis `OwnFields` (only the allocating thread writes an object's
fields) is explicit in each theorem: without it the code's table can be wrong (deviation 2).

- `RuntimeTypes`, `CollectorIsSafe` (`Spec => []ReachableIsLive`), `TableAgrees`
  (`[]TableIsExact`), `MarksAreQueued` (`[]SuspectIsQueued`) and `RuntimeRefinesHeap`
  (`Spec => ImplementsHeap`) rest on `RuntimeInvariant`: `Spec => []IInv`.
- None of these is inductive: what the table says and what the program has differ by the
  messages in flight. `IInv` keeps accounts: one for the roots on each handle and one for
  each pair of handles, per producer. A ledger `L` gives the balance of each account after
  each message of the producer's stream (`queue` then `batch`); it starts at what the table
  has been told (`Table`), ends at what the program has (`Book`), changes by the effect of each
  message and is never negative (`Ledger`). An operation extends the stream, a drain shortens
  it at the front, and `TallyFolded` shows that folding a batch keeps its total for every
  account and never makes a balance negative on the way.
- `Cut` holds from a stable snapshot to the end of the sweep. `K` is the set of objects
  that existed at the cut and still exist. Everything of `K` that the program can reach
  now, or names in a message sent after the cut, was reachable at the cut in the heap the ledger
  shows at index `left`; candidates and records lie in `K`. When the drain is over that
  heap is the table's, so condemned cells (`Condemned`) are out of everybody's reach
  (`CondemnedIsUnused`), including of messages still staged or queued. Objects allocated since
  the cut are outside `K` and have no record yet.
- `SuspectsQueued` strengthens `SuspectIsQueued`: a marked cell of count zero is a zero candidate,
  and off the stack a mark is found only on such a cell, during the sweep.
- The refinement maps `alloc`, `rootAdd`, `rootRemove` and `close`, `edgeAdd`, `edgeRemove` to the
  heap's operations at the call, and a sweep that frees something to `Collect`; all else
  is a stutter. With `HeapIsSafe` (`ManagedHeapProofs`: accessible objects are present; `HeapInv`
  adds that absent objects have no fields) it also yields safety once more, from the abstract side.
- `NothingIsForgotten`: `Spec => []NoGarbageLeft`, with `OwnFields` and without folding (`~Fold`, the
  code's default). With folding it is false, as run `fold_leak` shows. Its invariant `GInv` adds four
  parts to `IInv`: `Anchored` for the worker's table; `Awaited` (a live cell without any count
  is a zero candidate, or the message of its first root is still staged or queued, so it is not
  forgotten before it was ever counted); `WritesHeld` (at each `EdgeAdd` in a stream its sender
  held a root on the object it wrote to, so when the edge is applied the table shows that
  root, and a cell that ceases to be an anchor because it is now counted hangs off
  a rooted one); `MessagesPlain` (nothing was folded). In a quiet state no mark is queued and
  no zero candidate left, so every anchor is rooted and `NoGarbageLeft` follows.

### The cell pool

Any number of slots, shards, owners and generations, any refill and ring size; an owner
starts its search at any shard.

- `PoolKeepsItsBooks`: `PoolSpec => []PoolIsSound`. A cache, a recycle ring and a free list
  are all treated as lists of slots (`Contents`), so that each step moves slots between at
  most two lists (`Exchange`) or takes one slot in or out. `PoolInv` has six parts. `Tidy`: no list
  repeats a slot and no two lists share one. `Books`: the slots in the lists are those
  neither live nor retired; counting places (`SlotsAccounted`) is not inductive by itself, since a
  step that frees a slot must know that it is in no list at all. `Fresh`: handles carry
  the current generation, which survives a free because the freed slot is in no list. `Spent`,
  beside them: a handle that was freed names a generation its slot has left, or a retired slot.
  `Calls`: a refill has room when it begins and leaves a slot to take. `Searches`: what was on the
  free lists when a call began and nobody has taken is still on one, never on a shard the search
  has passed; this gives `FailsOnlyWhenTaken`.

### The edge arena

Any number of engines, rows, records and steps in flight; each step one access of the shared list.

- `ArenaKeepsItsBooks`: `ArenaSpec => []ArenaIsSound`. `ArenaInv` says that the free list spells out, once
  each, the used records that are neither linked nor in a hand (`FreeSpelled`); that a record in the hand of an
  engine is in no other hand (`HandIsApart`); and that the two lists of every row run through exactly its live
  edges, forwards and backwards (`RowsLinked`). None of this is inductive without `HeadIsKnown`: the head an
  engine has read carries an older tag, or it is still the head, and then the `nextFree` it has read is still
  the one in the record. So an exchange that succeeds takes the first record off the very list the
  engine read, although others may have popped, relinked and freed that record meanwhile.
- `WalkIs` shows that the walk of the iterators yields the list its links spell; `SpellsFront`, `SpellsClosed`,
  `BacksFront` and `BacksClosed` what linking and unlinking do to a list.
- The tag of the theorem is a natural number, so it never repeats. In the code it has 32 bits: an engine that sleeps
  between its read and its exchange while exactly a multiple of 2^32 exchanges happen is outside the theorem.

### The root bag

Any set of keys, any hashes, any minimum capacity and any number of additions per key.

- `BagCountsExactly`: `BagSpec => []BagIsSound`. `BagInv` says that a table which exists is `Filled`: every root is
  in exactly one slot, each slot before it on its probe is taken (`Findable`), a key in the table has a positive
  count, the one of `held`, and size and tombstones count the slots and together leave one empty. The two tests of
  `needsGrow` keep that last part: with live keys and tombstones both below half of the table an insertion still
  leaves an empty slot. Without the tombstone test it fails (the mutant `NeedsGrowLive`).
- `InsertFindable`: an insertion into the first tombstone or the empty slot at the end leaves every other key
  reachable and doubles none; it serves `add` and each step of the rehash (`Rehashed`), whose
  table `NextPow2` makes larger than twice the live keys.

### The components

Any finite set of slots, any number of live edges, any order of operations.

- `ComponentsStayClosed`: `ComponentsSpec => []ComponentsAreSound`. `CompInv` says that every owned header keeps a
  row (`RowsKeep`): a sequence without repetition of exactly the slots labelled with it, which `next` and `prev`
  spell out and whose ends and length the header holds; that the free list names each header nobody owns, once
  (`FreeNamed`); and that every local slot's label is an owned header (`LabelsOwned`). `ListsExact` asks less than
  the row, yet a merge or an unlink is right only if no slot's link leads into another row. That holds because
  the rows of different labels are disjoint and a slot's neighbours lie in its own row (`RowNeighbours`).
- `RowJoin` and `RowWithout` show what `merge` and `unlink` do to rows; without the new tail of `unlink` the
  latter fails (the mutant `UnlinkedTail`). An edge never leaves a component: a new one merges
  two, a removed one splits none, an unlinked slot is nobody's target, and a promotion takes a whole row, so
  that no edge leads from what stays to what went.

### The VM heap

Any request sizes, slot limit and number of objects, any order of operations.

- `ObjectsStayApart`: `HeapSpec => []ObjectsAreApart`. `HeapInv` says that blocks are pairwise
  `Apart`: live with live (`LivesOk`), free with free over all size classes (`FreesOk`) and live
  with free (`LiveFreesOk`); each lies within memory. `PayloadsDisjoint` alone does not relate free
  lists of different sizes, yet an object is next cut from any of them. `HandlesOk`: a free handle
  is that of a dead slot and listed once, so a recycled handle never names a live object. With
  these, `alloc` clears only cells nobody uses and a store reaches one object only (`ReadsBack`).

### The virtual machine

Any number of registers, locals, globals, fields, objects, frames, spills and handlers, each of the three
collectors, any program. All six properties of run `vm` are proved (`LoxisVmProofs`):

- `VmTypeOK`, `NothingDangles` (`Spec => []NoDanglingRef`), `BarriersBalance` (`[]CountsExact`),
  `LeaksAreCycles` (`[]NothingLeaks`), `NoSilentGarbage` (`[]GarbageIsSuspected`) and
  `HandlersFollowCalls` (`[]HandlersBelongToCalls`) follow from `VmInvariant`: `Spec => []VmInv`.
- `VmInv` is `SomeStable(vm)`: there is an `x`, an object that is not yet referred to, or 0, with
  `Stable(vm, x)`; `x` is an object only after an uncaught exception, whose object nobody took over. `Stable`
  says that the collector agrees with the program (`ArcGood` or `EngGood`: counts are exactly the
  references, what is counted is live, dead objects hold nothing, every live object with
  count zero is a candidate, marks are queued, and the table is `Anchored`), that no candidate is left and
  no scan is overdue (`Settled`), that the stacks are within bounds, that handlers are sorted by depth, and that a
  finished program left nothing (`Emptied`).
- No property is true *inside* an instruction, where barriers collect between a write and the next. There the
  same statement holds with corrections (`Sound(s, R, h, x)`): `R` adds to the roots those the instruction still
  has to remove or has added early, such as a caller's locals while they move between registers and frame;
  `View` hides the field `h` whose old value has been released while the new one is not counted yet; `x` is the
  object under construction. Each routine of the VM is a lemma from one such statement to the next
  (`SetRegGood`, `EdgeRemoveGood`, `PushGood`, `RestoreLocalsGood`, `UnwindCallsGood`, ...), and an instruction
  is a chain of them that ends with all corrections gone. `setReg` and `setGlobal` retain the new value before
  they release the old one; without that the chain breaks, since the release may collect what is about to be
  stored (the mutant `SetRegReleaseFirst`).
- Loops are followed round by round (`LoopRuns`, `LoopStays`, on the function that `For` folds).
  `SweepEnds`, `CollectEnds` and `FullSweepEnds` show that the collector's loops reach their end within
  `MaxPops` and `MaxPasses`: a round that goes on frees an object or uses up a candidate.
  `WorklistIs` shows that what ARC's worklist frees has no roots and is referred to from within only.
- `LeaksAreCycles`: a leaked object of `ArcBackend` has a count and no root, so a leaked
  object refers to it (`LeakHasReferrer`). Among its leaked ancestors one whose own ancestors are the fewest lies on
  a cycle (`BehindCycle`). `NoSilentGarbage`: garbage that no scan would visit would be a live cell outside
  a closed set that holds every anchor.

### Only model-checked

The liveness properties, since fairness is outside the prover's reach; `AarcRuntime` without
`OwnFields`. `Adaptive`, the back end, `ModuleLoader`, `Monomorphizer` and `ClassLayout` declare or reach
recursive operators, which the prover does not support: what they compute is compared by TLC with
reference definitions over bounded inputs. `CallBinding` and `NameBinding` are model-checked only as well.

## 5. Findings

Three runs exhibit a disagreement between the code and what is said of it:

1. `fold_leak`: folding moves a root removal before the edge that makes the
   object cyclic; the object is never a suspect and leaks
   (`aarc/arc/runtime.hpp:1434`).
2. `adaptive_close`: an owner closes while a request is in its gate. The requester
   is woken, gives up and reports failure; the owner then serves the request and
   reserves a root that nobody will remove (`aarc/arc/runtime.hpp:1038`).
3. `catch_fails`: an exception raised by an operation, a call or a nested try in a
   catch body skips that try's `finally` (`cpp/v2/backend/Lowering.cpp:900`).

## 6. Known deviations without a run

These follow from the code as modelled; the instances of section 3 stay clear of them, or the
properties are stated so that they are visible as conditions. Deviations 8, 9, 11, the
first part of 12, the last two of 14 and 16 also show when the compiler is built and such programs are run.

AARC and the VM:

1. A mutator that registers during a round makes the round unstable after its
   messages are drained; `runtime.hpp:654` still advances `seenWork`, so the worker
   sleeps with drained garbage unswept until a later publication. This is why
   `SettledIsSwept` speaks of batches published after the last registration.
2. When two threads write one object, `EdgeRemove` may be applied before the
   `EdgeAdd` it undoes (`aarc/arc/engine.hpp:170`): `TableIsExact` fails in
   `async_shared` with `OwnFields = FALSE`.
3. `awaitQuiesce` needs every window closed at once (`runtime.hpp:446`).
4. Two owners that ask each other for a promotion wait for ever, since each serves
   requests only at its safe points (`runtime.hpp:1038`): `RequestsReturn` fails with
   `Givers = {1, 2}`. `aarc/docs/adaptive-rc-design.md` sections 6.1 and 9 leave this
   to the program.
5. `finishGC` does not drop the roots of saved locals (`cpp/vm/VM.cpp:125`), hence
   the condition `vm.frames = <<>>` in `FinishedIsEmpty`.
6. Reporting an exhausted heap needs a slot, and panics (`VM.cpp:279`).
7. `Heap::alloc` takes its payload before it finds that there is no slot
   (`cpp/vm/Heap.hpp:178`): at the slot limit that payload is lost.

Back end (the `Family` of `MCMachine` that shows it in parentheses):

8. An argument that names a variable is read when the call is made, after later
   arguments have changed it (`Lowering.cpp:332`, against `docs/spec.md:197`;
   `"arguments"`).
9. `m_scope` is not restored when a block ends (`Lowering.cpp:1036`): an inner
    declaration hides the outer one for the rest of the function (`"scope"`).
10. A function with 16 or more parameters finds the later ones overwritten
    (`MIRCompiler.hpp:35`; `"wide"`).
11. An exit inside an inner `finally` skips the outer ones (`Lowering.cpp:32`, the
    finalizer stack is cut before the finalizers are lowered), and a `break` in a
    `finally` that is copied into an inner loop leaves the inner loop
    (`Lowering.cpp:36`).
12. `a[-1]` reads, and as a target overwrites, the length cell of an array, against
    `docs/spec.md:270`; a safe call `p?.m()` joins at the wrong label; a `when` with
    only an `else` jumps to the function's entry; a safe field access on null yields 0.

Front end:

13. Imports: a second import of a loaded file with another list adds nothing;
    private helpers of an exported function are dropped with a selective import;
    the prelude is never filtered.
14. Generics: a generic method of an ordinary class that is used before the class
    has been output is lost (`Monomorphizer.cpp:594`); type arguments of paths are
    not scanned; the target of `is T` is not substituted; a method's type parameter
    may shadow its class's; polymorphic recursion does not end. An instance of a generic function
    that has an overload is named by its substituted signature (`Monomorphizer.cpp:516`) although
    the key is its type arguments: two instances that differ only in a parameter the
    signature does not show, or an instance and a plain overload with the same types, share one label,
    and the body emitted last serves both. Enums draw type ids from the counter of the
    classes (`Scope.cpp:99`), but their items do not carry them (`HirBuilder.cpp:1070`), so
    `Monomorphizer.cpp:616` does not count them: an enum numbered after the last class shares its
    id with the first specialized class. `NamesApart` and `TypeIdsUnique` say exactly when; the compiled
    program shows both.
15. Classes: a class declared before its superclass or interface inherits nothing
    from it; an inherited virtual method that no one overrides leads to an
    undefined label; a method that implements an interface without `override` uses
    its method index as slot; an override of an inherited interface default is not
    reached (`Scope.cpp:409`); a call through a super-interface, or of a missing
    abstract method, panics at run time; objects carry no parent type id; overloads
    share a label. `VirtualCallsReach` and `InterfaceCallsReach` name these
    conditions.
16. Names: (a) a local declared in a block of a closure body is taken for a capture
    (`TypeChecker.cpp:1017`) and shifts the environment; (b) a parameter or local
    with the name of a field reads the field when used in a nested scope
    (`TypeChecker.cpp:1075`); (c) a smart cast of a global or field in a
    single-expression branch loses where it is stored (`TypeChecker.cpp:2870`);
    (d) a field used in a closure inside a method is not reached, `self` being no
    capture. The bodies of `NameBinding`'s instance use distinct names and avoid
    these four.

## 7. Plan

What is left is proof: the type and regime invariants of `Adaptive`, for which the anchors of
`AarcEngineProofs` would have to be kept per owner.

## 8. Not modelled, and why

- Lexer and parser: functions of text without state that outlives a call;
  exhaustive checking of toy inputs would say little.
- The type rules and the ranking of overloads by type: a syntax-directed function
  over types. What later phases take from the checker (layouts, bindings,
  captures) is modelled.
- Strings, bit operations, iterators, ranges: they add instructions, not control.
- System calls (files, sockets, processes): input and output; only whether they
  produce a value or raise matters to the modelled properties.
- The explicit stack of the Tarjan walk: a scan is defined by what it returns.
- Dumps, disassembler, metrics, traces, command-line reading: text only.
- Weak memory orders: the models are sequentially consistent; the accesses that
  are steps are the ones the code orders with acquire and release.
