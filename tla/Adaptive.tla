------------------------------ MODULE Adaptive ------------------------------
(***************************************************************************)
(* Adaptive mode (arc/runtime.hpp): a cell belongs to one authority, the   *)
(* inline engine of the thread that allocated it (local) or the worker     *)
(* (shared).  A thread that meets a cell of another thread's engine asks   *)
(* the owner to hand its component to the worker and blocks until the      *)
(* owner does so at one of its safe points.                                *)
(*                                                                         *)
(* All engines write one reference table, eng; a local engine has its own  *)
(* candidates, loc[p].  Only the owner touches its local cells, so what it *)
(* does with them between two accesses another thread can see is one step. *)
(* A mutator opens once and for all, so a token is the mutator's number,   *)
(* and an owner that has closed (registry state Free) is one that no       *)
(* longer accepts requests.                                                *)
(*                                                                         *)
(* The program keeps what the runtime asks of it: it operates on an object *)
(* only while the object is reachable, and drops the last reference to a   *)
(* shared object only when no other thread is adding a root to it.         *)
(***************************************************************************)
EXTENDS AarcRuntime

CONSTANTS
    Givers,        \* mutators whose local cells other threads refer to
    CloseAlone,    \* TRUE: a mutator closes only while no other asks for its cells
    MaxAttempts    \* retries of one operation (8 in the code)

ASSUME AdaptiveAssumption ==
    Givers \subseteq Producers /\ CloseAlone \in BOOLEAN /\ MaxAttempts \in Nat \ {0}

VARIABLES
    regime,     \* of each slot: "local", "promoting", "shared"
    loc,        \* candidates of each mutator's local engine: [zero, marks, stack]
    pc,         \* where each mutator is in its call: [at, op, a, b, target, gate, tries, ret]
    accepting,  \* of each owner's gate
    requests,   \* of each owner's gate: [from, root, reserve]
    poll,       \* promoteFlag_
    served,     \* requests an owner has taken and not answered yet, with what it reserved
    handing,    \* cells an owner has frozen and not committed yet
    outcome     \* of the request each mutator waits for

gateVars == <<accepting, requests, poll, served, outcome>>
adaptiveVars == <<regime, loc, pc, handing, gateVars>>
allVars == <<vars, adaptiveVars>>

NoTarget == <<NoOwner, 0>>   \* kNullHandle
NoCandidates == [zero |-> {}, marks |-> {}, stack |-> {}]

Call(op, a, b) ==
    [at |-> "safe", op |-> op, a |-> a, b |-> b, target |-> NoTarget, gate |-> 0, tries |-> 0,
     ret |-> "none"]

Idle == [Call("none", NoTarget, NoTarget) EXCEPT !.at = "idle"]

\* Every gate is open and no hand-off is under way.
GatesOpen ==
    /\ loc = [p \in Producers |-> NoCandidates]
    /\ pc = [p \in Producers |-> Idle]
    /\ accepting = [p \in Producers |-> TRUE]
    /\ requests = [p \in Producers |-> {}] /\ served = [p \in Producers |-> {}]
    /\ poll = [p \in Producers |-> FALSE]
    /\ handing = [p \in Producers |-> {}]
    /\ outcome = [p \in Producers |-> "pending"]

AdaptiveInit ==
    /\ Init /\ GatesOpen
    /\ regime = [c \in Cells |-> "shared"]

-----------------------------------------------------------------------------
(* Authority *)

OwnerOf(h) == pool.owner[Index(h)]

IsLocalOf(p, c) == pool.live[c] /\ regime[c] = "local" /\ pool.owner[c] = p

\* classify: who may operate on a valid handle.
Authority(p, h) ==
    IF regime[Index(h)] = "shared" THEN "SharedWorker"
    ELSE IF regime[Index(h)] = "local" /\ OwnerOf(h) = p THEN "MyLocal"
    ELSE "Foreign"

-----------------------------------------------------------------------------
(* The local engine *)

LocalView(p) ==
    [eng EXCEPT !.zero = loc[p].zero, !.marks = loc[p].marks, !.stack = loc[p].stack]

\* A result of p's local engine goes back to the table and p's candidates.
SetLocal(p, e) ==
    /\ eng' = [e EXCEPT !.zero = eng.zero, !.marks = eng.marks, !.stack = eng.stack]
    /\ loc' = [loc EXCEPT ![p] = [zero |-> e.zero, marks |-> e.marks, stack |-> e.stack]]

RECURSIVE Sweep(_)

\* sweep() on s = [e, pl, freed]: zero candidates, then cycle passes, to a fixed point.
Sweep(s) ==
    IF s.e.zero # {}
    THEN LET c == CHOOSE x \in s.e.zero : TRUE
             popped == [s.e EXCEPT !.zero = @ \ {c}]
         IN IF IsZeroGarbage(popped, s.pl, c)
            THEN Sweep([e |-> ReclaimCell(popped, s.pl, c), pl |-> FreeSlots(s.pl, {c}),
                        freed |-> s.freed \cup {c}])
            ELSE Sweep([s EXCEPT !.e = popped])
    ELSE IF s.e.stack # {}
    THEN LET G == GarbageIn(s.e, s.pl)
         IN Sweep([e |-> ReclaimCycles(s.e, s.pl, G), pl |-> FreeSlots(s.pl, G),
                   freed |-> s.freed \cup G])
    ELSE s

SweptNot(e, pl) == [e |-> e, pl |-> pl, freed |-> {}]

Swept(e, pl) == Sweep([e |-> e, pl |-> pl, freed |-> {}])

ClosureLocalForward(e, pl, p, seeds) ==
    LET mine == {c \in Cells : pl.live[c] /\ regime[c] = "local" /\ pl.owner[c] = p}
    IN ReachIn(mine, GraphOf(e, pl), seeds)

\* closureLocal: the seeds and every local cell of p connected to them, in either
\* direction, by edge records.
ClosureLocal(e, pl, p, seeds) ==
    LET mine == {c \in Cells : pl.live[c] /\ regime[c] = "local" /\ pl.owner[c] = p}
        links == {q \in mine \X mine : \E h, k \in Handles :
                     /\ {Index(h), Index(k)} = {q[1], q[2]}
                     /\ e.out[h, k] > 0 /\ Valid(pl, h) /\ Valid(pl, k)}
    IN ReachIn(mine, links, seeds)

\* promoteLocalComponent up to the freeze, with the local engine at e: settle the
\* candidates, keep the seeds that survive, freeze their component, forget its cells.
Freeze(p, e, seeds, return) ==
    LET s == Swept(e, pool)
        kept == {c \in seeds : s.pl.live[c] /\ s.pl.gen[c] = pool.gen[c]}
        comp == ClosureLocal(s.e, s.pl, p, kept)
        forgot == [s.e EXCEPT !.zero = @ \ comp, !.marks = @ \ comp, !.stack = @ \ comp]
    IN /\ SetLocal(p, forgot)
       /\ pool' = s.pl /\ DropFields(s.freed)
       /\ regime' = [c \in Cells |-> IF c \in comp THEN "promoting" ELSE regime[c]]
       /\ handing' = [handing EXCEPT ![p] = comp]
       /\ pc' = [pc EXCEPT ![p].at = "commit", ![p].ret = return]
       /\ UNCHANGED <<bag, batch, queue, phase, closed, ops, wpc, roundVars>>

\* The cells change hands one at a time, other threads and the worker looking on.
Commit(p) ==
    /\ pc[p].at = "commit"
    /\ \E c \in handing[p] :
        /\ regime' = [regime EXCEPT ![c] = "shared"]
        /\ handing' = [handing EXCEPT ![p] = @ \ {c}]
    /\ UNCHANGED <<vars, loc, pc, gateVars>>

-----------------------------------------------------------------------------
(* The gate *)

\* A request that names a live local cell of its owner.
Serveable(p, r) == Valid(pool, r.root) /\ IsLocalOf(p, Index(r.root))

ReserveNone(e, R) == e

\* A requester that adds a root has it added here, before anything is swept.
Reserve(e, R) ==
    LET wanted == {r \in R : r.reserve} IN
    [e EXCEPT !.root = [c \in Cells |->
        @[c] + Cardinality({r \in wanted : Index(r.root) = c})]]

TakeRequestsDropped(p, return) ==
    LET able == {r \in requests[p] : Serveable(p, r)} IN
    /\ requests[p] # {} /\ batch[p] = <<>> /\ phase[p] = "run"
    /\ requests' = [requests EXCEPT ![p] = {}]
    /\ served' = [served EXCEPT ![p] =
                     {[r EXCEPT !.reserve = @ /\ r \in able] : r \in able}]
    /\ IF able = {}
       THEN /\ pc' = [pc EXCEPT ![p].at = "commit", ![p].ret = return]
            /\ UNCHANGED <<vars, regime, loc, handing>>
       ELSE Freeze(p, Reserve(LocalView(p), able), {Index(r.root) : r \in able}, return)
    /\ UNCHANGED <<accepting, poll, outcome>>

\* servePromotions up to the freeze: take all requests, reserve the roots asked for.
TakeRequests(p, return) ==
    LET able == {r \in requests[p] : Serveable(p, r)} IN
    /\ requests[p] # {} /\ batch[p] = <<>> /\ phase[p] = "run"
    /\ requests' = [requests EXCEPT ![p] = {}]
    /\ served' = [served EXCEPT ![p] =
                     {[r EXCEPT !.reserve = @ /\ r \in able] : r \in requests[p]}]
    /\ IF able = {}
       THEN /\ pc' = [pc EXCEPT ![p].at = "commit", ![p].ret = return]
            /\ UNCHANGED <<vars, regime, loc, handing>>
       ELSE Freeze(p, Reserve(LocalView(p), able), {Index(r.root) : r \in able}, return)
    /\ UNCHANGED <<accepting, poll, outcome>>

\* servePromotions finds nothing requested.
NoRequests(p, return) ==
    /\ requests[p] = {} /\ batch[p] = <<>> /\ phase[p] = "run"
    /\ poll' = [poll EXCEPT ![p] = FALSE]
    /\ pc' = [pc EXCEPT ![p] = IF return = "idle" THEN Idle ELSE [pc[p] EXCEPT !.at = return]]
    /\ UNCHANGED <<vars, regime, loc, handing, accepting, requests, served, outcome>>

OutcomeOf(r) ==
    IF ~Valid(pool, r.root) THEN "failed"
    ELSE IF regime[Index(r.root)] # "shared" THEN "failed"
    ELSE IF r.reserve THEN "reserved" ELSE "shared"

\* q still waits for the answer of p.
AwaitsAnswer(q, p) == pc[q].at \in {"pushed", "wait"} /\ pc[q].gate = p

\* The hand-off is over: answer the requests it served, if any, and go on.
Finish(p) ==
    /\ pc[p].at = "commit" /\ handing[p] = {}
    /\ outcome' = [q \in Producers |->
          IF \E r \in served[p] : r.from = q /\ AwaitsAnswer(q, p)
          THEN OutcomeOf(CHOOSE r \in served[p] : r.from = q) ELSE outcome[q]]
    /\ poll' = IF served[p] = {} THEN poll ELSE [poll EXCEPT ![p] = requests[p] # {}]
    /\ served' = [served EXCEPT ![p] = {}]
    /\ pc' = [pc EXCEPT ![p] =
          IF pc[p].ret = "idle" THEN Idle ELSE [pc[p] EXCEPT !.at = pc[p].ret, !.ret = "none"]]
    /\ UNCHANGED <<vars, regime, loc, handing, accepting, requests>>

-----------------------------------------------------------------------------
(* How a call ends *)

Return(p) == pc' = [pc EXCEPT ![p] = Idle]

\* What the call gives the program once it succeeds; what it takes away is gone
\* from the moment of the call.
Succeed(p) ==
    LET o == pc[p] IN
    /\ bag' = IF o.op = "RootAdd" THEN [bag EXCEPT ![p][o.a] = @ + 1] ELSE bag
    /\ fields' = IF o.op = "EdgeAdd" THEN [fields EXCEPT ![o.a, o.b] = @ + 1] ELSE fields
    /\ Return(p)

\* The call returns false: rootRemove puts its root back into the bag.
GiveUp(p) ==
    LET o == pc[p] IN
    /\ bag' = IF o.op = "RootRemove" THEN [bag EXCEPT ![p][o.a] = @ + 1] ELSE bag
    /\ fields' = IF o.op = "EdgeRemove" THEN [fields EXCEPT ![o.a, o.b] = @ + 1] ELSE fields
    /\ Return(p)
    /\ UNCHANGED <<eng, pool, batch, queue, phase, closed, ops, wpc, roundVars,
                   regime, loc, handing, gateVars>>

\* The next attempt, as long as there is one.
Retry(p) ==
    IF pc[p].tries + 1 < MaxAttempts
    THEN /\ pc' = [pc EXCEPT ![p].at = "safe", ![p].tries = @ + 1, ![p].target = NoTarget,
                           ![p].gate = 0]
         /\ UNCHANGED <<vars, regime, loc, handing, gateVars>>
    ELSE GiveUp(p)

-----------------------------------------------------------------------------
(* promoteHandle: make the target shared before operating on it *)

\* The target died, or its owner takes no request any more.
PromoteFails(p) ==
    LET h == pc[p].target IN
    /\ pc[p].at = "promote"
    /\ \/ ~Valid(pool, h)
       \/ /\ Authority(p, h) = "Foreign" /\ regime[Index(h)] = "local"
          /\ batch[p] = <<>> /\ ~accepting[OwnerOf(h)]
    /\ GiveUp(p)

PromoteDone(p) ==
    LET h == pc[p].target IN
    /\ pc[p].at = "promote" /\ Valid(pool, h) /\ regime[Index(h)] = "shared"
    /\ Retry(p)

\* The target is this mutator's own: hand its component over right here.
PromoteOwn(p) ==
    LET h == pc[p].target IN
    /\ pc[p].at = "promote" /\ Valid(pool, h) /\ IsLocalOf(p, Index(h))
    /\ batch[p] = <<>> /\ phase[p] = "run"
    /\ Freeze(p, LocalView(p), {Index(h)}, "promote")
    /\ UNCHANGED gateVars

\* promoteForeign: register with the owner's gate under its lock ...
PushRequest(p) ==
    LET h == pc[p].target
        q == OwnerOf(h) IN
    /\ pc[p].at = "promote" /\ Valid(pool, h)
    /\ regime[Index(h)] = "local" /\ q # p /\ accepting[q]
    /\ batch[p] = <<>> /\ phase[p] = "run"
    /\ requests' = [requests EXCEPT ![q] = @ \cup
                       {[from |-> p, root |-> h, reserve |-> pc[p].op = "RootAdd"]}]
    /\ outcome' = [outcome EXCEPT ![p] = "pending"]
    /\ pc' = [pc EXCEPT ![p].at = "pushed", ![p].gate = q]
    /\ UNCHANGED <<vars, regime, loc, handing, accepting, poll, served>>

\* ... then raise the flag its owner polls.
RaiseFlag(p) ==
    /\ pc[p].at = "pushed"
    /\ poll' = [poll EXCEPT ![pc[p].gate] = TRUE]
    /\ pc' = [pc EXCEPT ![p].at = "wait"]
    /\ UNCHANGED <<vars, regime, loc, handing, accepting, requests, served, outcome>>

\* The wait ends with an answer, or because the owner no longer accepts.
Wait(p) ==
    /\ pc[p].at = "wait"
    /\ outcome[p] # "pending" \/ ~accepting[pc[p].gate]
    /\ CASE outcome[p] = "reserved" ->
              /\ Succeed(p)
              /\ UNCHANGED <<eng, pool, batch, queue, phase, closed, ops, wpc, roundVars,
                             regime, loc, handing, gateVars>>
         [] outcome[p] = "failed" -> GiveUp(p)
         [] outcome[p] \in {"shared", "pending"} -> Retry(p)

-----------------------------------------------------------------------------
(* maybeServe, at the start of every attempt of every operation *)

Serve(p) ==
    LET next == IF pc[p].op = "Poll" THEN "idle" ELSE "do" IN
    /\ pc[p].at = "safe" /\ (poll[p] \/ pc[p].op = "Poll")
    /\ TakeRequests(p, next) \/ NoRequests(p, next)

\* The operation itself may run: nothing was pending, or it has been served.
Ready(p, operations) ==
    /\ pc[p].op \in operations /\ phase[p] = "run"
    /\ pc[p].at = "do" \/ (pc[p].at = "safe" /\ ~poll[p])

\* allocLocal: a slot of the pool for the local engine, which records the root.
AllocLocal(p) ==
    /\ Ready(p, {"AllocLocal"}) /\ Return(p)
    /\ \E c \in pool.avail :
        LET h == <<c, pool.gen[c]>>
            pl == Activate(pool, c, p) IN
        /\ pool' = pl
        /\ SetLocal(p, Process(LocalView(p), pl, Msg("RootAdd", h, h)))
        /\ regime' = [regime EXCEPT ![c] = "local"]
        /\ bag' = [bag EXCEPT ![p][h] = @ + 1]
    /\ UNCHANGED <<fields, batch, queue, phase, closed, ops, wpc, roundVars, handing, gateVars>>

\* allocShared: the same for the worker, which is told by a message.
AllocShared(p) ==
    /\ Ready(p, {"AllocShared"}) /\ Return(p)
    /\ \E c \in pool.avail :
        LET h == <<c, pool.gen[c]>> IN
        /\ pool' = Activate(pool, c, p)
        /\ regime' = [regime EXCEPT ![c] = "shared"]
        /\ Submit(p, Msg("RootAdd", h, h))
        /\ bag' = [bag EXCEPT ![p][h] = @ + 1]
    /\ UNCHANGED <<fields, closed, ops, loc, handing, gateVars>>

AllocFails(p) ==
    /\ Ready(p, {"AllocLocal", "AllocShared"}) /\ pool.avail = {}
    /\ Return(p) /\ UNCHANGED <<vars, regime, loc, handing, gateVars>>

\* collectLocal, after its safe point and its flush.
CollectLocal(p) ==
    /\ Ready(p, {"CollectLocal"}) /\ batch[p] = <<>> /\ Return(p)
    /\ LET s == Swept(LocalView(p), pool) IN
        SetLocal(p, s.e) /\ pool' = s.pl /\ DropFields(s.freed)
    /\ UNCHANGED <<bag, batch, queue, phase, closed, ops, wpc, roundVars,
                   regime, handing, gateVars>>

CountedOps == {"RootAdd", "RootRemove", "EdgeAdd", "EdgeRemove"}

\* The handles a counted operation is about.
Operands(p) == {pc[p].a, pc[p].b}

\* adaptiveRootOp, adaptiveEdgeOp: the endpoint to promote when the two are not
\* under one authority this mutator can reach.
Blocking(p) ==
    LET sa == Authority(p, pc[p].a)
        da == Authority(p, pc[p].b)
    IN IF da = "SharedWorker" THEN pc[p].a
       ELSE IF sa = "SharedWorker" \/ da = "MyLocal" THEN pc[p].b
       ELSE IF sa = "MyLocal" THEN pc[p].b
       ELSE pc[p].a

AllUnder(p, authority) == \A h \in Operands(p) : Authority(p, h) = authority

\* One attempt of an operation on handles that are still valid: inline when all are
\* this mutator's, through the worker when all are shared, else promote and retry.
Attempt(p) ==
    LET o == pc[p]
        m == Msg(o.op, o.a, o.b) IN
    /\ Ready(p, CountedOps) /\ \A h \in Operands(p) : Valid(pool, h)
    /\ CASE AllUnder(p, "MyLocal") ->
              /\ SetLocal(p, Process(LocalView(p), pool, m)) /\ Succeed(p)
              /\ UNCHANGED <<batch, queue, phase, wpc, roundVars>>
         [] AllUnder(p, "SharedWorker") ->
              Submit(p, m) /\ Succeed(p) /\ UNCHANGED loc
         [] OTHER ->
              /\ pc' = [pc EXCEPT ![p].at = "promote", ![p].target = Blocking(p)]
              /\ UNCHANGED <<eng, bag, fields, batch, queue, phase, wpc, roundVars, loc>>
    /\ UNCHANGED <<pool, closed, ops, regime, handing, gateVars>>

AttemptFails(p) ==
    /\ Ready(p, CountedOps) /\ \E h \in Operands(p) : ~Valid(pool, h)
    /\ GiveUp(p)

-----------------------------------------------------------------------------
(* Calls *)

\* Other threads refer to a local cell only when its owner gives it away.
MayRefer(p, h) == Authority(p, h) = "Foreign" => OwnerOf(h) \in Givers

\* After p loses roots and fields, what another thread is adding a root to is still
\* reachable, or is in the hands of p's own engine, or has its root reserved.
KeepsTargets(p, held, edges) ==
    LET reach == ReachIn(Handles, edges, held \cup UNION {Held(q) : q \in Producers \ {p}}) IN
    \A q \in Producers \ {p} : pc[q].op = "RootAdd" =>
        \/ pc[q].a \in reach
        \/ IsLocalOf(p, Index(pc[q].a))
        \/ \E o \in Producers : \E r \in served[o] : r.from = q /\ r.reserve
        \/ pc[q].at = "wait" /\ outcome[q] = "reserved"

Begin(p, op, a, b) ==
    /\ pc[p].at = "idle" /\ pc' = [pc EXCEPT ![p] = Call(op, a, b)]
    /\ UNCHANGED <<regime, loc, handing, gateVars>>

\* An operation of the program, within the bound.
BeginCounted(p, op, a, b) ==
    /\ CanOperate(p) /\ Begin(p, op, a, b) /\ ops' = ops + 1
    /\ UNCHANGED <<eng, pool, batch, queue, phase, closed, wpc, roundVars>>

\* On an exhausted pool the call changes nothing but what its safe point does.
CallAlloc(p) ==
    /\ pool.avail # {}
    /\ \E op \in {"AllocLocal", "AllocShared"} : BeginCounted(p, op, NoTarget, NoTarget)
    /\ UNCHANGED <<bag, fields>>

CallRootAdd(p, h) ==
    /\ h \in Reachable /\ Valid(pool, h) /\ MayRefer(p, h)
    /\ BeginCounted(p, "RootAdd", h, h) /\ UNCHANGED <<bag, fields>>

CallRootRemove(p, h) ==
    /\ bag[p][h] > 0 /\ MayRefer(p, h)
    /\ KeepsTargets(p, {k \in Handles : bag[p][k] > (IF k = h THEN 1 ELSE 0)}, Edges)
    /\ BeginCounted(p, "RootRemove", h, h)
    /\ Lose(p, h) /\ UNCHANGED fields

\* A thread takes over a field another thread has written after an awaitQuiesce: the
\* worker drains slot by slot and would see the removal first.
FieldIsSettled(p, a, b) ==
    \A q \in Producers \ {p} : \A m \in Range(batch[q]) \cup Range(queue[q]) :
        m.op = "EdgeAdd" => <<m.a, m.b>> # <<a, b>>

\* A thread stores a reference between two objects it holds.
CallEdgeAdd(p, a, b) ==
    /\ MayWrite(p, a) /\ b \in Held(p) /\ MayRefer(p, a) /\ MayRefer(p, b)
    /\ fields[a, b] < MaxFields
    /\ BeginCounted(p, "EdgeAdd", a, b) /\ UNCHANGED <<bag, fields>>

CallEdgeRemove(p, a, b) ==
    /\ MayWrite(p, a) /\ b \in Held(p) /\ MayRefer(p, a) /\ MayRefer(p, b)
    /\ fields[a, b] > 0 /\ FieldIsSettled(p, a, b)
    /\ KeepsTargets(p, Held(p), {q \in Edges : q # <<a, b>> \/ fields[q] > 1})
    /\ BeginCounted(p, "EdgeRemove", a, b)
    /\ fields' = [fields EXCEPT ![a, b] = @ - 1] /\ UNCHANGED bag

\* Safe points the program owes the runtime; without anything to do they change nothing.
CallCollect(p) ==
    /\ ~closed[p] /\ phase[p] = "run" /\ loc[p] # NoCandidates
    /\ Begin(p, "CollectLocal", NoTarget, NoTarget) /\ UNCHANGED vars

CallPoll(p) ==
    /\ ~closed[p] /\ phase[p] = "run" /\ (poll[p] \/ requests[p] # {})
    /\ Begin(p, "Poll", NoTarget, NoTarget) /\ UNCHANGED vars

\* close, closeOwner: the gate shuts first ...
CallClose(p) ==
    /\ CanOperate(p) /\ pc[p].at = "idle" /\ batch[p] = <<>>
    /\ CloseAlone => \A q \in Producers \ {p} : \A h \in Operands(q) \cap Handles : OwnerOf(h) # p
    /\ closed' = [closed EXCEPT ![p] = TRUE] /\ ops' = ops + 1
    /\ accepting' = [accepting EXCEPT ![p] = FALSE]
    /\ pc' = [pc EXCEPT ![p] = [Idle EXCEPT !.at = "shut", !.op = "Close"]]
    /\ UNCHANGED <<eng, pool, bag, fields, batch, queue, phase, wpc, roundVars,
                   regime, loc, handing, requests, poll, served, outcome>>

\* ... the requests that came in before are served ...
CloseServe(p) ==
    /\ pc[p].at = "shut"
    /\ TakeRequests(p, "handover") \/ NoRequests(p, "handover")

\* ... every local cell left is handed to the worker in one pass ...
CloseHandover(p) ==
    LET mine == {c \in Cells : IsLocalOf(p, c)} IN
    /\ pc[p].at = "handover"
    /\ IF mine = {}
       THEN pc' = [pc EXCEPT ![p].at = "giveback"] /\ UNCHANGED <<vars, regime, loc, handing>>
       ELSE Freeze(p, LocalView(p), mine, "giveback")
    /\ UNCHANGED gateVars

\* ... and every root of the bag is given back through the worker.
CloseGiveBack(p, h) ==
    /\ pc[p].at = "giveback"
    /\ KeepsTargets(p, {k \in Handles : bag[p][k] > (IF k = h THEN 1 ELSE 0)}, Edges)
    /\ CloseRoot(p, h) /\ UNCHANGED adaptiveVars

-----------------------------------------------------------------------------

\* A step of a call in progress.
Proceed(p) ==
    \/ Serve(p) \/ Commit(p) \/ Finish(p)
    \/ PromoteFails(p) \/ PromoteDone(p) \/ PromoteOwn(p) \/ PushRequest(p)
    \/ RaiseFlag(p) \/ Wait(p)
    \/ AllocLocal(p) \/ AllocShared(p) \/ AllocFails(p) \/ CollectLocal(p)
    \/ Attempt(p) \/ AttemptFails(p)
    \/ CloseServe(p) \/ CloseHandover(p)
    \/ \E h \in Handles : CloseGiveBack(p, h)

Publish(p) == (Flush(p) \/ Push(p)) /\ UNCHANGED adaptiveVars

Calls(p) ==
    \/ CallAlloc(p) \/ CallClose(p) \/ CallCollect(p) \/ CallPoll(p)
    \/ \E h \in Handles : CallRootAdd(p, h) \/ CallRootRemove(p, h)
    \/ \E a, b \in Handles : CallEdgeAdd(p, a, b) \/ CallEdgeRemove(p, a, b)

Worker == WorkerStep /\ UNCHANGED adaptiveVars

AdaptiveNext == Worker \/ \E p \in Producers : Proceed(p) \/ Publish(p) \/ Calls(p)

\* The call mutator p is in can take its next step.
CanProceed(p) ==
    LET h == pc[p].target
        flushed == batch[p] = <<>> /\ phase[p] = "run" IN
    CASE pc[p].at \in {"commit", "pushed"} -> TRUE
      [] pc[p].at \in {"safe", "do"} -> flushed
      [] pc[p].at \in {"shut", "handover"} -> flushed
      [] pc[p].at = "promote" -> ~Valid(pool, h) \/ (regime[Index(h)] # "promoting" /\ flushed)
      [] pc[p].at = "wait" -> outcome[p] # "pending" \/ ~accepting[pc[p].gate]
      [] OTHER -> FALSE

\* A mutator whose call can go on is scheduled (weak fairness of its steps, written
\* out), one that stops operating publishes its batch, and an owner keeps polling
\* while its gate has a request (the contract of pollPromotions).
AdaptiveFairness ==
    \A p \in Producers :
        /\ []<>~CanProceed(p) \/ []<><<pc'[p] # pc[p]>>_pc
        /\ WF_allVars(Publish(p)) /\ WF_allVars(CallPoll(p))

AdaptiveSpec == AdaptiveInit /\ [][AdaptiveNext]_allVars /\ AdaptiveFairness

-----------------------------------------------------------------------------
(* Properties *)

\* Every candidate list and every message belongs to the authority of its cell: the
\* worker holds none of a live local cell, an owner only of its own local cells.
OneAuthority ==
    /\ \A c \in eng.zero \cup eng.marks \cup eng.stack : pool.live[c] => regime[c] # "local"
    /\ \A p \in Producers :
        /\ \A c \in loc[p].zero \cup loc[p].marks \cup loc[p].stack : pool.live[c] => IsLocalOf(p, c)
        /\ \A i \in 1..Len(queue[p]) : \A h \in {queue[p][i].a, queue[p][i].b} :
              Valid(pool, h) => regime[Index(h)] # "local"

\* No edge record joins a local cell with a shared one or with another owner's
\* (rule 6): each engine's scan stays inside its authority.
NoCrossEdge ==
    \A h, k \in Handles : eng.out[h, k] > 0 /\ Valid(pool, h) /\ Valid(pool, k) =>
        /\ regime[Index(h)] = "local" <=> regime[Index(k)] = "local"
        /\ regime[Index(h)] = "local" => OwnerOf(h) = OwnerOf(k)

\* Who owns a cell decides alone about it, through every promotion and close, in the
\* lists of both engines and in the edges between cells.
RegimesApart == OneAuthority /\ NoCrossEdge

AllQuiet ==
    /\ Quiet /\ \A p \in Producers : loc[p] = NoCandidates /\ phase[p] = "run"
    /\ \A p \in Producers : pc[p].at = "idle" \/ (pc[p].at = "giveback" /\ Held(p) = {})

\* When no call is in progress and nothing is queued, every live cell of either
\* authority is reachable, and the one table agrees with the program's roots and
\* fields: no hand-off lost, doubled or stranded a root, an edge or a candidate.
NothingLost ==
    /\ eng.errors = {}
    /\ AllQuiet => /\ NoGarbageLeft /\ TableIsExact

\* A thread that has asked for another thread's cell gets an answer.
RequestsReturn == \A p \in Producers : pc[p].at = "wait" ~> pc[p].at # "wait"
=============================================================================
