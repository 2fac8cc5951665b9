----------------------------- MODULE Publication -----------------------------
(***************************************************************************)
(* The publication protocol of the AARC runtime (arc/runtime.hpp,          *)
(* core/producer_slot.hpp): producers stage reference-count messages in a  *)
(* batch, publish the batch through a single-producer ring, and a worker   *)
(* drains all rings up to a common tail snapshot.  The worker may reclaim  *)
(* (sweep) only when the snapshot is a stable cut: every publication       *)
(* counter pubSeq even and unchanged around the snapshot.                  *)
(*                                                                         *)
(* Messages carry no content here: a ring is its two free-running          *)
(* counters head and tail, and issued counts the messages a mutator has    *)
(* handed to publish().  One step is one access to a variable that another *)
(* thread can see.  A producer is named by its index in slots_, so slots   *)
(* are registered in the order 1, 2, ...; slotsEpoch_ is bumped once per   *)
(* registration and therefore equals nslots.                               *)
(***************************************************************************)
EXTENDS Integers, FiniteSets

CONSTANTS
    NSlots,      \* number of mutators that may register (slots_)
    Cap,         \* kQueueCapacity: ring slots of one producer
    MaxSpan,     \* kMaxSpan: largest run of ring slots reserved at once
    BatchLimit,  \* batchLimit: messages per published batch
    SpanPath,    \* spanPath_: write into the ring (TRUE) or into batch[] (FALSE)
    MaxIssue,    \* bound: messages one producer issues
    MaxTotal,    \* bound: messages all producers issue
    MaxTicket    \* bound: awaitQuiesce() calls in one behaviour

ASSUME PublicationAssumption ==
    /\ NSlots \in Nat \ {0} /\ Cap \in Nat \ {0} /\ MaxSpan \in Nat \ {0}
    /\ BatchLimit \in 1..Cap
    /\ SpanPath \in BOOLEAN
    /\ MaxIssue \in Nat /\ MaxTotal \in Nat /\ MaxTicket \in Nat

VARIABLES
    nslots,      \* number of registered slots, also slotsEpoch_
    ppc,         \* where each producer thread is in publish/flush/awaitQuiesce
    pubSeq,      \* publication counter, odd while a batch is open
    batchN,      \* messages in the open batch
    staged,      \* messages of the batch the worker cannot see yet
    spanLeft,    \* ring slots still reserved for this producer
    head,        \* consumer position of each ring
    tail,        \* producer position of each ring
    quiescing,   \* the thread is inside awaitQuiesce()
    ticket,      \* the ticket it waits for, 0 when it waits for none
    workEpoch, quiesceIssued, quiesceCompleted, stop,
    wpc,         \* where the worker is in workerLoop/doRound
    wi,          \* its loop index over the round's slots
    roundN,      \* roundSlots_.size()
    slotsBefore, pre, tails, stable, roundWork, seenWork, serveThrough,
    issued,      \* history: messages handed to publish()
    cut,         \* history: issued when the worker had read every pre counter
    swept,       \* history: head at the last completed sweep
    issuedAt     \* history: issued when each ticket was drawn

prodVars  == <<nslots, ppc, pubSeq, batchN, staged, spanLeft, tail, issued>>
syncVars  == <<workEpoch, quiesceIssued, quiesceCompleted, stop>>
waitVars  == <<quiescing, ticket, issuedAt>>
roundVars == <<wi, roundN, slotsBefore, pre, tails, stable>>
loopVars  == <<roundWork, seenWork, serveThrough>>
vars == <<prodVars, syncVars, waitVars, roundVars, loopVars, head, wpc, cut, swept>>

Slots   == 1..NSlots
Tickets == 1..MaxTicket
Even(n) == n % 2 = 0

-----------------------------------------------------------------------------
Init ==
    /\ nslots = 0
    /\ ppc = [p \in Slots |-> "none"]
    /\ pubSeq = [p \in Slots |-> 0]
    /\ batchN = [p \in Slots |-> 0]
    /\ staged = [p \in Slots |-> 0]
    /\ spanLeft = [p \in Slots |-> 0]
    /\ head = [p \in Slots |-> 0]
    /\ tail = [p \in Slots |-> 0]
    /\ quiescing = [p \in Slots |-> FALSE]
    /\ ticket = [p \in Slots |-> 0]
    /\ workEpoch = 0 /\ quiesceIssued = 0 /\ quiesceCompleted = 0
    /\ stop = FALSE
    /\ wpc = "wait" /\ wi = 1 /\ roundN = 0 /\ slotsBefore = 0
    /\ pre = [p \in Slots |-> 0] /\ tails = [p \in Slots |-> 0]
    /\ stable = FALSE
    /\ roundWork = 0 /\ seenWork = 0 /\ serveThrough = 0
    /\ issued = [p \in Slots |-> 0] /\ cut = [p \in Slots |-> 0]
    /\ swept = [p \in Slots |-> 0]
    /\ issuedAt = [t \in Tickets |-> [p \in Slots |-> 0]]

Goto(p, to) == ppc' = [ppc EXCEPT ![p] = to]

\* notify_one / notify_all under cvMu_: a worker asleep in cvWork_.wait
\* re-evaluates its predicate; a worker that is not asleep is unaffected.
NotifyWork == wpc' = IF wpc = "asleep" THEN "wait" ELSE wpc

workerFrame == <<roundVars, loopVars, head, cut, swept>>

-----------------------------------------------------------------------------
(* Producer side *)

\* makeMutator: append a slot and bump slotsEpoch_ under slotsMu_.
Register(p) ==
    /\ p = nslots + 1 /\ ~stop
    /\ nslots' = p
    /\ Goto(p, "idle")
    /\ UNCHANGED <<pubSeq, batchN, staged, spanLeft, tail, issued, syncVars,
                   waitVars, workerFrame, wpc>>

\* The messages issued, those being staged included.
Begun == {m \in Slots \X (1..MaxIssue) :
             m[2] <= issued[m[1]] + (IF ppc[m[1]] = "stage" THEN 1 ELSE 0)}

\* publish(), first statement: the first message of a batch opens the window.
Open(p) ==
    /\ ppc[p] = "idle" /\ issued[p] < MaxIssue /\ Cardinality(Begun) < MaxTotal
    /\ pubSeq' = [pubSeq EXCEPT ![p] = IF batchN[p] = 0 THEN @ + 1 ELSE @]
    /\ Goto(p, "stage")
    /\ UNCHANGED <<nslots, batchN, staged, spanLeft, tail, issued, syncVars,
                   waitVars, workerFrame, wpc>>

\* writeToSpan: the reserved run is exhausted, publish what it holds.
SpanCommit(p) ==
    /\ SpanPath /\ ppc[p] = "stage" /\ spanLeft[p] = 0 /\ staged[p] > 0
    /\ tail' = [tail EXCEPT ![p] = @ + staged[p]]
    /\ staged' = [staged EXCEPT ![p] = 0]
    /\ UNCHANGED <<nslots, ppc, pubSeq, batchN, spanLeft, issued, syncVars,
                   waitVars, workerFrame, wpc>>

Min2(a, b) == IF a < b THEN a ELSE b

BeginSpanUnread(p) == Min2(Cap - (tail[p] % Cap), MaxSpan)

\* SpscQueue::beginSpan: contiguous free ring slots from tail, at most MaxSpan.
BeginSpan(p) ==
    Min2(Min2(Cap - (tail[p] - head[p]), Cap - (tail[p] % Cap)), MaxSpan)

\* writeToSpan: reserve a run; the producer spins while the ring is full.
SpanReserve(p) ==
    /\ SpanPath /\ ppc[p] = "stage" /\ spanLeft[p] = 0 /\ staged[p] = 0
    /\ BeginSpan(p) > 0
    /\ spanLeft' = [spanLeft EXCEPT ![p] = BeginSpan(p)]
    /\ UNCHANGED <<nslots, ppc, pubSeq, batchN, staged, tail, issued, syncVars,
                   waitVars, workerFrame, wpc>>

BatchFullLate(n) == n > BatchLimit

\* publish(): the batch reached its flush threshold.
BatchFull(n) == n >= BatchLimit

\* publish(): put the message into the run or into batch[]; flush a full batch.
Stage(p) ==
    /\ ppc[p] = "stage"
    /\ SpanPath => spanLeft[p] > 0
    /\ spanLeft' = [spanLeft EXCEPT ![p] = IF SpanPath THEN @ - 1 ELSE @]
    /\ staged' = [staged EXCEPT ![p] = @ + 1]
    /\ batchN' = [batchN EXCEPT ![p] = @ + 1]
    /\ issued' = [issued EXCEPT ![p] = @ + 1]
    /\ Goto(p, IF BatchFull(batchN[p] + 1) THEN "flush" ELSE "idle")
    /\ UNCHANGED <<nslots, pubSeq, tail, syncVars, waitVars, workerFrame, wpc>>

\* flush() / willPark() with a non-empty batch.
Park(p) ==
    /\ ppc[p] = "idle" /\ batchN[p] > 0
    /\ Goto(p, "flush")
    /\ UNCHANGED <<nslots, pubSeq, batchN, staged, spanLeft, tail, issued,
                   syncVars, waitVars, workerFrame, wpc>>

\* flushSlot: one release store publishes the open run ...
FlushCommit(p) ==
    /\ SpanPath /\ ppc[p] = "flush"
    /\ tail' = [tail EXCEPT ![p] = @ + staged[p]]
    /\ staged' = [staged EXCEPT ![p] = 0]
    /\ Goto(p, "close")
    /\ UNCHANGED <<nslots, pubSeq, batchN, spanLeft, issued, syncVars, waitVars,
                   workerFrame, wpc>>

\* ... or the batch is pushed message by message, spinning while it is full.
FlushPush(p) ==
    /\ ~SpanPath /\ ppc[p] = "flush" /\ staged[p] > 0
    /\ tail[p] - head[p] < Cap
    /\ tail' = [tail EXCEPT ![p] = @ + 1]
    /\ staged' = [staged EXCEPT ![p] = @ - 1]
    /\ Goto(p, IF staged[p] = 1 THEN "close" ELSE "flush")
    /\ UNCHANGED <<nslots, pubSeq, batchN, spanLeft, issued, syncVars, waitVars,
                   workerFrame, wpc>>

\* The producer yields and tries again: the ring has no room for the next message.
Spin(p) ==
    /\ \/ SpanPath /\ ppc[p] = "stage" /\ spanLeft[p] = 0 /\ staged[p] = 0 /\ BeginSpan(p) = 0
       \/ ~SpanPath /\ ppc[p] = "flush" /\ staged[p] > 0 /\ tail[p] - head[p] = Cap
    /\ UNCHANGED vars

\* flushSlot: the batch is empty again, the window closes (even) ...
CloseWindow(p) ==
    /\ ppc[p] = "close"
    /\ batchN' = [batchN EXCEPT ![p] = 0]
    /\ pubSeq' = [pubSeq EXCEPT ![p] = @ + 1]
    /\ Goto(p, "bump")
    /\ UNCHANGED <<nslots, staged, spanLeft, tail, issued, syncVars, waitVars,
                   workerFrame, wpc>>

\* ... the work epoch moves ...
Bump(p) ==
    /\ ppc[p] = "bump"
    /\ workEpoch' = workEpoch + 1
    /\ Goto(p, "wake")
    /\ UNCHANGED <<nslots, pubSeq, batchN, staged, spanLeft, tail, issued,
                   quiesceIssued, quiesceCompleted, stop, waitVars, workerFrame, wpc>>

\* ... and the worker is notified under the mutex (wakeWorker).
Wake(p) ==
    /\ ppc[p] = "wake"
    /\ NotifyWork
    /\ Goto(p, IF quiescing[p] THEN "ticket" ELSE "idle")
    /\ UNCHANGED <<nslots, pubSeq, batchN, staged, spanLeft, tail, issued,
                   syncVars, waitVars, workerFrame>>

\* awaitQuiesce: flush the caller's own batch first.
AwaitQuiesce(p) ==
    /\ ppc[p] = "idle"
    /\ quiesceIssued + Cardinality({q \in Slots : quiescing[q] /\ ticket[q] = 0}) < MaxTicket
    /\ quiescing' = [quiescing EXCEPT ![p] = TRUE]
    /\ Goto(p, IF batchN[p] > 0 THEN "flush" ELSE "ticket")
    /\ UNCHANGED <<nslots, pubSeq, batchN, staged, spanLeft, tail, issued,
                   ticket, issuedAt, syncVars, workerFrame, wpc>>

\* quiesceIssued_.fetch_add(1) + 1
DrawTicket(p) ==
    /\ ppc[p] = "ticket" /\ quiesceIssued < MaxTicket
    /\ quiesceIssued' = quiesceIssued + 1
    /\ ticket' = [ticket EXCEPT ![p] = quiesceIssued + 1]
    /\ issuedAt' = [issuedAt EXCEPT ![quiesceIssued + 1] = issued]
    /\ Goto(p, "qwake")
    /\ UNCHANGED <<nslots, pubSeq, batchN, staged, spanLeft, tail, issued,
                   workEpoch, quiesceCompleted, stop, quiescing, workerFrame, wpc>>

QuiesceWake(p) ==
    /\ ppc[p] = "qwake"
    /\ NotifyWork
    /\ Goto(p, "qcheck")
    /\ UNCHANGED <<nslots, pubSeq, batchN, staged, spanLeft, tail, issued,
                   syncVars, waitVars, workerFrame>>

\* cvDone_.wait: leave when the ticket is completed, else sleep for a notify.
QuiesceCheck(p) ==
    /\ ppc[p] = "qcheck"
    /\ IF quiesceCompleted >= ticket[p]
       THEN /\ Goto(p, "idle")
            /\ ticket' = [ticket EXCEPT ![p] = 0]
            /\ quiescing' = [quiescing EXCEPT ![p] = FALSE]
       ELSE /\ Goto(p, "qsleep")
            /\ UNCHANGED <<ticket, quiescing>>
    /\ UNCHANGED <<nslots, pubSeq, batchN, staged, spanLeft, tail, issued,
                   issuedAt, syncVars, workerFrame, wpc>>

\* ~Runtime: the lifecycle rule requires every producer thread to be finished.
Shutdown ==
    /\ ~stop
    /\ \A p \in 1..nslots : ppc[p] = "idle" /\ batchN[p] = 0
    /\ stop' = TRUE
    /\ ppc' = [p \in Slots |-> "none"]
    /\ NotifyWork
    /\ UNCHANGED <<nslots, pubSeq, batchN, staged, spanLeft, tail, issued,
                   workEpoch, quiesceIssued, quiesceCompleted, waitVars, workerFrame>>

ProducerStep(p) ==
    \/ SpanCommit(p) \/ SpanReserve(p) \/ Stage(p)
    \/ FlushCommit(p) \/ FlushPush(p) \/ CloseWindow(p) \/ Bump(p) \/ Wake(p)
    \/ DrawTicket(p) \/ QuiesceWake(p) \/ QuiesceCheck(p)

-----------------------------------------------------------------------------
(* Worker side *)

WorkPendingNoTickets == stop \/ workEpoch # seenWork

\* The predicate of cvWork_.wait.
WorkPending == stop \/ workEpoch # seenWork \/ quiesceIssued > quiesceCompleted

\* cvWork_.wait, its predicate evaluated under cvMu_.
WaitForWork ==
    /\ wpc = "wait"
    /\ wpc' = IF WorkPending THEN "work" ELSE "asleep"
    /\ UNCHANGED <<prodVars, syncVars, waitVars, workerFrame>>

CaptureWork ==
    /\ wpc = "work" /\ wpc' = "tickets"
    /\ roundWork' = workEpoch
    /\ UNCHANGED <<prodVars, syncVars, waitVars, roundVars, seenWork, serveThrough,
                   head, cut, swept>>

CaptureTickets ==
    /\ wpc = "tickets" /\ wpc' = "slots"
    /\ serveThrough' = quiesceIssued
    /\ UNCHANGED <<prodVars, syncVars, waitVars, roundVars, seenWork, roundWork,
                   head, cut, swept>>

\* doRound: read slotsEpoch_ ...
ReadSlotsEpoch ==
    /\ wpc = "slots" /\ wpc' = "refresh"
    /\ slotsBefore' = nslots
    /\ UNCHANGED <<prodVars, syncVars, waitVars, wi, roundN, pre, tails, stable,
                   loopVars, head, cut, swept>>

\* ... and copy slots_ under slotsMu_ when the epoch moved since the last copy.
RefreshSlots ==
    /\ wpc = "refresh" /\ wpc' = "pre"
    /\ roundN' = IF slotsBefore # roundN THEN nslots ELSE roundN
    /\ wi' = 1 /\ stable' = TRUE
    /\ UNCHANGED <<prodVars, syncVars, waitVars, slotsBefore, pre, tails,
                   loopVars, head, cut, swept>>

ReadPre ==
    /\ wpc = "pre" /\ wi <= roundN
    /\ pre' = [pre EXCEPT ![wi] = pubSeq[wi]]
    /\ stable' = (stable /\ Even(pubSeq[wi]))
    /\ wi' = wi + 1
    /\ UNCHANGED <<prodVars, syncVars, waitVars, roundN, slotsBefore, tails,
                   loopVars, head, wpc, cut, swept>>

PreDone ==
    /\ wpc = "pre" /\ wi > roundN /\ wpc' = "tails" /\ wi' = 1
    /\ cut' = issued
    /\ UNCHANGED <<prodVars, syncVars, waitVars, roundN, slotsBefore, pre, tails,
                   stable, loopVars, head, swept>>

ReadTail ==
    /\ wpc = "tails" /\ wi <= roundN
    /\ tails' = [tails EXCEPT ![wi] = tail[wi]]
    /\ wi' = wi + 1
    /\ UNCHANGED <<prodVars, syncVars, waitVars, roundN, slotsBefore, pre, stable,
                   loopVars, head, wpc, cut, swept>>

TailsDone ==
    /\ wpc = "tails" /\ wi > roundN /\ wpc' = "post" /\ wi' = 1
    /\ UNCHANGED <<prodVars, syncVars, waitVars, roundN, slotsBefore, pre, tails,
                   stable, loopVars, head, cut, swept>>

SamePublicationParity(i) == Even(pubSeq[i])

\* The second sample of pubSeq: no window open, none opened since the first.
SamePublication(i) == Even(pubSeq[i]) /\ pubSeq[i] = pre[i]

ReadPost ==
    /\ wpc = "post" /\ wi <= roundN
    /\ stable' = (stable /\ SamePublication(wi))
    /\ wi' = wi + 1
    /\ UNCHANGED <<prodVars, syncVars, waitVars, roundN, slotsBefore, pre, tails,
                   loopVars, head, wpc, cut, swept>>

\* The cut is stable only if no slot was registered since slotsBefore.
PostDone ==
    /\ wpc = "post" /\ wi > roundN /\ wpc' = "drain" /\ wi' = 1
    /\ stable' = (stable /\ nslots = slotsBefore)
    /\ UNCHANGED <<prodVars, syncVars, waitVars, roundN, slotsBefore, pre, tails,
                   loopVars, head, cut, swept>>

\* Pop and apply one message of slot wi.
Drain ==
    /\ wpc = "drain" /\ wi <= roundN /\ head[wi] < tails[wi]
    /\ head' = [head EXCEPT ![wi] = @ + 1]
    /\ UNCHANGED <<prodVars, syncVars, waitVars, roundVars, loopVars, wpc, cut, swept>>

DrainNext ==
    /\ wpc = "drain" /\ wi <= roundN /\ head[wi] >= tails[wi]
    /\ wi' = wi + 1
    /\ UNCHANGED <<prodVars, syncVars, waitVars, roundN, slotsBefore, pre, tails,
                   stable, loopVars, head, wpc, cut, swept>>

DrainedEpochLate == workEpoch

\* The epoch sampled before the snapshot is what the round has drained through.
DrainedEpoch == roundWork

\* The locals of doRound and of the loop body go out of scope; the worker-round
\* scratch (roundPre_, roundTails_) is always written before it is read again.
EndScope ==
    /\ slotsBefore' = 0 /\ stable' = FALSE /\ wi' = 1
    /\ pre' = [p \in Slots |-> 0] /\ tails' = [p \in Slots |-> 0]
    /\ roundWork' = 0 /\ serveThrough' = 0
    /\ cut' = [p \in Slots |-> 0]
    /\ UNCHANGED roundN

\* Everything up to the snapshot is applied and the cut was stable.
DrainedStable ==
    /\ wpc = "drain" /\ wi > roundN /\ stable /\ wpc' = "sweep"
    /\ UNCHANGED <<prodVars, syncVars, waitVars, workerFrame>>

\* An unstable round applied messages but may neither sweep nor serve tickets.
DrainedUnstable ==
    /\ wpc = "drain" /\ wi > roundN /\ ~stable /\ wpc' = "wait"
    /\ seenWork' = DrainedEpoch
    /\ EndScope
    /\ UNCHANGED <<prodVars, syncVars, waitVars, head, swept>>

Sweep ==
    /\ wpc = "sweep" /\ wpc' = "complete"
    /\ swept' = head
    /\ UNCHANGED <<prodVars, syncVars, waitVars, roundVars, loopVars, head, cut>>

ServedLate == quiesceIssued

\* Only tickets drawn before the round started are served by it.
Served == serveThrough

\* The compare-exchange loop raises quiesceCompleted_ to serveThrough.
Complete ==
    /\ wpc = "complete" /\ wpc' = "notify"
    /\ quiesceCompleted' = IF quiesceCompleted < Served
                           THEN Served ELSE quiesceCompleted
    /\ UNCHANGED <<prodVars, workEpoch, quiesceIssued, stop, waitVars, workerFrame>>

\* cvDone_.notify_all under cvMu_.
NotifyDone ==
    /\ wpc = "notify" /\ wpc' = "exit"
    /\ ppc' = [p \in Slots |-> IF ppc[p] = "qsleep" THEN "qcheck" ELSE ppc[p]]
    /\ seenWork' = DrainedEpoch
    /\ EndScope
    /\ UNCHANGED <<nslots, pubSeq, batchN, staged, spanLeft, tail, issued, syncVars,
                   waitVars, head, swept>>

MayExitEarly == stop /\ quiesceCompleted >= quiesceIssued

MayExit == stop /\ workEpoch = seenWork /\ quiesceCompleted >= quiesceIssued

\* Leave the loop only with nothing published and no ticket since this round.
ExitCheck ==
    /\ wpc = "exit"
    /\ wpc' = IF MayExit
              THEN "exited" ELSE "wait"
    /\ UNCHANGED <<prodVars, syncVars, waitVars, workerFrame>>

WorkerStep ==
    \/ WaitForWork \/ CaptureWork \/ CaptureTickets \/ ReadSlotsEpoch \/ RefreshSlots
    \/ ReadPre \/ PreDone \/ ReadTail \/ TailsDone \/ ReadPost \/ PostDone
    \/ Drain \/ DrainNext \/ DrainedStable \/ DrainedUnstable \/ Sweep \/ Complete \/ NotifyDone \/ ExitCheck

\* worker_.join() returned: nothing runs any more.
Joined == wpc = "exited" /\ UNCHANGED vars

Next ==
    \/ \E p \in Slots : Register(p) \/ Open(p) \/ Park(p) \/ AwaitQuiesce(p)
    \/ \E p \in Slots : ProducerStep(p) \/ Spin(p)
    \/ Shutdown
    \/ WorkerStep
    \/ Joined

Spec == Init /\ [][Next]_vars

\* A thread inside publish/flush/awaitQuiesce runs on, the worker is scheduled,
\* and a mutator that stops issuing messages flushes first (flush before park).
Fairness ==
    /\ WF_vars(WorkerStep)
    /\ \A p \in Slots : WF_vars(ProducerStep(p)) /\ WF_vars(Park(p))

FairSpec == Spec /\ Fairness
-----------------------------------------------------------------------------
(* Properties *)

ProducerPc == {"none", "idle", "stage", "flush", "close", "bump", "wake",
               "ticket", "qwake", "qcheck", "qsleep"}
WorkerPc == {"asleep", "wait", "work", "tickets", "slots", "refresh", "pre", "tails",
             "post", "drain", "sweep", "complete", "notify", "exit", "exited"}

TypeProducers ==
    /\ nslots \in 0..NSlots
    /\ ppc \in [Slots -> ProducerPc]
    /\ pubSeq \in [Slots -> Nat]
    /\ batchN \in [Slots -> 0..BatchLimit]
    /\ staged \in [Slots -> Nat]
    /\ spanLeft \in [Slots -> Nat]
    /\ tail \in [Slots -> Nat]
    /\ issued \in [Slots -> Nat]

TypeWaiters ==
    /\ quiescing \in [Slots -> BOOLEAN]
    /\ ticket \in [Slots -> Nat]
    /\ issuedAt \in [Tickets -> [Slots -> Nat]]
    /\ workEpoch \in Nat
    /\ quiesceIssued \in 0..MaxTicket
    /\ quiesceCompleted \in Nat
    /\ stop \in BOOLEAN

TypeWorker ==
    /\ wpc \in WorkerPc
    /\ wi \in 1..(NSlots + 1)
    /\ roundN \in 0..NSlots
    /\ slotsBefore \in 0..NSlots
    /\ stable \in BOOLEAN
    /\ pre \in [Slots -> Nat]
    /\ tails \in [Slots -> Nat]
    /\ head \in [Slots -> Nat]
    /\ cut \in [Slots -> Nat]
    /\ swept \in [Slots -> Nat]
    /\ roundWork \in Nat /\ seenWork \in Nat /\ serveThrough \in Nat

\* Type correctness of the protocol state; an open batch stays within its limit.
TypeOK == TypeProducers /\ TypeWaiters /\ TypeWorker

\* When the worker sweeps, the messages it has applied are exactly the messages
\* all producers had issued at one instant (the moment the last pre counter was
\* read): a message staged but unpublished, or published around the snapshot,
\* can never be missing from a cut that is swept (doRound).
ConsistentCut == wpc = "sweep" => head = cut

\* A completed ticket vouches for a sweep that applied every message any
\* producer had issued before the ticket was drawn (awaitQuiesce, serveThrough).
QuiesceCovers ==
    \A t \in Tickets : t <= quiesceCompleted =>
        t <= quiesceIssued /\ \A p \in Slots : issuedAt[t][p] <= swept[p]

\* The worker leaves its loop only after a sweep that covered every message ever
\* issued and with every ticket served (workerLoop exit test, shutdown).
DrainedAtExit ==
    wpc = "exited" => swept = issued /\ quiesceCompleted = quiesceIssued

\* The zero-copy run a producer writes into never overlaps ring slots the
\* consumer has not read, across wrap-around and across batches that reuse a
\* partly filled run (writeToSpan, beginSpan, commitSpan).
RunIsFree ==
    \A p \in Slots :
        /\ head[p] <= tail[p]
        /\ SpanPath => tail[p] + staged[p] + spanLeft[p] - head[p] <= Cap
        /\ SpanPath /\ staged[p] + spanLeft[p] > 0 =>
              (tail[p] % Cap) + staged[p] + spanLeft[p] <= Cap

\* awaitQuiesce() returns: no wakeup of the worker or of the waiter is lost and
\* the cut becomes stable once every producer parks.
QuiesceReturns == \A p \in Slots : quiescing[p] ~> ~quiescing[p]

\* A batch whose epoch bump comes after the last registration is swept without any
\* further publication or quiesce request (workEpoch_, seenWork, cvWork_).
SettledIsSwept ==
    \A p \in Slots : \A n \in 1..MaxIssue :
        (nslots = NSlots /\ ppc[p] = "bump" /\ tail[p] >= n) ~> (swept[p] >= n)
=============================================================================
