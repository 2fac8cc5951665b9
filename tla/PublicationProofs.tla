-------------------------- MODULE PublicationProofs --------------------------
(***************************************************************************)
(* Proofs about the publication protocol for any number of producers, any  *)
(* ring capacity, batch limit and span size, and any bound on messages and *)
(* tickets: the sweep sees a consistent cut, a completed quiesce ticket    *)
(* covers everything issued before it was drawn, a reserved run of ring    *)
(* slots stays free while the producer writes into it, and the worker      *)
(* leaves its loop only after a sweep over everything ever issued.         *)
(***************************************************************************)
EXTENDS Publication, TLAPS

\* A slot that is not registered yet has issued nothing.
Unregistered ==
    \A p \in Slots : p > nslots => ppc[p] = "none" /\ issued[p] = 0

\* pubSeq is even exactly when no batch is open, and then nothing is hidden.
Window ==
    \A p \in Slots :
        /\ tail[p] + staged[p] = issued[p]
        /\ Even(pubSeq[p]) <=> (batchN[p] = 0 /\ ppc[p] # "stage")
        /\ batchN[p] = 0 => staged[p] = 0
        /\ ppc[p] = "close" => staged[p] = 0
        /\ ppc[p] \in {"flush", "close"} => batchN[p] > 0
        /\ ppc[p] \notin {"idle", "stage", "flush", "close"} => batchN[p] = 0
        /\ ppc[p] \in {"idle", "stage"} => batchN[p] < BatchLimit

\* The worker's slot list is a prefix of the registered slots.
RoundSlots ==
    /\ roundN <= nslots /\ slotsBefore <= nslots
    /\ \A p \in Slots : p > roundN => head[p] = 0
    /\ wpc \in {"pre", "tails", "post"} => slotsBefore <= roundN

\* History counters never run ahead of what they sampled.
Samples ==
    \A p \in Slots :
        /\ cut[p] <= issued[p] /\ head[p] <= tail[p] /\ swept[p] <= head[p]

\* What the worker knows about slot j while the cut is still considered stable.
CutKnown(j) ==
    /\ (wpc = "pre" /\ j < wi) \/ wpc \in {"tails", "post"} =>
          pre[j] <= pubSeq[j] /\ (stable => Even(pre[j]))
    /\ wpc \in {"tails", "post"} /\ stable /\ pubSeq[j] = pre[j] => issued[j] = cut[j]
    /\ (wpc = "tails" /\ j < wi) \/ wpc = "post" =>
          (stable /\ pubSeq[j] = pre[j] => tails[j] = cut[j])
    /\ wpc = "post" /\ j < wi /\ stable => tails[j] = cut[j]

\* Draining stops exactly at the snapshot.
DrainKnown(j) ==
    /\ (wpc = "tails" /\ j < wi) \/ wpc \in {"post", "drain"} =>
          head[j] <= tails[j] /\ tails[j] <= tail[j]
    /\ wpc = "drain" /\ stable => tails[j] = cut[j]
    /\ wpc = "drain" /\ j < wi => head[j] = tails[j]

Round ==
    /\ \A j \in 1..roundN : CutKnown(j) /\ DrainKnown(j)
    /\ wpc = "drain" /\ stable => \A p \in Slots : p > roundN => cut[p] = 0

\* Where the messages issued before each ticket was drawn are accounted for.
Promised ==
    /\ quiesceCompleted <= quiesceIssued /\ serveThrough <= quiesceIssued
    /\ \A t \in Tickets : \A p \in Slots :
        /\ t <= quiesceIssued => issuedAt[t][p] <= issued[p]
        /\ wpc \in {"tails", "post", "drain", "sweep"} /\ t <= serveThrough =>
              issuedAt[t][p] <= cut[p]
        /\ wpc = "complete" /\ t <= serveThrough => issuedAt[t][p] <= swept[p]
        /\ t <= quiesceCompleted => issuedAt[t][p] <= swept[p]

-----------------------------------------------------------------------------
(* Steps of a producer thread, and what the two sides leave alone *)

ProducerAction(p) == Register(p) \/ Open(p) \/ Park(p) \/ AwaitQuiesce(p) \/ ProducerStep(p)

\* Incrementing a publication counter flips its parity (pubSeq.fetch_add in
\* publish and flushSlot).
LEMMA EvenFlip == \A n \in Nat : Even(n + 1) <=> ~Even(n)
  BY DEF Even

\* The worker's loop index starts at a valid slot (doRound).
LEMMA SlotsNonempty == 1 \in Slots
  BY PublicationAssumption DEF Slots

\* A fresh publication counter is even: no window is open (makeMutator).
LEMMA EvenZero == Even(0)
  BY DEF Even

\* Producers touch nothing of the round in progress; at most they wake the worker.
LEMMA ProducerFrame ==
  ASSUME NEW p \in Slots, ProducerAction(p) \/ Shutdown
  PROVE  /\ UNCHANGED <<roundVars, loopVars, head, cut, swept>>
         /\ wpc' = wpc \/ (wpc = "asleep" /\ wpc' = "wait")
  BY DEF ProducerAction, ProducerStep, workerFrame, NotifyWork, Shutdown,
         Register, Open, Park, AwaitQuiesce, SpanCommit, SpanReserve, Stage, FlushCommit,
         FlushPush, CloseWindow, Bump, Wake, DrawTicket, QuiesceWake, QuiesceCheck

\* The worker changes no producer state but the sleepers notify_all wakes up.
LEMMA WorkerFrame ==
  ASSUME WorkerStep
  PROVE  /\ UNCHANGED <<nslots, pubSeq, batchN, staged, spanLeft, tail, issued>>
         /\ UNCHANGED <<waitVars, workEpoch, quiesceIssued, stop>>
         /\ \/ ppc' = ppc
            \/ ppc' = [p \in Slots |-> IF ppc[p] = "qsleep" THEN "qcheck" ELSE ppc[p]]
  BY DEF WorkerStep, prodVars, syncVars, waitVars, WaitForWork, CaptureWork, CaptureTickets, ReadSlotsEpoch, RefreshSlots, ReadPre, PreDone, ReadTail,
         TailsDone, ReadPost, PostDone, Drain, DrainNext, DrainedStable, DrainedUnstable, Sweep,
         Complete, NotifyDone, ExitCheck

-----------------------------------------------------------------------------
(* Typing of the producer side, together with the window invariant *)

\* Initially the producer side is well typed and every window is closed.
LEMMA ProducersInit == Init => TypeProducers /\ Window
  BY PublicationAssumption, EvenZero DEF Init, TypeProducers, Window, ProducerPc

\* Every step keeps the producer side well typed and keeps the relation between
\* a producer's pc, its counter's parity and its staged messages (publish, flushSlot).
LEMMA ProducersStep ==
  ASSUME TypeProducers, TypeWorker, Window, Unregistered, [Next]_vars
  PROVE  TypeProducers' /\ Window'
  <1> USE PublicationAssumption DEF TypeProducers, Window, ProducerPc, Goto
  <1>1. ASSUME NEW p \in Slots, Register(p) PROVE TypeProducers' /\ Window'
    <2>1. p > nslots /\ p \in 0..NSlots
      BY <1>1 DEF Register, Slots
    <2>2. ppc[p] = "none" /\ batchN[p] = 0
      BY <2>1 DEF Unregistered
    <2> QED
      BY <2>1, <2>2, <1>1 DEF Register
  <1>2. ASSUME NEW p \in Slots, Open(p) PROVE TypeProducers' /\ Window'
    BY EvenFlip, <1>2 DEF Open
  <1>3. ASSUME NEW p \in Slots, Park(p) PROVE TypeProducers' /\ Window'
    BY <1>3 DEF Park
  <1>4. ASSUME NEW p \in Slots, AwaitQuiesce(p) PROVE TypeProducers' /\ Window'
    BY <1>4 DEF AwaitQuiesce
  <1>5. ASSUME NEW p \in Slots, SpanCommit(p) PROVE TypeProducers' /\ Window'
    BY <1>5 DEF SpanCommit
  <1>6. ASSUME NEW p \in Slots, SpanReserve(p) PROVE TypeProducers' /\ Window'
    <2>1. BeginSpan(p) \in Nat
      BY <1>6 DEF SpanReserve, BeginSpan, Min2, TypeWorker
    <2> QED
      BY <2>1, <1>6 DEF SpanReserve
  <1>7. ASSUME NEW p \in Slots, Stage(p) PROVE TypeProducers' /\ Window'
    BY <1>7 DEF BatchFull, Stage
  <1>8. ASSUME NEW p \in Slots, FlushCommit(p) PROVE TypeProducers' /\ Window'
    BY <1>8 DEF FlushCommit
  <1>9. ASSUME NEW p \in Slots, FlushPush(p) PROVE TypeProducers' /\ Window'
    BY <1>9 DEF FlushPush
  <1>10. ASSUME NEW p \in Slots, CloseWindow(p) PROVE TypeProducers' /\ Window'
    BY EvenFlip, <1>10 DEF CloseWindow
  <1>11. ASSUME NEW p \in Slots, Bump(p) PROVE TypeProducers' /\ Window'
    BY <1>11 DEF Bump
  <1>12. ASSUME NEW p \in Slots, Wake(p) PROVE TypeProducers' /\ Window'
    BY <1>12 DEF Wake
  <1>13. ASSUME NEW p \in Slots, DrawTicket(p) PROVE TypeProducers' /\ Window'
    BY <1>13 DEF DrawTicket
  <1>14. ASSUME NEW p \in Slots, QuiesceWake(p) PROVE TypeProducers' /\ Window'
    BY <1>14 DEF QuiesceWake
  <1>15. ASSUME NEW p \in Slots, QuiesceCheck(p) PROVE TypeProducers' /\ Window'
    BY <1>15 DEF QuiesceCheck
  <1>16. CASE Shutdown
    <2>1. \A p \in Slots : batchN[p] = 0 /\ ppc[p] # "stage"
      <3> SUFFICES ASSUME NEW p \in Slots PROVE batchN[p] = 0 /\ ppc[p] # "stage"
        OBVIOUS
      <3>1. CASE p > nslots
        BY <3>1 DEF Unregistered
      <3>2. CASE p <= nslots
        <4>1. p \in 1..nslots
          BY <3>2 DEF Slots
        <4> QED
          BY <1>16, <4>1 DEF Shutdown
      <3> QED
        BY <3>1, <3>2 DEF Slots
    <2> QED
      BY <2>1, <1>16 DEF Shutdown
  <1>17. CASE WorkerStep
    BY <1>17, WorkerFrame
  <1>18. CASE UNCHANGED vars
    BY <1>18 DEF vars, prodVars
  <1> QED
    BY <1>1, <1>2, <1>3, <1>4, <1>5, <1>6, <1>7, <1>8, <1>9, <1>10, <1>11, <1>12, <1>13, <1>14, <1>15, <1>16, <1>17, <1>18
       DEF Next, ProducerStep, Joined, Spin

\* The key fact of the protocol: while a producer's counter stays even and
\* unchanged, it has issued nothing and moved its tail by nothing.
LEMMA QuietWhileEven ==
  ASSUME TypeProducers, Window, NEW p \in Slots, ProducerAction(p) \/ Shutdown
  PROVE  \A q \in Slots :
           /\ issued[q] <= issued'[q] /\ pubSeq[q] <= pubSeq'[q] /\ tail[q] <= tail'[q]
           /\ Even(pubSeq[q]) /\ pubSeq'[q] = pubSeq[q] =>
                issued'[q] = issued[q] /\ tail'[q] = tail[q]
  <1> USE DEF TypeProducers, Window
  <1>1. CASE Stage(p)
    BY <1>1 DEF Stage
  <1>2. CASE SpanCommit(p)
    BY <1>2 DEF SpanCommit
  <1>3. CASE FlushCommit(p) \/ FlushPush(p)
    BY <1>3 DEF FlushCommit, FlushPush
  <1>4. CASE Open(p)
    BY <1>4 DEF Open
  <1>5. CASE CloseWindow(p)
    BY <1>5 DEF CloseWindow
  <1>6. CASE \/ Register(p) \/ Park(p) \/ AwaitQuiesce(p) \/ SpanReserve(p) \/ Bump(p)
             \/ Wake(p) \/ DrawTicket(p) \/ QuiesceWake(p) \/ QuiesceCheck(p) \/ Shutdown
    BY <1>6 DEF Register, Park, AwaitQuiesce, SpanReserve, Bump, Wake, DrawTicket,
                QuiesceWake, QuiesceCheck, Shutdown
  <1> QED
    BY <1>1, <1>2, <1>3, <1>4, <1>5, <1>6 DEF ProducerAction, ProducerStep

-----------------------------------------------------------------------------
(* Typing of tickets and of the worker *)

\* Every step keeps tickets and the shared epochs well typed (awaitQuiesce).
LEMMA WaitersStep ==
  ASSUME TypeWaiters, TypeProducers, TypeWorker, [Next]_vars
  PROVE  TypeWaiters'
  <1> USE PublicationAssumption DEF TypeWaiters
  <1>1. ASSUME NEW p \in Slots, AwaitQuiesce(p) PROVE TypeWaiters'
    BY <1>1 DEF AwaitQuiesce, syncVars
  <1>2. ASSUME NEW p \in Slots, DrawTicket(p) PROVE TypeWaiters'
    <2>1. issuedAt' \in [Tickets -> [Slots -> Nat]]
      BY <1>2, Zenon DEF DrawTicket, TypeProducers
    <2> QED
      BY <2>1, <1>2 DEF DrawTicket
  <1>3. ASSUME NEW p \in Slots, QuiesceCheck(p) PROVE TypeWaiters'
    <2>1. quiescing' \in [Slots -> BOOLEAN]
      BY <1>3, Zenon DEF QuiesceCheck
    <2> QED
      BY <2>1, <1>3 DEF QuiesceCheck, syncVars, TypeProducers
  <1>4. ASSUME NEW p \in Slots, Bump(p) PROVE TypeWaiters'
    BY <1>4 DEF Bump, waitVars
  <1>5. CASE Shutdown
    BY <1>5 DEF Shutdown, waitVars
  <1>6. ASSUME NEW p \in Slots,
               \/ Register(p) \/ Open(p) \/ Park(p) \/ SpanCommit(p) \/ SpanReserve(p)
               \/ Stage(p) \/ FlushCommit(p) \/ FlushPush(p) \/ CloseWindow(p) \/ Wake(p)
               \/ QuiesceWake(p)
        PROVE  TypeWaiters'
    BY <1>6 DEF Register, Open, Park, SpanCommit, SpanReserve, Stage, FlushCommit,
                FlushPush, CloseWindow, Wake, QuiesceWake, waitVars, syncVars
  <1>7. CASE WorkerStep
    <2>1. quiesceCompleted' \in Nat
      BY <1>7 DEF WorkerStep, TypeWorker, syncVars, Complete, Served, WaitForWork, CaptureWork,
           CaptureTickets, ReadSlotsEpoch, RefreshSlots, ReadPre, PreDone, ReadTail,
           TailsDone, ReadPost, PostDone, Drain, DrainNext, DrainedStable,
           DrainedUnstable, Sweep, NotifyDone, ExitCheck
    <2> QED
      BY <2>1, <1>7, WorkerFrame DEF waitVars
  <1>8. CASE UNCHANGED vars
    BY <1>8 DEF vars, waitVars, syncVars
  <1> QED
    BY <1>1, <1>2, <1>3, <1>4, <1>5, <1>6, <1>7, <1>8 DEF Next, ProducerStep, Joined, Spin

\* Every step keeps the worker's round state well typed; the loop index never
\* leaves the round's slots (doRound).
LEMMA WorkerTypeStep ==
  ASSUME TypeProducers, TypeWaiters, TypeWorker, RoundSlots, [Next]_vars
  PROVE  TypeWorker'
  <1>0. wi <= roundN => wi \in Slots /\ wi + 1 \in 1..(NSlots + 1)
    BY PublicationAssumption DEF TypeWorker, Slots
  <1>00. 1 \in 1..(NSlots + 1) /\ 0 \in 0..NSlots /\ [p \in Slots |-> 0] \in [Slots -> Nat]
    BY PublicationAssumption
  <1> USE DEF TypeWorker, WorkerPc
  <1>1. ASSUME NEW p \in Slots, ProducerAction(p) \/ Shutdown PROVE TypeWorker'
    BY <1>1, ProducerFrame DEF roundVars, loopVars
  <1>2. CASE WaitForWork
    BY <1>2 DEF WorkPending, WaitForWork, workerFrame, roundVars, loopVars
  <1>3. CASE CaptureWork
    BY <1>3 DEF CaptureWork, roundVars, loopVars, TypeWaiters
  <1>4. CASE CaptureTickets
    BY <1>4 DEF CaptureTickets, roundVars, loopVars, TypeWaiters
  <1>5. CASE ReadSlotsEpoch
    BY <1>5 DEF ReadSlotsEpoch, roundVars, loopVars, TypeProducers
  <1>6. CASE RefreshSlots
    BY <1>6, <1>00 DEF RefreshSlots, roundVars, loopVars, TypeProducers
  <1>7. CASE ReadPre
    <2>1. stable' \in BOOLEAN
      BY <1>7, Zenon DEF ReadPre
    <2> QED
      BY <2>1, <1>7, <1>0 DEF ReadPre, loopVars, TypeProducers
  <1>8. CASE PreDone
    BY <1>8, <1>00 DEF PreDone, roundVars, loopVars, TypeProducers
  <1>9. CASE ReadTail
    BY <1>9, <1>0 DEF ReadTail, loopVars, TypeProducers
  <1>10. CASE TailsDone
    BY <1>10, <1>00 DEF TailsDone, roundVars, loopVars
  <1>11. CASE ReadPost
    <2>1. stable' \in BOOLEAN
      BY <1>11, Zenon DEF ReadPost
    <2> QED
      BY <2>1, <1>11, <1>0 DEF ReadPost, loopVars
  <1>12. CASE PostDone
    <2>1. stable' \in BOOLEAN
      BY <1>12, Zenon DEF PostDone
    <2> QED
      BY <2>1, <1>12, <1>00 DEF PostDone, loopVars
  <1>13. CASE Drain
    BY <1>13, <1>0 DEF Drain, roundVars, loopVars
  <1>14. CASE DrainNext
    BY <1>14, <1>0 DEF DrainNext, roundVars, loopVars
  <1>15. CASE DrainedStable
    BY <1>15 DEF DrainedStable, workerFrame, roundVars, loopVars
  <1>16. CASE DrainedUnstable
    BY <1>16, <1>00 DEF EndScope, DrainedEpoch, DrainedUnstable
  <1>17. CASE Sweep
    BY <1>17 DEF Sweep, roundVars, loopVars
  <1>18. CASE Complete
    BY <1>18 DEF Served, Complete, workerFrame, roundVars, loopVars
  <1>19. CASE NotifyDone
    BY <1>19, <1>00 DEF EndScope, DrainedEpoch, NotifyDone
  <1>20. CASE ExitCheck
    BY <1>20 DEF MayExit, ExitCheck, workerFrame, roundVars, loopVars
  <1>21. CASE UNCHANGED vars
    BY <1>21 DEF vars, roundVars, loopVars
  <1> QED
    BY Zenon, <1>1, <1>2, <1>3, <1>4, <1>5, <1>6, <1>7, <1>8, <1>9, <1>10, <1>11, <1>12, <1>13, <1>14, <1>15, <1>16, <1>17, <1>18, <1>19, <1>20, <1>21, SlotsNonempty
       DEF Next, ProducerAction, WorkerStep, Joined, Spin

-----------------------------------------------------------------------------
(* The producer side preserves what the worker knows *)

\* A slot that is not registered yet has issued and published nothing (makeMutator).
LEMMA UnregisteredStep ==
  ASSUME TypeProducers, Unregistered, [Next]_vars
  PROVE  Unregistered'
  <1> USE DEF TypeProducers, Unregistered, Goto
  <1>1. ASSUME NEW p \in Slots, Register(p) PROVE Unregistered'
    BY <1>1 DEF Register, Slots
  <1>2. ASSUME NEW p \in Slots, ProducerAction(p), ~Register(p) PROVE Unregistered'
    <2>1. nslots' = nslots /\ ppc[p] # "none"
      BY <1>2 DEF ProducerAction, ProducerStep, Open, Park, AwaitQuiesce, SpanCommit,
           SpanReserve, Stage, FlushCommit, FlushPush, CloseWindow, Bump, Wake, DrawTicket,
           QuiesceWake, QuiesceCheck
    <2>2. \A q \in Slots : q # p => ppc'[q] = ppc[q] /\ issued'[q] = issued[q]
      BY <1>2 DEF ProducerAction, ProducerStep, Open, Park, AwaitQuiesce, SpanCommit,
           SpanReserve, Stage, FlushCommit, FlushPush, CloseWindow, Bump, Wake, DrawTicket,
           QuiesceWake, QuiesceCheck
    <2> QED
      BY <2>1, <2>2
  <1>3. CASE Shutdown
    BY <1>3 DEF Shutdown
  <1>4. CASE WorkerStep
    BY <1>4, WorkerFrame
  <1>5. CASE UNCHANGED vars
    BY <1>5 DEF vars, prodVars
  <1> QED
    BY <1>1, <1>2, <1>3, <1>4, <1>5 DEF Next, ProducerAction, Joined, Spin

WorkerInv == RoundSlots /\ Samples /\ Round /\ ConsistentCut

\* A producer's step invalidates nothing the worker has learnt in its round: what
\* it moves is told by a counter that is odd or no longer equal to its sample.
LEMMA ProducerKeepsWorkerInv ==
  ASSUME TypeProducers, TypeProducers', TypeWorker, Window, WorkerInv,
         NEW p \in Slots, ProducerAction(p) \/ Shutdown
  PROVE  WorkerInv'
  <1>1. /\ roundN' = roundN /\ slotsBefore' = slotsBefore /\ wi' = wi /\ stable' = stable
        /\ pre' = pre /\ tails' = tails /\ head' = head /\ cut' = cut /\ swept' = swept
    BY ProducerFrame DEF roundVars
  <1>2. wpc' = wpc \/ (wpc = "asleep" /\ wpc' = "wait")
    BY ProducerFrame
  <1>3. nslots <= nslots' /\ nslots' \in Nat
    BY DEF TypeProducers, ProducerAction, ProducerStep, Register, Open, Park, AwaitQuiesce,
           SpanCommit, SpanReserve, Stage, FlushCommit, FlushPush, CloseWindow, Bump, Wake,
           DrawTicket, QuiesceWake, QuiesceCheck, Shutdown
  <1>4. \A q \in Slots :
           /\ issued[q] <= issued'[q] /\ pubSeq[q] <= pubSeq'[q] /\ tail[q] <= tail'[q]
           /\ Even(pubSeq[q]) /\ pubSeq'[q] = pubSeq[q] =>
                issued'[q] = issued[q] /\ tail'[q] = tail[q]
    BY QuietWhileEven
  <1>6. RoundSlots'
    BY <1>1, <1>2, <1>3 DEF WorkerInv, RoundSlots, TypeProducers, TypeWorker
  <1>7. Samples'
    BY <1>1, <1>4 DEF WorkerInv, Samples, TypeProducers, TypeWorker
  <1>8. Round'
    <2>1. ASSUME NEW j \in 1..roundN PROVE CutKnown(j)' /\ DrainKnown(j)'
      <3>1. j \in Slots /\ CutKnown(j) /\ DrainKnown(j)
        <4>1. j \in Slots
          BY PublicationAssumption DEF TypeWorker, Slots
        <4>2. CutKnown(j) /\ DrainKnown(j)
          BY DEF WorkerInv, Round
        <4> QED
          BY <4>1, <4>2
      <3>2. CutKnown(j)'
        <4>1. pre[j] <= pubSeq[j] /\ pubSeq'[j] = pre[j] => pubSeq[j] = pre[j]
          BY <1>4, <3>1 DEF TypeProducers, TypeWorker
        <4>2. pre[j] <= pubSeq[j] => pre[j] <= pubSeq'[j]
          BY <1>4, <3>1 DEF TypeProducers, TypeWorker
        <4>3. Even(pubSeq[j]) /\ pubSeq'[j] = pubSeq[j] => issued'[j] = issued[j]
          BY <1>4, <3>1
        <4> QED
          BY <1>1, <1>2, <3>1, <4>1, <4>2, <4>3 DEF CutKnown
      <3>3. DrainKnown(j)'
        BY <1>1, <1>2, <1>4, <3>1 DEF DrainKnown, TypeProducers, TypeWorker
      <3> QED
        BY <3>2, <3>3
    <2>2. (wpc = "drain" /\ stable => \A q \in Slots : q > roundN => cut[q] = 0)'
      BY <1>1, <1>2 DEF WorkerInv, Round
    <2> QED
      BY <1>1, <2>1, <2>2 DEF Round
  <1>9. ConsistentCut'
    BY <1>1, <1>2 DEF WorkerInv, ConsistentCut
  <1> QED
    BY <1>6, <1>7, <1>8, <1>9 DEF WorkerInv

-----------------------------------------------------------------------------
(* The worker's own steps preserve what it knows *)

\* Steps outside the snapshot and the drain leave every fact about the cut vacuous.
Outside == {"asleep", "wait", "work", "tickets", "slots", "refresh", "complete",
            "notify", "exit", "exited"}

\* Between rounds the cut and drain facts hold vacuously.
LEMMA OutsideRound ==
  ASSUME wpc' \in Outside
  PROVE  Round' /\ ConsistentCut'
  <1>1. wpc' \notin {"pre", "tails", "post", "drain", "sweep"}
    BY DEF Outside
  <1> QED
    BY <1>1 DEF Round, CutKnown, DrainKnown, ConsistentCut

\* Each step of the worker's round preserves what the round knows, and a stable
\* round reaches the sweep with every slot drained to the cut (doRound).
LEMMA WorkerKeepsWorkerInv ==
  ASSUME TypeProducers, TypeWorker, TypeWorker', Unregistered, Window, WorkerInv, WorkerStep
  PROVE  WorkerInv'
  <1>0. wi <= roundN => wi \in Slots
    BY PublicationAssumption DEF TypeWorker, Slots
  <1>00. 1..roundN \subseteq Slots
    BY PublicationAssumption DEF TypeWorker, Slots
  <1>000. nslots' = nslots /\ pubSeq' = pubSeq /\ tail' = tail /\ issued' = issued
    BY WorkerFrame
  <1>1. CASE WaitForWork \/ CaptureWork \/ CaptureTickets \/ ReadSlotsEpoch \/ Complete
             \/ ExitCheck
    <2>1. wpc' \in Outside
      BY <1>1 DEF Outside, WaitForWork, CaptureWork, CaptureTickets, ReadSlotsEpoch,
                  Complete, ExitCheck
    <2>2. roundN' = roundN /\ head' = head /\ cut' = cut /\ swept' = swept
          /\ slotsBefore' \in {slotsBefore, nslots}
      BY <1>1 DEF WaitForWork, CaptureWork, CaptureTickets, ReadSlotsEpoch, Complete,
                  ExitCheck, workerFrame, roundVars
    <2>3. RoundSlots'
      BY <2>1, <2>2, <1>000 DEF WorkerInv, RoundSlots, TypeProducers, Outside
    <2>4. Samples'
      BY <2>2, <1>000 DEF WorkerInv, Samples
    <2> QED
      BY <2>1, <2>3, <2>4, OutsideRound DEF WorkerInv
  <1>2. CASE RefreshSlots
    <2>1. /\ wpc' = "pre" /\ wi' = 1 /\ head' = head /\ cut' = cut /\ swept' = swept
          /\ slotsBefore' = slotsBefore /\ roundN' \in {roundN, nslots}
          /\ slotsBefore # roundN => roundN' = nslots
      BY <1>2 DEF RefreshSlots
    <2>2. RoundSlots'
      <3>1. roundN <= roundN' /\ slotsBefore <= roundN' /\ roundN' <= nslots
        BY <2>1 DEF WorkerInv, RoundSlots, TypeProducers, TypeWorker
      <3>2. \A q \in Slots : q > roundN' => head[q] = 0
        BY <3>1, <2>1 DEF WorkerInv, RoundSlots, TypeProducers, TypeWorker, Slots
      <3> QED
        BY <3>1, <3>2, <2>1, <1>000 DEF WorkerInv, RoundSlots
    <2>3. Samples'
      BY <2>1, <1>000 DEF WorkerInv, Samples
    <2>4. Round' /\ ConsistentCut'
      BY <2>1 DEF Round, CutKnown, DrainKnown, ConsistentCut
    <2> QED
      BY <2>2, <2>3, <2>4 DEF WorkerInv
  <1>3. CASE ReadPre
    <2>1. /\ wpc = "pre" /\ wpc' = "pre" /\ wi' = wi + 1 /\ head' = head /\ cut' = cut
          /\ swept' = swept /\ slotsBefore' = slotsBefore /\ roundN' = roundN
          /\ pre' = [pre EXCEPT ![wi] = pubSeq[wi]] /\ wi \in Slots
          /\ stable' => stable /\ Even(pubSeq[wi])
      BY <1>3, <1>0 DEF ReadPre
    <2>2. RoundSlots'
      BY <2>1, <1>000 DEF WorkerInv, RoundSlots
    <2>3. Samples'
      BY <2>1, <1>000 DEF WorkerInv, Samples
    <2>4. ASSUME NEW j \in 1..roundN PROVE CutKnown(j)' /\ DrainKnown(j)'
      <3>1. j \in Slots /\ CutKnown(j)
        BY <1>00 DEF WorkerInv, Round
      <3>2. j < wi + 1 => pre'[j] <= pubSeq[j] /\ (stable' => Even(pre'[j]))
        <4>1. CASE j = wi
          BY <4>1, <2>1 DEF TypeProducers, TypeWorker
        <4>2. CASE j # wi
          BY <4>2, <2>1, <3>1 DEF CutKnown, TypeWorker
        <4> QED
          BY <4>1, <4>2
      <3> QED
        BY <2>1, <3>2, <1>000 DEF CutKnown, DrainKnown
    <2>5. Round' /\ ConsistentCut'
      BY <2>1, <2>4 DEF Round, ConsistentCut
    <2> QED
      BY <2>2, <2>3, <2>5 DEF WorkerInv
  <1>4. CASE PreDone
    <2>1. /\ wpc = "pre" /\ wpc' = "tails" /\ wi' = 1 /\ wi > roundN /\ head' = head
          /\ cut' = issued /\ swept' = swept /\ slotsBefore' = slotsBefore
          /\ roundN' = roundN /\ pre' = pre /\ stable' = stable
      BY <1>4 DEF PreDone
    <2>2. RoundSlots'
      BY <2>1, <1>000 DEF WorkerInv, RoundSlots
    <2>3. Samples'
      BY <2>1, <1>000 DEF WorkerInv, Samples, TypeProducers
    <2>4. ASSUME NEW j \in 1..roundN PROVE CutKnown(j)' /\ DrainKnown(j)'
      <3>1. j \in Slots /\ CutKnown(j) /\ j < wi
        BY <1>00, <2>1 DEF WorkerInv, Round, TypeWorker
      <3> QED
        BY <2>1, <3>1, <1>000 DEF CutKnown, DrainKnown
    <2>5. Round' /\ ConsistentCut'
      BY <2>1, <2>4 DEF Round, ConsistentCut
    <2> QED
      BY <2>2, <2>3, <2>5 DEF WorkerInv
  <1>5. CASE ReadTail
    <2>1. /\ wpc = "tails" /\ wpc' = "tails" /\ wi' = wi + 1 /\ head' = head /\ cut' = cut
          /\ swept' = swept /\ slotsBefore' = slotsBefore /\ roundN' = roundN
          /\ tails' = [tails EXCEPT ![wi] = tail[wi]] /\ wi \in Slots
          /\ pre' = pre /\ stable' = stable
      BY <1>5, <1>0 DEF ReadTail
    <2>2. RoundSlots'
      BY <2>1, <1>000 DEF WorkerInv, RoundSlots
    <2>3. Samples'
      BY <2>1, <1>000 DEF WorkerInv, Samples
    <2>4. ASSUME NEW j \in 1..roundN PROVE CutKnown(j)' /\ DrainKnown(j)'
      <3>1. j \in Slots /\ CutKnown(j) /\ DrainKnown(j)
        BY <1>00 DEF WorkerInv, Round
      <3>2. CASE j = wi
        \* The counter is even, so no message of the window is hidden: tail = issued.
        <4>1. stable /\ pubSeq[j] = pre[j] => tail[j] = cut[j]
          BY <2>1, <3>1 DEF CutKnown, Window, TypeProducers
        <4>2. tails'[j] = tail[j] /\ head[j] <= tail[j]
          BY <2>1, <3>1, <3>2 DEF TypeWorker, WorkerInv, Samples
        <4> QED
          BY <2>1, <3>1, <4>1, <4>2, <1>000 DEF CutKnown, DrainKnown, TypeProducers
      <3>3. CASE j # wi
        <4>1. tails'[j] = tails[j] /\ (j < wi' => j < wi)
          BY <2>1, <3>1, <3>3 DEF TypeWorker
        <4> QED
          BY <2>1, <3>1, <4>1, <1>000 DEF CutKnown, DrainKnown
      <3> QED
        BY <3>2, <3>3
    <2>5. Round' /\ ConsistentCut'
      BY <2>1, <2>4 DEF Round, ConsistentCut
    <2> QED
      BY <2>2, <2>3, <2>5 DEF WorkerInv
  <1>6. CASE TailsDone
    <2>1. /\ wpc = "tails" /\ wpc' = "post" /\ wi' = 1 /\ wi > roundN /\ head' = head
          /\ cut' = cut /\ swept' = swept /\ slotsBefore' = slotsBefore /\ tails' = tails
          /\ roundN' = roundN /\ pre' = pre /\ stable' = stable
      BY <1>6 DEF TailsDone
    <2>2. RoundSlots'
      BY <2>1, <1>000 DEF WorkerInv, RoundSlots
    <2>3. Samples'
      BY <2>1, <1>000 DEF WorkerInv, Samples
    <2>4. ASSUME NEW j \in 1..roundN PROVE CutKnown(j)' /\ DrainKnown(j)'
      <3>1. j \in Slots /\ CutKnown(j) /\ DrainKnown(j) /\ j < wi
        BY <1>00, <2>1 DEF WorkerInv, Round, TypeWorker
      <3> QED
        BY <2>1, <3>1, <1>000 DEF CutKnown, DrainKnown
    <2>5. Round' /\ ConsistentCut'
      BY <2>1, <2>4 DEF Round, ConsistentCut
    <2> QED
      BY <2>2, <2>3, <2>5 DEF WorkerInv
  <1>7. CASE ReadPost
    <2>1. /\ wpc = "post" /\ wpc' = "post" /\ wi' = wi + 1 /\ head' = head /\ cut' = cut
          /\ swept' = swept /\ slotsBefore' = slotsBefore /\ roundN' = roundN
          /\ tails' = tails /\ pre' = pre /\ wi \in Slots
          /\ stable' => stable /\ pubSeq[wi] = pre[wi]
      BY <1>7, <1>0 DEF ReadPost, SamePublication
    <2>2. RoundSlots'
      BY <2>1, <1>000 DEF WorkerInv, RoundSlots
    <2>3. Samples'
      BY <2>1, <1>000 DEF WorkerInv, Samples
    <2>4. ASSUME NEW j \in 1..roundN PROVE CutKnown(j)' /\ DrainKnown(j)'
      <3>1. j \in Slots /\ CutKnown(j) /\ DrainKnown(j)
        BY <1>00 DEF WorkerInv, Round
      <3>2. j < wi' /\ stable' => tails[j] = cut[j]
        BY <2>1, <3>1 DEF CutKnown, TypeWorker
      <3> QED
        BY <2>1, <3>1, <3>2, <1>000 DEF CutKnown, DrainKnown
    <2>5. Round' /\ ConsistentCut'
      BY <2>1, <2>4 DEF Round, ConsistentCut
    <2> QED
      BY <2>2, <2>3, <2>5 DEF WorkerInv
  <1>8. CASE PostDone
    <2>1. /\ wpc = "post" /\ wpc' = "drain" /\ wi' = 1 /\ wi > roundN /\ head' = head
          /\ cut' = cut /\ swept' = swept /\ slotsBefore' = slotsBefore /\ tails' = tails
          /\ roundN' = roundN /\ (stable' => stable /\ nslots = slotsBefore)
      BY <1>8 DEF PostDone
    <2>2. RoundSlots'
      BY <2>1, <1>000 DEF WorkerInv, RoundSlots
    <2>3. Samples'
      BY <2>1, <1>000 DEF WorkerInv, Samples
    <2>4. ASSUME NEW j \in 1..roundN PROVE CutKnown(j)' /\ DrainKnown(j)'
      <3>1. j \in Slots /\ CutKnown(j) /\ DrainKnown(j) /\ j < wi
        BY <1>00, <2>1 DEF WorkerInv, Round, TypeWorker
      <3> QED
        BY <2>1, <3>1, <1>000 DEF CutKnown, DrainKnown
    \* A slot outside the round is unregistered: no slot was added since slotsBefore.
    <2>5. ASSUME stable', NEW q \in Slots, q > roundN PROVE cut[q] = 0
      <3>1. q > nslots
        BY <2>5, <2>1 DEF WorkerInv, RoundSlots, TypeProducers, TypeWorker, Slots
      <3>2. issued[q] = 0
        BY <3>1 DEF Unregistered
      <3> QED
        BY <3>2 DEF WorkerInv, Samples, TypeWorker
    <2>6. Round' /\ ConsistentCut'
      BY <2>1, <2>4, <2>5 DEF Round, ConsistentCut
    <2> QED
      BY <2>2, <2>3, <2>6 DEF WorkerInv
  <1>9. CASE Drain
    <2>1. /\ wpc = "drain" /\ wpc' = "drain" /\ wi' = wi /\ cut' = cut /\ swept' = swept
          /\ slotsBefore' = slotsBefore /\ tails' = tails /\ roundN' = roundN
          /\ stable' = stable /\ wi \in 1..roundN /\ wi \in Slots
          /\ head[wi] < tails[wi] /\ head' = [head EXCEPT ![wi] = @ + 1]
      BY <1>9, <1>0 DEF Drain, roundVars, TypeWorker
    <2>2. head[wi] + 1 <= tails[wi] /\ tails[wi] <= tail[wi]
      <3>1. DrainKnown(wi)
        BY <2>1 DEF WorkerInv, Round
      <3> QED
        BY <2>1, <3>1 DEF DrainKnown, TypeWorker
    <2>3. RoundSlots'
      BY <2>1, <1>000 DEF WorkerInv, RoundSlots, TypeWorker
    <2>4. Samples'
      <3>1. ASSUME NEW q \in Slots
            PROVE  cut[q] <= issued[q] /\ head'[q] <= tail[q] /\ swept[q] <= head'[q]
        <4>1. CASE q = wi
          BY <4>1, <2>1, <2>2 DEF WorkerInv, Samples, TypeWorker, TypeProducers
        <4>2. CASE q # wi
          BY <4>2, <2>1 DEF WorkerInv, Samples, TypeWorker
        <4> QED
          BY <4>1, <4>2
      <3> QED
        BY <3>1, <2>1, <1>000 DEF Samples
    <2>5. ASSUME NEW j \in 1..roundN PROVE CutKnown(j)' /\ DrainKnown(j)'
      <3>1. j \in Slots /\ DrainKnown(j)
        BY <1>00 DEF WorkerInv, Round
      <3>2. CASE j = wi
        BY <3>1, <3>2, <2>1, <2>2, <1>000 DEF CutKnown, DrainKnown, TypeWorker
      <3>3. CASE j # wi
        BY <3>1, <3>3, <2>1, <1>000 DEF CutKnown, DrainKnown, TypeWorker
      <3> QED
        BY <3>2, <3>3
    <2>6. Round' /\ ConsistentCut'
      BY <2>1, <2>5 DEF WorkerInv, Round, ConsistentCut
    <2> QED
      BY <2>3, <2>4, <2>6 DEF WorkerInv
  <1>10. CASE DrainNext
    <2>1. /\ wpc = "drain" /\ wpc' = "drain" /\ wi' = wi + 1 /\ cut' = cut
          /\ swept' = swept /\ slotsBefore' = slotsBefore /\ tails' = tails
          /\ roundN' = roundN /\ stable' = stable /\ head' = head
          /\ head[wi] >= tails[wi] /\ wi \in Slots
      BY <1>10, <1>0 DEF DrainNext
    <2>2. RoundSlots'
      BY <2>1, <1>000 DEF WorkerInv, RoundSlots
    <2>3. Samples'
      BY <2>1, <1>000 DEF WorkerInv, Samples
    <2>4. ASSUME NEW j \in 1..roundN PROVE CutKnown(j)' /\ DrainKnown(j)'
      <3>1. j \in Slots /\ DrainKnown(j)
        BY <1>00 DEF WorkerInv, Round
      <3>2. j < wi + 1 => head[j] = tails[j]
        BY <3>1, <2>1 DEF DrainKnown, TypeWorker
      <3> QED
        BY <3>1, <3>2, <2>1, <1>000 DEF CutKnown, DrainKnown
    <2>5. Round' /\ ConsistentCut'
      BY <2>1, <2>4 DEF WorkerInv, Round, ConsistentCut
    <2> QED
      BY <2>2, <2>3, <2>5 DEF WorkerInv
  <1>11. CASE DrainedStable
    <2>1. /\ wpc = "drain" /\ wpc' = "sweep" /\ wi > roundN /\ stable /\ cut' = cut
          /\ swept' = swept /\ slotsBefore' = slotsBefore /\ roundN' = roundN
          /\ head' = head
      BY <1>11 DEF DrainedStable, workerFrame, roundVars
    <2>2. RoundSlots'
      BY <2>1, <1>000 DEF WorkerInv, RoundSlots
    <2>3. Samples'
      BY <2>1, <1>000 DEF WorkerInv, Samples
    <2>4. Round'
      BY <2>1 DEF Round, CutKnown, DrainKnown
    <2>5. ASSUME NEW q \in Slots PROVE head[q] = cut[q]
      <3>1. CASE q <= roundN
        <4>1. q \in 1..roundN /\ q < wi
          BY <3>1, <2>1 DEF Slots, TypeWorker
        <4>2. DrainKnown(q)
          BY <4>1 DEF WorkerInv, Round
        <4> QED
          BY <4>1, <4>2, <2>1 DEF DrainKnown
      <3>2. CASE q > roundN
        BY <3>2, <2>1 DEF WorkerInv, Round, RoundSlots
      <3> QED
        BY <3>1, <3>2 DEF Slots, TypeWorker
    <2>6. ConsistentCut'
      BY <2>1, <2>5 DEF ConsistentCut, TypeWorker
    <2> QED
      BY <2>2, <2>3, <2>4, <2>6 DEF WorkerInv
  <1>12. CASE DrainedUnstable \/ NotifyDone
    <2>1. /\ wpc' \in Outside /\ slotsBefore' = 0 /\ cut' = [q \in Slots |-> 0]
          /\ swept' = swept /\ roundN' = roundN /\ head' = head
      BY <1>12 DEF DrainedUnstable, NotifyDone, EndScope, Outside
    <2>2. RoundSlots'
      BY <2>1, <1>000 DEF WorkerInv, RoundSlots, TypeProducers, Outside
    <2>3. Samples'
      BY <2>1, <1>000 DEF WorkerInv, Samples, TypeProducers
    <2> QED
      BY <2>1, <2>2, <2>3, OutsideRound DEF WorkerInv
  <1>13. CASE Sweep
    <2>1. /\ wpc' \in Outside /\ slotsBefore' = slotsBefore /\ cut' = cut
          /\ swept' = head /\ roundN' = roundN /\ head' = head
      BY <1>13 DEF Sweep, Outside, roundVars
    <2>2. RoundSlots'
      BY <2>1, <1>000 DEF WorkerInv, RoundSlots, Outside
    <2>3. Samples'
      BY <2>1, <1>000 DEF WorkerInv, Samples, TypeWorker
    <2> QED
      BY <2>1, <2>2, <2>3, OutsideRound DEF WorkerInv
  <1> QED
    BY <1>1, <1>2, <1>3, <1>4, <1>5, <1>6, <1>7, <1>8, <1>9, <1>10, <1>11, <1>12, <1>13
       DEF WorkerStep

-----------------------------------------------------------------------------
(* Tickets *)

\* Every served ticket stays covered by the last sweep: a round serves only
\* tickets drawn before its snapshot (workerLoop, serveThrough).
LEMMA PromisedStep ==
  ASSUME TypeOK, Window, WorkerInv, Promised, [Next]_vars
  PROVE  Promised'
  <1> USE DEF TypeOK
  <1>1. ASSUME NEW p \in Slots, DrawTicket(p) PROVE Promised'
    <2>1. /\ quiesceIssued' = quiesceIssued + 1 /\ quiesceCompleted' = quiesceCompleted
          /\ issued' = issued /\ serveThrough' = serveThrough /\ wpc' = wpc
          /\ cut' = cut /\ swept' = swept
          /\ issuedAt' = [issuedAt EXCEPT ![quiesceIssued + 1] = issued]
      BY <1>1 DEF DrawTicket, workerFrame, loopVars
    <2>2. \A t \in Tickets : t <= quiesceIssued => issuedAt'[t] = issuedAt[t]
      BY <2>1 DEF TypeWaiters, Tickets
    <2>3. \A t \in Tickets : t <= quiesceIssued' => t <= quiesceIssued \/ issuedAt'[t] = issued
      BY <2>1 DEF TypeWaiters, Tickets
    <2>4. \A t \in Tickets, q \in Slots :
            t <= quiesceIssued' => issuedAt'[t][q] <= issued[q]
      BY <2>2, <2>3 DEF Promised, TypeProducers
    <2>5. quiesceCompleted' <= quiesceIssued' /\ serveThrough' <= quiesceIssued'
      BY <2>1 DEF Promised, TypeWaiters, TypeWorker
    <2>6. \A t \in Tickets : t <= quiesceCompleted \/ t <= serveThrough => t <= quiesceIssued
      BY DEF Promised, TypeWaiters, TypeWorker, Tickets
    <2> QED
      BY <2>1, <2>2, <2>4, <2>5, <2>6 DEF Promised
  <1>2. ASSUME NEW p \in Slots, ProducerAction(p) \/ Shutdown, ~DrawTicket(p) PROVE Promised'
    <2>1. /\ quiesceIssued' = quiesceIssued /\ quiesceCompleted' = quiesceCompleted
          /\ issuedAt' = issuedAt
      BY <1>2 DEF ProducerAction, ProducerStep, waitVars, syncVars, Register, Open, Park,
           AwaitQuiesce, SpanCommit, SpanReserve, Stage, FlushCommit, FlushPush,
           CloseWindow, Bump, Wake, QuiesceWake, QuiesceCheck, Shutdown
    <2>2. /\ serveThrough' = serveThrough /\ cut' = cut /\ swept' = swept
          /\ wpc' = wpc \/ (wpc = "asleep" /\ wpc' = "wait")
      BY <1>2, ProducerFrame DEF loopVars
    <2>3. \A q \in Slots : issued[q] <= issued'[q] /\ issued'[q] \in Int
      <3>1. \A q \in Slots : issued[q] <= issued'[q]
        BY <1>2, QuietWhileEven
      <3>2. \A q \in Slots : issued'[q] \in Int
        BY <1>2 DEF TypeProducers, ProducerAction, ProducerStep, Register, Open, Park,
             AwaitQuiesce, SpanCommit, SpanReserve, Stage, FlushCommit, FlushPush,
             CloseWindow, Bump, Wake, QuiesceWake, QuiesceCheck, Shutdown
      <3> QED
        BY <3>1, <3>2
    <2>4. \A t \in Tickets, q \in Slots : t <= quiesceIssued => issuedAt[t][q] <= issued'[q]
      BY <2>3 DEF Promised, TypeWaiters, TypeProducers
    <2> QED
      BY <2>1, <2>2, <2>4 DEF Promised
  <1>3. CASE WorkerStep
    <2>1. issued' = issued /\ issuedAt' = issuedAt /\ quiesceIssued' = quiesceIssued
      BY <1>3, WorkerFrame DEF waitVars
    <2>2. CASE CaptureTickets
      BY <2>1, <2>2 DEF CaptureTickets, Promised, syncVars, TypeWaiters
    <2>3. CASE PreDone
      <3>1. \A t \in Tickets : t <= serveThrough => t <= quiesceIssued
        BY DEF Promised, TypeWorker, TypeWaiters, Tickets
      <3> QED
        BY <2>1, <2>3, <3>1 DEF PreDone, Promised, syncVars, loopVars
    \* The sweep applied the whole cut, which covers every ticket of the round.
    <2>4. CASE Sweep
      <3>1. head = cut /\ \A q \in Slots : swept[q] <= head[q]
        BY <2>4 DEF Sweep, WorkerInv, ConsistentCut, Samples
      <3>2. \A t \in Tickets, q \in Slots : t <= serveThrough => issuedAt[t][q] <= head[q]
        BY <2>4, <3>1 DEF Sweep, Promised
      <3>3. \A t \in Tickets, q \in Slots : t <= quiesceCompleted => issuedAt[t][q] <= head[q]
        BY <3>1 DEF Promised, TypeWaiters, TypeWorker
      <3> QED
        BY <2>1, <2>4, <3>2, <3>3 DEF Sweep, Promised, syncVars, loopVars
    <2>5. CASE Complete
      BY <2>1, <2>5 DEF Complete, Served, Promised, workerFrame, loopVars
    <2>6. CASE DrainedUnstable \/ NotifyDone
      BY <2>1, <2>6 DEF DrainedUnstable, NotifyDone, EndScope, Promised, syncVars, TypeWaiters
    <2>7. CASE \/ WaitForWork \/ CaptureWork \/ ReadSlotsEpoch \/ RefreshSlots \/ ReadPre
               \/ ReadTail \/ TailsDone \/ ReadPost \/ PostDone \/ Drain \/ DrainNext
               \/ DrainedStable \/ ExitCheck
      <3>1. /\ quiesceCompleted' = quiesceCompleted /\ serveThrough' = serveThrough
            /\ cut' = cut /\ swept' = swept
            /\ wpc' \in {"tails", "post", "drain", "sweep"} =>
                  wpc \in {"tails", "post", "drain", "sweep"}
            /\ wpc' # "complete"
        BY <2>7 DEF WaitForWork, CaptureWork, ReadSlotsEpoch, RefreshSlots, ReadPre,
             ReadTail, TailsDone, ReadPost, PostDone, Drain, DrainNext, DrainedStable,
             ExitCheck, syncVars, loopVars, workerFrame
      <3> QED
        BY <2>1, <3>1 DEF Promised
    <2> QED
      BY <1>3, <2>2, <2>3, <2>4, <2>5, <2>6, <2>7 DEF WorkerStep
  <1>4. CASE UNCHANGED vars
    BY <1>4 DEF vars, prodVars, syncVars, waitVars, loopVars, Promised
  <1> QED
    BY <1>1, <1>2, <1>3, <1>4, SlotsNonempty DEF Next, ProducerAction, ProducerStep, Joined, Spin

-----------------------------------------------------------------------------
(* The inductive invariant and the theorems *)

IInv == TypeOK /\ Unregistered /\ Window /\ WorkerInv /\ Promised

\* The inductive invariant holds initially.
LEMMA InitInv == Init => IInv
  <1> SUFFICES ASSUME Init PROVE IInv
    OBVIOUS
  <1>1. TypeProducers /\ Window
    BY ProducersInit
  <1>2. TypeWaiters
    <2>1. quiescing \in [Slots -> BOOLEAN] /\ stop \in BOOLEAN
      BY Zenon DEF Init
    <2>2. ticket \in [Slots -> Nat] /\ issuedAt \in [Tickets -> [Slots -> Nat]]
      BY DEF Init
    <2>3. workEpoch \in Nat /\ quiesceIssued \in 0..MaxTicket /\ quiesceCompleted \in Nat
      BY PublicationAssumption DEF Init
    <2> QED
      BY <2>1, <2>2, <2>3 DEF TypeWaiters
  <1>3. TypeWorker
    <2>1. stable \in BOOLEAN
      BY Zenon DEF Init
    <2>2. 1 \in 1..(NSlots + 1) /\ 0 \in 0..NSlots
      BY PublicationAssumption
    <2> QED
      BY <2>1, <2>2 DEF Init, TypeWorker, WorkerPc
  <1>4. Unregistered
    BY DEF Init, Unregistered
  <1>5. RoundSlots /\ Samples /\ Round /\ ConsistentCut
    BY DEF Init, RoundSlots, Samples, Round, CutKnown, DrainKnown, ConsistentCut
  <1>6. Promised
    BY DEF Init, Promised, Tickets
  <1> QED
    BY <1>1, <1>2, <1>3, <1>4, <1>5, <1>6 DEF IInv, TypeOK, WorkerInv

\* The inductive invariant is preserved by every step.
LEMMA StepInv == IInv /\ [Next]_vars => IInv'
  <1> SUFFICES ASSUME IInv, [Next]_vars PROVE IInv'
    OBVIOUS
  <1> USE DEF IInv, TypeOK
  <1>1. TypeProducers' /\ Window'
    BY ProducersStep
  <1>2. TypeWaiters'
    BY WaitersStep
  <1>3. TypeWorker'
    BY WorkerTypeStep DEF WorkerInv
  <1>4. Unregistered'
    BY UnregisteredStep
  <1>5. WorkerInv'
    <2>1. ASSUME NEW p \in Slots, ProducerAction(p) \/ Shutdown PROVE WorkerInv'
      BY <2>1, <1>1, ProducerKeepsWorkerInv
    <2>2. CASE WorkerStep
      BY <2>2, <1>3, WorkerKeepsWorkerInv
    <2>3. CASE UNCHANGED vars
      BY <2>3 DEF vars, prodVars, roundVars, WorkerInv, RoundSlots, Samples, Round, CutKnown,
                  DrainKnown, ConsistentCut
    <2> QED
      BY <2>1, <2>2, <2>3, SlotsNonempty DEF Next, ProducerAction, Joined, Spin
  <1>6. Promised'
    BY PromisedStep
  <1> QED
    BY <1>1, <1>2, <1>3, <1>4, <1>5, <1>6

\* The inductive invariant holds in every reachable state.
LEMMA AlwaysInv == Spec => []IInv
  BY InitInv, StepInv, PTL DEF Spec

\* Every reachable state of the publication protocol is well typed; in particular
\* no open batch outgrows batchLimit (publish, flushSlot).
THEOREM TypeCorrect == Spec => []TypeOK
  <1>1. IInv => TypeOK
    BY DEF IInv
  <1> QED
    BY <1>1, AlwaysInv, PTL

\* For any number of mutators and any capacities, a sweep sees a consistent cut:
\* the messages applied are those all producers had issued at one instant (doRound).
THEOREM CutIsConsistent == Spec => []ConsistentCut
  <1>1. IInv => ConsistentCut
    BY DEF IInv, WorkerInv
  <1> QED
    BY <1>1, AlwaysInv, PTL

\* A completed quiesce ticket is backed by a sweep over every message issued
\* before the ticket was drawn, by any mutator (awaitQuiesce, workerLoop).
THEOREM QuiesceIsCovered == Spec => []QuiesceCovers
  <1>1. IInv => QuiesceCovers
    BY DEF IInv, TypeOK, Promised, QuiesceCovers, TypeWaiters, Tickets
  <1> QED
    BY <1>1, AlwaysInv, PTL

-----------------------------------------------------------------------------
(* Arithmetic of the ring *)

\* Quotient and remainder are unique (index & mask of SpscQueue).
LEMMA RemainderUnique ==
  ASSUME NEW c \in Nat \ {0}, NEW q \in Int, NEW u \in Int,
         NEW r \in 0..(c - 1), NEW v \in 0..(c - 1), c * q + r = c * u + v
  PROVE  r = v
  <1>1. c * (q - u) = v - r
    OBVIOUS
  <1>2. CASE q - u >= 1
    <2>1. c * (q - u) >= c
      BY <1>2
    <2> QED
      BY <1>1, <2>1
  <1>3. CASE q - u <= -1
    <2>1. c * (q - u) <= -c
      BY <1>3
    <2> QED
      BY <1>1, <2>1
  <1>4. CASE q = u
    BY <1>4
  <1> QED
    BY <1>2, <1>3, <1>4

\* Moving a position on without passing the end of the ring moves its index on as much.
LEMMA RemainderAdd ==
  ASSUME NEW c \in Nat \ {0}, NEW t \in Nat, NEW s \in Nat, (t % c) + s < c
  PROVE  (t + s) % c = (t % c) + s
  <1> DEFINE a == t \div c
             b == (t + s) \div c
             x == (t + s) % c
             y == (t % c) + s
  <1>1. t = c * a + (t % c) /\ (t % c) \in 0..(c - 1) /\ a \in Int
    OBVIOUS
  <1>2. t + s = c * b + x /\ x \in 0..(c - 1) /\ b \in Int
    OBVIOUS
  <1>3. y \in 0..(c - 1)
    BY <1>1
  <1>4. c * a + y = c * b + x
    BY <1>1, <1>2
  <1> HIDE DEF a, b, x, y
  <1>5. y = x
    BY <1>1, <1>2, <1>3, <1>4, RemainderUnique
  <1> QED
    BY <1>5 DEF x, y

\* The index of a ring position lies in the ring.
LEMMA RemainderRange ==
  ASSUME NEW c \in Nat \ {0}, NEW t \in Nat
  PROVE  (t % c) \in 0..(c - 1)
  OBVIOUS

-----------------------------------------------------------------------------
(* A reserved run is free *)

\* What RunIsFree says of one producer on the zero-copy path.
Run(p) ==
    /\ tail[p] + staged[p] + spanLeft[p] - head[p] <= Cap
    /\ staged[p] + spanLeft[p] > 0 => (tail[p] % Cap) + staged[p] + spanLeft[p] <= Cap

\* The runs of all producers are free.
Runs == SpanPath => \A p \in Slots : Run(p)

\* A step of one producer leaves the runs of the others alone.
LEMMA OthersRun ==
  ASSUME NEW p \in Slots, ProducerAction(p), TypeProducers
  PROVE  /\ head' = head
         /\ \A q \in Slots : q # p =>
               tail'[q] = tail[q] /\ staged'[q] = staged[q] /\ spanLeft'[q] = spanLeft[q]
  <1>1. head' = head
    BY ProducerFrame
  <1>2. \A q \in Slots : q # p =>
               tail'[q] = tail[q] /\ staged'[q] = staged[q] /\ spanLeft'[q] = spanLeft[q]
    BY DEF TypeProducers, ProducerAction, ProducerStep, Register, Open, Park, AwaitQuiesce,
           SpanCommit, SpanReserve, Stage, FlushCommit, FlushPush, CloseWindow, Bump, Wake,
           DrawTicket, QuiesceWake, QuiesceCheck
  <1> QED
    BY <1>1, <1>2

\* A producer keeps its own run within the free part of the ring: a reservation is
\* cut at the reader's position and at the end of the ring, a message takes one slot
\* of it, and a commit moves the tail over what was written (beginSpan, commitSpan).
LEMMA OwnRun ==
  ASSUME NEW p \in Slots, ProducerAction(p), TypeProducers, TypeWorker, Samples, SpanPath, Run(p)
  PROVE  Run(p)'
  <1> USE PublicationAssumption
  <1>1. head' = head
    BY ProducerFrame
  <1>2. /\ tail[p] \in Nat /\ staged[p] \in Nat /\ spanLeft[p] \in Nat /\ head[p] \in Nat
        /\ head[p] <= tail[p]
    BY DEF TypeProducers, TypeWorker, Samples
  <1>3. (tail[p] % Cap) \in 0..(Cap - 1)
    BY <1>2, RemainderRange
  <1>4. CASE SpanCommit(p)
    <2>1. tail'[p] = tail[p] + staged[p] /\ staged'[p] = 0 /\ spanLeft'[p] = 0
      BY <1>4 DEF SpanCommit, TypeProducers
    <2> QED
      BY <2>1, <1>1, <1>2, <1>4 DEF Run, SpanCommit
  <1>5. CASE SpanReserve(p)
    <2>1. tail'[p] = tail[p] /\ staged'[p] = 0 /\ spanLeft'[p] = BeginSpan(p) /\ staged[p] = 0
      BY <1>5 DEF SpanReserve, TypeProducers
    <2>2. BeginSpan(p) <= Cap - (tail[p] - head[p]) /\ BeginSpan(p) <= Cap - (tail[p] % Cap)
          /\ BeginSpan(p) \in Int
      BY <1>2, <1>3 DEF BeginSpan, Min2
    <2> QED
      BY <2>1, <2>2, <1>1, <1>2, <1>3 DEF Run
  <1>6. CASE Stage(p)
    <2>1. /\ tail'[p] = tail[p] /\ staged'[p] = staged[p] + 1
          /\ spanLeft'[p] = spanLeft[p] - 1 /\ spanLeft[p] > 0
      BY <1>6 DEF Stage, TypeProducers
    <2> QED
      BY <2>1, <1>1, <1>2, <1>3 DEF Run
  <1>7. CASE FlushCommit(p)
    <2>1. tail'[p] = tail[p] + staged[p] /\ staged'[p] = 0 /\ spanLeft'[p] = spanLeft[p]
      BY <1>7 DEF FlushCommit, TypeProducers
    <2>2. spanLeft[p] > 0 => (tail[p] % Cap) + staged[p] < Cap
      BY <1>2, <1>3 DEF Run
    <2>3. spanLeft[p] > 0 => (tail[p] + staged[p]) % Cap = (tail[p] % Cap) + staged[p]
      BY <2>2, <1>2, RemainderAdd
    <2> QED
      BY <2>1, <2>3, <1>1, <1>2, <1>3 DEF Run
  <1>8. CASE \/ Register(p) \/ Open(p) \/ Park(p) \/ AwaitQuiesce(p) \/ FlushPush(p)
             \/ CloseWindow(p) \/ Bump(p) \/ Wake(p) \/ DrawTicket(p) \/ QuiesceWake(p)
             \/ QuiesceCheck(p)
    <2>1. tail' = tail /\ staged' = staged /\ spanLeft' = spanLeft
      BY <1>8 DEF Register, Open, Park, AwaitQuiesce, FlushPush, CloseWindow, Bump, Wake,
                  DrawTicket, QuiesceWake, QuiesceCheck
    <2> QED
      BY <2>1, <1>1 DEF Run
  <1> QED
    BY <1>4, <1>5, <1>6, <1>7, <1>8 DEF ProducerAction, ProducerStep

\* Every step keeps every run free; the worker only ever frees ring slots (pop).
LEMMA RunsStep ==
  ASSUME TypeProducers, TypeWorker, WorkerInv, Runs, [Next]_vars
  PROVE  Runs'
  <1> SUFFICES ASSUME SpanPath, NEW q \in Slots PROVE Run(q)'
    BY DEF Runs
  <1>0. Run(q) /\ Samples
    BY DEF Runs, WorkerInv
  <1>1. ASSUME NEW p \in Slots, ProducerAction(p) PROVE Run(q)'
    <2>1. CASE q = p
      BY <2>1, <1>0, <1>1, OwnRun
    <2>2. CASE q # p
      BY <2>2, <1>0, <1>1, OthersRun DEF Run
    <2> QED
      BY <2>1, <2>2
  <1>2. CASE Shutdown
    BY <1>0, <1>2 DEF Shutdown, workerFrame, Run
  <1>3. CASE WorkerStep
    <2>1. tail' = tail /\ staged' = staged /\ spanLeft' = spanLeft
      BY <1>3, WorkerFrame
    <2>2. head[q] <= head'[q] /\ head'[q] \in Nat
      BY <1>3 DEF TypeWorker, WorkerStep, workerFrame, WaitForWork, CaptureWork, CaptureTickets,
           ReadSlotsEpoch, RefreshSlots, ReadPre, PreDone, ReadTail, TailsDone, ReadPost,
           PostDone, Drain, DrainNext, DrainedStable, DrainedUnstable, Sweep, Complete,
           NotifyDone, ExitCheck
    <2>3. tail[q] \in Nat /\ staged[q] \in Nat /\ spanLeft[q] \in Nat /\ head[q] \in Nat /\ Cap \in Nat
      BY PublicationAssumption DEF TypeProducers, TypeWorker
    <2> QED
      BY <2>1, <2>2, <2>3, <1>0 DEF Run
  <1>4. CASE UNCHANGED vars
    BY <1>0, <1>4 DEF vars, prodVars, Run
  <1> QED
    BY <1>1, <1>2, <1>3, <1>4 DEF Next, ProducerAction, Joined, Spin

\* For any ring and run size, on either publish path, a producer never writes into
\* ring slots the worker has not read, and a run never wraps around the end of the
\* ring (writeToSpan, beginSpan, commitSpan).
THEOREM RunsAreFree == Spec => []RunIsFree
  <1>1. Init => Runs
    BY PublicationAssumption DEF Init, Runs, Run
  <1>2. IInv /\ Runs /\ [Next]_vars => Runs'
    BY RunsStep DEF IInv, TypeOK
  <1>3. IInv /\ Runs => RunIsFree
    BY DEF IInv, WorkerInv, Samples, Runs, Run, RunIsFree
  <1> QED
    BY <1>1, <1>2, <1>3, AlwaysInv, PTL DEF Spec
-----------------------------------------------------------------------------
(* Everything is swept before the worker exits *)

\* The producer has messages whose epoch bump is still to come.
Pending(p) == batchN[p] > 0 \/ ppc[p] \in {"flush", "close", "bump"}

\* After ~Runtime set stop_ no producer runs and no batch is open.
Stopped == stop => \A p \in Slots : ppc[p] = "none" /\ batchN[p] = 0

Captured == {"tickets", "slots", "refresh", "pre", "tails", "post", "drain", "sweep",
             "complete", "notify"}
AfterCut == {"tails", "post", "drain", "sweep", "complete", "notify"}

\* If the epoch has not moved since the worker captured it, a producer that has issued
\* something the round did not see has yet to bump the epoch.
Late ==
    /\ wpc \in Captured => roundWork <= workEpoch
    /\ wpc \in AfterCut /\ workEpoch = roundWork =>
          \A p \in Slots : Pending(p) \/ issued[p] = cut[p]
    /\ wpc \in {"complete", "notify"} => swept = cut
    /\ wpc = "exit" => seenWork <= workEpoch
    /\ wpc = "exit" /\ workEpoch = seenWork =>
          \A p \in Slots : Pending(p) \/ issued[p] = swept[p]
    /\ wpc = "exited" => stop /\ swept = issued /\ quiesceCompleted = quiesceIssued

\* A producer thread that has finished stays finished (lifecycle rule of ~Runtime).
LEMMA StoppedStep ==
  ASSUME TypeProducers, TypeWaiters, Window, Unregistered, Stopped, [Next]_vars
  PROVE  Stopped'
  <1>1. ASSUME NEW p \in Slots, ProducerAction(p) PROVE Stopped'
    <2>1. ~stop /\ stop' = stop
      <3>1. stop' = stop
        BY <1>1 DEF syncVars, ProducerAction, ProducerStep, Register, Open, Park, AwaitQuiesce,
             SpanCommit, SpanReserve, Stage, FlushCommit, FlushPush, CloseWindow, Bump, Wake,
             DrawTicket, QuiesceWake, QuiesceCheck
      <3>2. Register(p) => ~stop
        BY DEF Register
      <3>3. ~Register(p) => ppc[p] # "none"
        BY <1>1 DEF ProducerAction, ProducerStep, Open, Park, AwaitQuiesce,
             SpanCommit, SpanReserve, Stage, FlushCommit, FlushPush, CloseWindow, Bump, Wake,
             DrawTicket, QuiesceWake, QuiesceCheck
      <3> QED
        BY <3>1, <3>2, <3>3 DEF Stopped
    <2> QED
      BY <2>1 DEF Stopped
  <1>2. CASE Shutdown
    <2>1. ASSUME NEW q \in Slots PROVE batchN[q] = 0
      <3>1. CASE q > nslots
        BY <3>1 DEF Unregistered, Window
      <3>2. CASE q <= nslots
        BY <3>2, <1>2 DEF Shutdown, Slots
      <3> QED
        BY <3>1, <3>2 DEF Slots, TypeProducers
    <2>2. ppc' = [q \in Slots |-> "none"] /\ batchN' = batchN
      BY <1>2 DEF Shutdown
    <2> QED
      BY <2>1, <2>2 DEF Stopped
  <1>3. CASE WorkerStep
    BY <1>3, WorkerFrame DEF Stopped
  <1>4. CASE UNCHANGED vars
    BY <1>4 DEF vars, prodVars, syncVars, Stopped
  <1> QED
    BY <1>1, <1>2, <1>3, <1>4 DEF Next, ProducerAction, Joined, Spin

\* A producer that issues something is pending afterwards, and stops being pending
\* only by moving the epoch (publish, flushSlot).
LEMMA PendingKept ==
  ASSUME TypeProducers, Window, Unregistered, NEW p \in Slots, ProducerAction(p),
         NEW q \in Slots, workEpoch' = workEpoch
  PROVE  Pending(q)' \/ (~Pending(q) /\ issued'[q] = issued[q])
  <1> USE DEF TypeProducers, Window, Goto, Pending
  <1>1. CASE Stage(p)
    BY <1>1 DEF Stage
  <1>2. CASE CloseWindow(p)
    BY <1>2 DEF CloseWindow
  <1>3. CASE FlushCommit(p) \/ FlushPush(p)
    BY <1>3 DEF FlushCommit, FlushPush
  <1>4. CASE Open(p) \/ Park(p) \/ AwaitQuiesce(p)
    BY <1>4 DEF Open, Park, AwaitQuiesce
  <1>5. CASE SpanCommit(p) \/ SpanReserve(p)
    BY <1>5 DEF SpanCommit, SpanReserve
  <1>6. CASE Wake(p) \/ DrawTicket(p) \/ QuiesceWake(p) \/ QuiesceCheck(p)
    BY <1>6 DEF Wake, DrawTicket, QuiesceWake, QuiesceCheck
  <1>7. CASE Bump(p)
    BY <1>7 DEF Bump
  <1>8. CASE Register(p)
    BY <1>8 DEF Register, Unregistered, Slots
  <1> QED
    BY <1>1, <1>2, <1>3, <1>4, <1>5, <1>6, <1>7, <1>8 DEF ProducerAction, ProducerStep
\* The epoch only grows, and a round's capture and cut are the worker's own.
LEMMA ProducerKeepsLate ==
  ASSUME TypeOK, Window, Unregistered, Late, Stopped, NEW p \in Slots, ProducerAction(p)
  PROVE  Late'
  <1> USE DEF TypeOK
  <1>1. /\ roundWork' = roundWork /\ seenWork' = seenWork /\ cut' = cut /\ swept' = swept
        /\ wpc' = wpc \/ (wpc = "asleep" /\ wpc' = "wait")
    BY ProducerFrame DEF loopVars
  <1>2. workEpoch' = workEpoch \/ workEpoch' = workEpoch + 1
    BY DEF syncVars, ProducerAction, ProducerStep, Register, Open, Park, AwaitQuiesce,
           SpanCommit, SpanReserve, Stage, FlushCommit, FlushPush, CloseWindow, Bump, Wake,
           DrawTicket, QuiesceWake, QuiesceCheck
  <1>3. workEpoch' = workEpoch =>
          \A q \in Slots : Pending(q)' \/ (~Pending(q) /\ issued'[q] = issued[q])
    BY PendingKept
  <1>4. wpc # "exited"
    <2>1. Register(p) => ~stop
      BY DEF Register
    <2>2. ~Register(p) => ppc[p] # "none"
      BY DEF ProducerAction, ProducerStep, Open, Park, AwaitQuiesce,
           SpanCommit, SpanReserve, Stage, FlushCommit, FlushPush, CloseWindow, Bump, Wake,
           DrawTicket, QuiesceWake, QuiesceCheck
    <2> QED
      BY <2>1, <2>2 DEF Stopped, Late
  <1>5. workEpoch \in Nat /\ roundWork \in Nat /\ seenWork \in Nat
    BY DEF TypeWaiters, TypeWorker
  <1>6. (wpc \in Captured => roundWork <= workEpoch)' /\ (wpc = "exit" => seenWork <= workEpoch)'
    BY <1>1, <1>2, <1>5 DEF Late, Captured
  <1>7. (wpc \in AfterCut /\ workEpoch = roundWork =>
           \A q \in Slots : Pending(q) \/ issued[q] = cut[q])'
    <2> SUFFICES ASSUME wpc' \in AfterCut, workEpoch' = roundWork', NEW q \in Slots
                 PROVE  Pending(q)' \/ issued'[q] = cut'[q]
      OBVIOUS
    <2>1. wpc \in AfterCut /\ wpc \in Captured
      BY <1>1 DEF AfterCut, Captured
    <2>2. workEpoch' = workEpoch /\ workEpoch = roundWork
      BY <1>1, <1>2, <1>5, <2>1 DEF Late
    <2> QED
      BY <2>1, <2>2, <1>1, <1>3 DEF Late
  <1>8. (wpc = "exit" /\ workEpoch = seenWork =>
           \A q \in Slots : Pending(q) \/ issued[q] = swept[q])'
    <2> SUFFICES ASSUME wpc' = "exit", workEpoch' = seenWork', NEW q \in Slots
                 PROVE  Pending(q)' \/ issued'[q] = swept'[q]
      OBVIOUS
    <2>1. wpc = "exit" /\ workEpoch' = workEpoch /\ workEpoch = seenWork
      BY <1>1, <1>2, <1>5 DEF Late
    <2> QED
      BY <2>1, <1>1, <1>3 DEF Late
  <1>9. (wpc \in {"complete", "notify"} => swept = cut)' /\ wpc' # "exited"
    BY <1>1, <1>4 DEF Late
  <1> QED
    BY <1>6, <1>7, <1>8, <1>9 DEF Late

\* The worker captures the epoch before its cut, sweeps exactly the cut, and leaves
\* only if nothing is pending and no epoch has passed since (workerLoop).
LEMMA WorkerKeepsLate ==
  ASSUME TypeOK, Window, WorkerInv, Promised, Late, Stopped, WorkerStep
  PROVE  Late'
  <1> USE DEF TypeOK
  <1>1. /\ workEpoch' = workEpoch /\ issued' = issued /\ batchN' = batchN /\ stop' = stop
        /\ quiesceIssued' = quiesceIssued
    BY WorkerFrame
  <1>2. \A q \in Slots : Pending(q)' <=> Pending(q)
    <2>1. \/ ppc' = ppc
          \/ ppc' = [p \in Slots |-> IF ppc[p] = "qsleep" THEN "qcheck" ELSE ppc[p]]
      BY WorkerFrame
    <2> QED
      BY <1>1, <2>1 DEF Pending
  <1>3. workEpoch \in Nat /\ roundWork \in Nat /\ seenWork \in Nat
    BY DEF TypeWaiters, TypeWorker
  <1> USE DEF Late, Captured, AfterCut
  <1>4. CASE WaitForWork \/ ReadSlotsEpoch \/ CaptureTickets
    <2>1. /\ roundWork' = roundWork /\ (wpc' \in Captured => wpc \in Captured)
          /\ wpc' \in {"asleep", "wait", "work", "slots", "refresh"}
      BY <1>4 DEF WaitForWork, ReadSlotsEpoch, CaptureTickets, workerFrame, loopVars
    <2> QED
      BY <2>1, <1>1
  <1>5. CASE CaptureWork
    <2>1. roundWork' = workEpoch /\ wpc' = "tickets"
      BY <1>5 DEF CaptureWork
    <2> QED
      BY <2>1, <1>1, <1>3
  <1>6. CASE RefreshSlots \/ ReadPre
    <2>1. roundWork' = roundWork /\ wpc' = "pre" /\ wpc \in Captured
      BY <1>6 DEF RefreshSlots, ReadPre, loopVars
    <2> QED
      BY <2>1, <1>1
  <1>7. CASE PreDone
    <2>1. roundWork' = roundWork /\ wpc' = "tails" /\ wpc \in Captured /\ cut' = issued
      BY <1>7 DEF PreDone, loopVars
    <2> QED
      BY <2>1, <1>1
  <1>8. CASE ReadTail \/ TailsDone \/ ReadPost \/ PostDone \/ Drain \/ DrainNext \/ DrainedStable
    <2>1. /\ roundWork' = roundWork /\ cut' = cut /\ wpc \in AfterCut
          /\ wpc' \in {"tails", "post", "drain", "sweep"}
      BY <1>8 DEF ReadTail, TailsDone, ReadPost, PostDone, Drain, DrainNext, DrainedStable,
                  workerFrame, loopVars
    <2> QED
      BY <2>1, <1>1, <1>2
  <1>9. CASE DrainedUnstable
    BY <1>9 DEF DrainedUnstable
  <1>10. CASE Sweep
    <2>1. /\ roundWork' = roundWork /\ cut' = cut /\ wpc = "sweep" /\ wpc' = "complete"
          /\ swept' = head
      BY <1>10 DEF Sweep, loopVars
    <2>2. head = cut
      BY <2>1 DEF WorkerInv, ConsistentCut
    <2> QED
      BY <2>1, <2>2, <1>1, <1>2
  <1>11. CASE Complete
    <2>1. /\ roundWork' = roundWork /\ cut' = cut /\ wpc = "complete" /\ wpc' = "notify"
          /\ swept' = swept
      BY <1>11 DEF Complete, workerFrame, loopVars
    <2> QED
      BY <2>1, <1>1, <1>2
  <1>12. CASE NotifyDone
    <2>1. wpc = "notify" /\ wpc' = "exit" /\ seenWork' = roundWork /\ swept' = swept
      BY <1>12 DEF NotifyDone, DrainedEpoch
    <2>2. swept = cut
      BY <2>1
    <2>3. seenWork' <= workEpoch
      BY <2>1
    <2>4. workEpoch = roundWork => \A q \in Slots : Pending(q) \/ issued[q] = swept[q]
      BY <2>1, <2>2
    <2> QED
      BY <2>1, <2>3, <2>4, <1>1, <1>2
  <1>13. CASE ExitCheck
    <2>1. /\ wpc = "exit" /\ wpc' = IF MayExit THEN "exited" ELSE "wait"
          /\ swept' = swept /\ quiesceCompleted' = quiesceCompleted
      BY <1>13 DEF ExitCheck, workerFrame, syncVars
    <2>2. MayExit => swept = issued /\ quiesceCompleted = quiesceIssued
      <3> SUFFICES ASSUME MayExit PROVE swept = issued /\ quiesceCompleted = quiesceIssued
        OBVIOUS
      <3>1. \A q \in Slots : ~Pending(q)
        BY DEF MayExit, Stopped, Pending
      <3>2. \A q \in Slots : issued[q] = swept[q]
        BY <2>1, <3>1 DEF MayExit
      <3>3. swept = issued
        BY <3>2 DEF TypeProducers, TypeWorker
      <3>4. quiesceCompleted = quiesceIssued
        BY DEF MayExit, Promised, TypeWaiters
      <3> QED
        BY <3>3, <3>4
    <2>3. MayExit => stop
      BY DEF MayExit
    <2> QED
      BY <2>1, <2>2, <2>3, <1>1
  <1> QED
    BY <1>4, <1>5, <1>6, <1>7, <1>8, <1>9, <1>10, <1>11, <1>12, <1>13 DEF WorkerStep

\* Every step preserves what is known about messages the round has not seen.
LEMMA LateStep ==
  ASSUME IInv, Late, Stopped, [Next]_vars
  PROVE  Late'
  <1> USE DEF IInv
  <1>1. ASSUME NEW p \in Slots, ProducerAction(p) PROVE Late'
    BY <1>1, ProducerKeepsLate
  <1>2. CASE WorkerStep
    BY <1>2, WorkerKeepsLate
  <1>3. CASE Shutdown
    <2>1. /\ roundWork' = roundWork /\ seenWork' = seenWork /\ cut' = cut /\ swept' = swept
          /\ workEpoch' = workEpoch /\ issued' = issued /\ batchN' = batchN /\ ~stop
          /\ wpc' = wpc \/ (wpc = "asleep" /\ wpc' = "wait")
      BY <1>3 DEF Shutdown, workerFrame, loopVars, NotifyWork
    <2>2. \A q \in Slots : Pending(q) => Pending(q)'
      <3> SUFFICES ASSUME NEW q \in Slots PROVE ~Pending(q)
        OBVIOUS
      <3>1. CASE q > nslots
        BY <3>1 DEF Unregistered, Window, Pending, TypeOK, TypeProducers
      <3>2. CASE q <= nslots
        BY <3>2, <1>3 DEF Shutdown, Slots, Pending
      <3> QED
        BY <3>1, <3>2 DEF Slots, TypeOK, TypeProducers
    <2> QED
      BY <2>1, <2>2 DEF Late, Captured, AfterCut
  <1>4. CASE UNCHANGED vars
    <2>1. \A q \in Slots : Pending(q)' <=> Pending(q)
      BY <1>4 DEF vars, prodVars, Pending
    <2> QED
      BY <1>4, <2>1 DEF vars, prodVars, syncVars, loopVars, Late
  <1> QED
    BY <1>1, <1>2, <1>3, <1>4 DEF Next, ProducerAction, Joined, Spin

\* For any number of mutators, when the worker has left its loop its last sweep covered
\* every message ever issued and every ticket is served (~Runtime, workerLoop's exit).
THEOREM ExitIsDrained == Spec => []DrainedAtExit
  <1>1. Init => Late /\ Stopped
    BY DEF Init, Late, Stopped, Captured, AfterCut
  <1>2. IInv /\ Late /\ Stopped /\ [Next]_vars => Late' /\ Stopped'
    BY LateStep, StoppedStep DEF IInv, TypeOK
  <1>3. Late => DrainedAtExit
    BY DEF Late, DrainedAtExit
  <1> QED
    BY <1>1, <1>2, <1>3, AlwaysInv, PTL DEF Spec
=============================================================================
