------------------------- MODULE AarcGarbageProofs --------------------------
(***************************************************************************)
(* The asynchronous collector forgets nothing, for every number of         *)
(* mutators, cells, generations and messages, provided batches are         *)
(* published as they are (no folding) and only the thread that allocated   *)
(* an object writes its fields.                                            *)
(*                                                                         *)
(* A reference counter with suspects collects a dead cycle only if one of  *)
(* its cells was marked when the last reference from outside went.  The    *)
(* argument names what a live cell can hang on, its anchors: a root in the *)
(* table, a count of zero, a suspect that is queued.  Every step keeps     *)
(* every live cell within reach of an anchor: a message that takes an      *)
(* anchor's strength away puts the cell among the suspects, the release of *)
(* a reclaimed cell does so for the cells it referred to, and a scan that  *)
(* consumes the suspects condemns the first component nothing rooted leads *)
(* to.  In a quiet state the only anchors left are rooted cells.           *)
(*                                                                         *)
(* With folding this is false: a root removal that is applied before the   *)
(* edge that closes a cycle leaves the cell without a mark (fold_leak).    *)
(***************************************************************************)
EXTENDS AarcRuntimeProofs

-----------------------------------------------------------------------------
(* What the staged and queued messages still have to say *)

\* f runs along the stream s, by the effects of its messages on account x, and ends at n.
Runs(f, s, x, n) ==
    /\ f \in [Nat -> Int]
    /\ \A i \in 1..Len(s) : f[i] = f[i - 1] + Effect(s[i], x)
    /\ f[Len(s)] = n

\* Counting back from the roots B held now, the writer of a field held its object when
\* it wrote.
HeldAtWrites(s, B) ==
    \A i \in 1..Len(s) : s[i].op = "EdgeAdd" =>
        \A f : Runs(f, s, RootAccount(s[i].a), B[s[i].a]) => f[i - 1] > 0

\* Single operations only: a RootCheck or a summed count is the work of foldBatch.
Plain(s) == \A i \in 1..Len(s) : s[i].count = 1 /\ s[i].op # "RootCheck"

\* A root on h is on its way to the table.
Announces(s, h) == \E i \in 1..Len(s) : s[i].op = "RootAdd" /\ s[i].b = h

\* The messages of a stream that has grown by one.
LEMMA AppendedAt ==
  ASSUME NEW s \in Seq(Messages), NEW m \in Messages
  PROVE  /\ Append(s, m) \in Seq(Messages) /\ Len(s) \in Nat /\ Len(Append(s, m)) = Len(s) + 1
         /\ Append(s, m)[Len(s) + 1] = m
         /\ \A i \in 1..Len(s) : Append(s, m)[i] = s[i] /\ i \in 1..(Len(s) + 1)
         /\ Len(s) + 1 \in 1..(Len(s) + 1)
         /\ \A i \in 1..(Len(s) + 1) : i \in 1..Len(s) \/ i = Len(s) + 1
  <1>1. Len(s) \in Nat
    BY LenProperties
  <1>2. /\ Append(s, m) \in Seq(Messages) /\ Len(Append(s, m)) = Len(s) + 1
        /\ Append(s, m)[Len(s) + 1] = m /\ \A i \in 1..Len(s) : Append(s, m)[i] = s[i]
    BY AppendProperties
  <1> QED
    BY <1>1, <1>2

\* Staging a single operation keeps a stream plain.
LEMMA PlainAppend ==
  ASSUME NEW s \in Seq(Messages), NEW m \in Messages, Plain(s), m.count = 1, m.op # "RootCheck"
  PROVE  Plain(Append(s, m))
  BY AppendedAt DEF Plain

\* Staging a message keeps the announcements, and may add one.
LEMMA AnnouncesAppend ==
  ASSUME NEW s \in Seq(Messages), NEW m \in Messages, NEW h
  PROVE  /\ Announces(s, h) => Announces(Append(s, m), h)
         /\ m.op = "RootAdd" /\ m.b = h => Announces(Append(s, m), h)
  <1>1. ASSUME Announces(s, h) PROVE Announces(Append(s, m), h)
    <2>1. PICK i \in 1..Len(s) : s[i].op = "RootAdd" /\ s[i].b = h
      BY <1>1 DEF Announces
    <2> QED
      BY <2>1, AppendedAt DEF Announces
  <1>2. ASSUME m.op = "RootAdd" /\ m.b = h PROVE Announces(Append(s, m), h)
    BY <1>2, AppendedAt DEF Announces
  <1> QED
    BY <1>1, <1>2

\* Staging: the roots move with the effect of the message, so what held still holds.
LEMMA HeldAppend ==
  ASSUME NEW s \in Seq(Messages), NEW m \in Messages, NEW B, NEW C,
         \A h \in Handles : B[h] \in Nat /\ C[h] = B[h] + Effect(m, RootAccount(h)),
         HeldAtWrites(s, B), m.op = "EdgeAdd" => B[m.a] > 0
  PROVE  HeldAtWrites(Append(s, m), C)
  <1> DEFINE t == Append(s, m)
             n == Len(s)
  <1>1. /\ n \in Nat /\ Len(t) = n + 1 /\ t[n + 1] = m
        /\ \A i \in 1..n : t[i] = s[i] /\ i \in 1..(n + 1)
        /\ n + 1 \in 1..(n + 1) /\ \A i \in 1..(n + 1) : i \in 1..n \/ i = n + 1
        /\ \A i \in 1..n : s[i] \in Messages
    BY AppendedAt, ElementOfSeq
  <1> HIDE DEF t, n
  <1> SUFFICES ASSUME NEW i \in 1..Len(t), t[i].op = "EdgeAdd",
                      NEW f, Runs(f, t, RootAccount(t[i].a), C[t[i].a])
               PROVE  f[i - 1] > 0
    BY DEF HeldAtWrites, t
  <1>2. PICK h : h = t[i].a
    OBVIOUS
  <1>3. h \in Handles
    BY <1>1, <1>2 DEF Messages
  <1>4. Effect(m, RootAccount(h)) \in Int
    BY EffectType
  <1>5. /\ f \in [Nat -> Int] /\ f[n + 1] = C[h]
        /\ \A j \in 1..(n + 1) : f[j] = f[j - 1] + Effect(t[j], RootAccount(h))
    BY <1>1, <1>2 DEF Runs
  <1>6. f[n] = B[h]
    <2>1. f[n + 1] = f[n] + Effect(m, RootAccount(h)) /\ f[n] \in Int
      <3>1. (n + 1) - 1 = n
        BY <1>1
      <3> QED
        BY <1>1, <1>5, <3>1
    <2>2. f[n + 1] = B[h] + Effect(m, RootAccount(h)) /\ B[h] \in Nat
      BY <1>3, <1>5
    <2> QED
      BY <1>4, <2>1, <2>2
  <1>7. Runs(f, s, RootAccount(h), B[h])
    <2>1. \A j \in 1..n : f[j] = f[j - 1] + Effect(s[j], RootAccount(h))
      BY <1>1, <1>5
    <2> QED
      BY <1>5, <1>6, <2>1 DEF Runs, n
  <1>8. CASE i \in 1..n
    BY <1>1, <1>2, <1>7, <1>8 DEF HeldAtWrites, n
  <1>9. CASE i = n + 1
    <2>1. i - 1 = n /\ m.op = "EdgeAdd" /\ h = m.a
      BY <1>1, <1>2, <1>9
    <2> QED
      BY <1>6, <2>1
  <1> QED
    BY <1>1, <1>8, <1>9

\* The stream without its first message.
LEMMA TailAt ==
  ASSUME NEW s \in Seq(Messages), s # <<>>
  PROVE  /\ Len(s) \in Nat \ {0} /\ Len(Tail(s)) = Len(s) - 1 /\ Tail(s) \in Seq(Messages)
         /\ s[1] \in Messages /\ 1 \in 1..Len(s)
         /\ \A i \in 1..Len(Tail(s)) : Tail(s)[i] = s[i + 1] /\ i + 1 \in 1..Len(s)
         /\ \A i \in 1..Len(s) : i = 1 \/ (i - 1 \in 1..Len(Tail(s)) /\ s[i] = Tail(s)[i - 1])
  <1>1. /\ Len(Tail(s)) = Len(s) - 1 /\ Len(s) \in Nat \ {0} /\ Tail(s) \in Seq(Messages)
        /\ \A i \in 1..Len(Tail(s)) : Tail(s)[i] = s[i + 1]
    BY HeadTailProperties, EmptySeq
  <1>2. 1 \in 1..Len(s)
    BY <1>1
  <1>3. s[1] \in Messages
    BY <1>2, ElementOfSeq
  <1>4. ASSUME NEW i \in 1..Len(s), i # 1
        PROVE  i - 1 \in 1..Len(Tail(s)) /\ (i - 1) + 1 = i
    BY <1>1, <1>4
  <1> QED
    BY <1>1, <1>2, <1>3, <1>4

\* Applying: what is left of a plain stream is plain.
LEMMA PlainTail ==
  ASSUME NEW s \in Seq(Messages), s # <<>>, Plain(s)
  PROVE  Plain(Tail(s)) /\ s[1].count = 1 /\ s[1].op # "RootCheck"
  BY TailAt DEF Plain

\* Only the applied message can be an announcement that goes.
LEMMA AnnouncesTail ==
  ASSUME NEW s \in Seq(Messages), s # <<>>, NEW h, Announces(s, h)
  PROVE  Announces(Tail(s), h) \/ (s[1].op = "RootAdd" /\ s[1].b = h)
  <1>1. PICK i \in 1..Len(s) : s[i].op = "RootAdd" /\ s[i].b = h
    BY DEF Announces
  <1> QED
    BY <1>1, TailAt DEF Announces

\* Applying: a run along the rest extends backwards over the first message.
LEMMA HeldTail ==
  ASSUME NEW s \in Seq(Messages), s # <<>>, NEW B, HeldAtWrites(s, B)
  PROVE  HeldAtWrites(Tail(s), B)
  <1> DEFINE t == Tail(s)
  <1>1. /\ Len(s) \in Nat \ {0} /\ Len(t) = Len(s) - 1 /\ s[1] \in Messages
        /\ \A i \in 1..Len(t) : t[i] = s[i + 1] /\ i + 1 \in 1..Len(s)
        /\ \A i \in 1..Len(s) : i = 1 \/ (i - 1 \in 1..Len(t) /\ s[i] = t[i - 1])
    BY TailAt
  <1> HIDE DEF t
  <1> SUFFICES ASSUME NEW i \in 1..Len(t), t[i].op = "EdgeAdd",
                      NEW g, Runs(g, t, RootAccount(t[i].a), B[t[i].a])
               PROVE  g[i - 1] > 0
    BY DEF HeldAtWrites, t
  <1>2. PICK x : x = RootAccount(t[i].a)
    OBVIOUS
  <1> DEFINE f == [j \in Nat |-> IF j = 0 THEN g[0] - Effect(s[1], x) ELSE g[j - 1]]
  <1>3. /\ g \in [Nat -> Int] /\ g[Len(t)] = B[t[i].a]
        /\ \A j \in 1..Len(t) : g[j] = g[j - 1] + Effect(t[j], x)
    BY <1>2 DEF Runs
  <1>4. Effect(s[1], x) \in Int
    BY <1>1, EffectType
  <1>5. f \in [Nat -> Int] /\ \A j \in Nat \ {0} : f[j] = g[j - 1]
    BY <1>3, <1>4
  <1>6. f[0] = g[0] - Effect(s[1], x) /\ g[0] \in Int
    BY <1>3
  <1> HIDE DEF f
  <1>7. ASSUME NEW j \in 1..Len(s) PROVE f[j] = f[j - 1] + Effect(s[j], x)
    <2>1. CASE j = 1
      <3>1. f[1] = g[0] /\ 1 - 1 = 0
        BY <1>5
      <3> QED
        BY <1>4, <1>6, <2>1, <3>1
    <2>2. CASE j # 1
      <3>1. j - 1 \in 1..Len(t) /\ s[j] = t[j - 1]
        BY <1>1, <2>2
      <3>2. j \in Nat \ {0} /\ j - 1 \in Nat \ {0}
        BY <1>1, <3>1
      <3> QED
        BY <1>3, <1>5, <3>1, <3>2
    <2> QED
      BY <2>1, <2>2
  <1>8. Runs(f, s, x, B[t[i].a])
    <2>1. f[Len(s)] = g[Len(t)]
      BY <1>1, <1>5
    <2> QED
      BY <1>3, <1>5, <1>7, <2>1 DEF Runs
  <1>9. f[(i + 1) - 1] > 0
    BY <1>1, <1>2, <1>8 DEF HeldAtWrites
  <1>10. (i + 1) - 1 = i /\ i \in Nat \ {0}
    BY <1>1
  <1> QED
    BY <1>5, <1>9, <1>10

\* Staging behind what is queued stages behind the stream.
LEMMA StageConcat ==
  ASSUME NEW q \in Seq(Messages), NEW s \in Seq(Messages), NEW m \in Messages
  PROVE  q \o Append(s, m) = Append(q \o s, m)
  <1>1. Append(s, m) = s \o <<m>> /\ <<m>> \in Seq(Messages)
    OBVIOUS
  <1>2. q \o s \in Seq(Messages)
    BY ConcatProperties
  <1>3. (q \o s) \o <<m>> = q \o (s \o <<m>>)
    BY <1>1, ConcatAssociative
  <1>4. (q \o s) \o <<m>> = Append(q \o s, m)
    BY <1>2
  <1> QED
    BY <1>1, <1>3, <1>4

-----------------------------------------------------------------------------
(* The invariant *)

MessagesPlain == \A p \in Producers : Plain(Stream(p))

\* Whoever stores a reference holds the object it stores it in.
WritesHeld == \A p \in Producers : HeldAtWrites(Stream(p), bag[p])

\* A live cell that counts nothing is a zero candidate, or its first root is still on
\* its way.
Awaited ==
    \A c \in Cells : pool.live[c] /\ Total(eng, c) = 0 =>
        c \in eng.zero \/ \E p \in Producers : Announces(Stream(p), <<c, pool.gen[c]>>)

GInv == IInv /\ MessagesPlain /\ WritesHeld /\ Awaited /\ Anchored(eng, pool.live)

\* Initially there is no live cell and no message.
LEMMA InitGarbage ==
  ASSUME Init
  PROVE  GInv
  <1>1. IInv
    BY InitInv
  <1>2. \A p \in Producers : Len(Stream(p)) = 0
    BY DEF Init, NothingInFlight, Stream
  <1>3. MessagesPlain /\ WritesHeld
    BY <1>2 DEF MessagesPlain, WritesHeld, Plain, HeldAtWrites
  <1>4. \A c \in Cells : ~pool.live[c]
    BY DEF Init, EmptyPool
  <1> QED
    BY <1>1, <1>3, <1>4 DEF GInv, Awaited, Anchored, AllIn

\* Steps that leave the table, the pool, the roots and the streams alone.
LEMMA CalmStep ==
  ASSUME GInv, IInv', UNCHANGED <<eng, pool, bag>>, \A p \in Producers : Stream(p)' = Stream(p)
  PROVE  GInv'
  <1>1. MessagesPlain' /\ WritesHeld' /\ Awaited'
    BY DEF GInv, MessagesPlain, WritesHeld, Awaited
  <1> QED
    BY <1>1 DEF GInv

\* Without folding, submit extends the stream by the message.
LEMMA SubmitGrows ==
  ASSUME ~Fold, StateType, NEW p \in Producers, NEW m \in Messages, Submit(p, m)
  PROVE  /\ Stream(p) \in Seq(Messages) /\ Stream(p)' = Append(Stream(p), m)
         /\ \A r \in Producers \ {p} : Stream(r)' = Stream(r)
  <1>1. /\ queue[p] \in Seq(Messages) /\ batch[p] \in Seq(Messages) /\ Stream(p) \in Seq(Messages)
        /\ batch \in [Producers -> Seq(Messages)]
    BY StreamType DEF StateType
  <1>2. batch' = [batch EXCEPT ![p] = Append(batch[p], m)] /\ queue' = queue
    BY DEF Submit, Outgoing
  <1>3. /\ Stream(p)' = queue[p] \o Append(batch[p], m)
        /\ \A r \in Producers \ {p} : Stream(r)' = Stream(r)
    BY <1>1, <1>2 DEF Stream
  <1>4. queue[p] \o Append(batch[p], m) = Append(queue[p] \o batch[p], m)
    BY <1>1, StageConcat
  <1> QED
    BY <1>1, <1>3, <1>4 DEF Stream

\* The roots p holds move with its message, the other mutators' do not.
BagMoves(p, m) ==
    /\ \A h \in Handles : bag'[p][h] = bag[p][h] + Effect(m, RootAccount(h))
    /\ \A r \in Producers \ {p} : bag'[r] = bag[r]

\* An operation of the program: its message is staged, and it may have claimed a cell.
LEMMA OperationStep ==
  ASSUME ~Fold, GInv, IInv', NEW p \in Producers, NEW m \in Messages, Submit(p, m),
         m.count = 1, m.op # "RootCheck", m.op = "EdgeAdd" => bag[p][m.a] > 0, BagMoves(p, m),
         \A c \in Cells : /\ pool'.gen[c] = pool.gen[c]
                          /\ pool.live[c] => pool'.live[c]
                          /\ pool'.live[c] /\ ~pool.live[c] =>
                               m.op = "RootAdd" /\ m.b = <<c, pool.gen[c]>>
  PROVE  GInv'
  <1>1. IInv /\ StateType /\ TableSound
    BY DEF GInv, IInv, Safe
  <1>2. /\ Stream(p) \in Seq(Messages) /\ Stream(p)' = Append(Stream(p), m)
        /\ \A r \in Producers \ {p} : Stream(r)' = Stream(r)
    BY <1>1, SubmitGrows
  <1>3. eng' = eng
    BY DEF Submit
  <1>4. MessagesPlain'
    <2> SUFFICES ASSUME NEW r \in Producers PROVE Plain(Stream(r))'
      BY DEF MessagesPlain
    <2>1. Plain(Stream(r))
      BY DEF GInv, MessagesPlain
    <2>2. CASE r = p
      BY <1>2, <2>1, <2>2, PlainAppend
    <2>3. CASE r # p
      BY <1>2, <2>1, <2>3
    <2> QED
      BY <2>2, <2>3
  <1>5. WritesHeld'
    <2> SUFFICES ASSUME NEW r \in Producers PROVE HeldAtWrites(Stream(r)', bag'[r])
      BY DEF WritesHeld
    <2>1. HeldAtWrites(Stream(r), bag[r])
      BY DEF GInv, WritesHeld
    <2>2. CASE r = p
      <3>1. \A h \in Handles : bag[p][h] \in Nat /\ bag'[p][h] = bag[p][h] + Effect(m, RootAccount(h))
        BY <1>1 DEF StateType, BagMoves
      <3>2. HeldAtWrites(Append(Stream(p), m), bag'[p])
        BY <1>2, <2>1, <2>2, <3>1, HeldAppend
      <3> QED
        BY <1>2, <2>2, <3>2
    <2>3. CASE r # p
      BY <1>2, <2>1, <2>3 DEF BagMoves
    <2> QED
      BY <2>2, <2>3
  <1>6. Awaited'
    <2> SUFFICES ASSUME NEW c \in Cells, pool'.live[c], Total(eng, c) = 0, c \notin eng.zero
                 PROVE  \E r \in Producers : Announces(Stream(r)', <<c, pool.gen[c]>>)
      BY <1>3 DEF Awaited
    <2>1. CASE pool.live[c]
      <3>1. PICK r \in Producers : Announces(Stream(r), <<c, pool.gen[c]>>)
        BY <2>1 DEF GInv, Awaited
      <3>2. CASE r = p
        <4>1. Announces(Append(Stream(p), m), <<c, pool.gen[c]>>)
          BY <1>2, <3>1, <3>2, AnnouncesAppend
        <4> QED
          BY <1>2, <4>1
      <3>3. CASE r # p
        BY <1>2, <3>1, <3>3
      <3> QED
        BY <3>2, <3>3
    <2>2. CASE ~pool.live[c]
      <3>1. Announces(Stream(p)', <<c, pool.gen[c]>>)
        BY <1>2, <2>2, AnnouncesAppend
      <3> QED
        BY <3>1
    <2> QED
      BY <2>1, <2>2
  <1>7. Anchored(eng, pool'.live)
    <2> SUFFICES ASSUME NEW X \in SUBSET Cells, Covers(eng, pool'.live, X),
                        NEW c \in Cells, pool'.live[c]
                 PROVE  c \in X
      BY DEF Anchored, AllIn
    <2>1. CASE pool.live[c]
      <3>1. Covers(eng, pool.live, X)
        BY DEF Covers
      <3> QED
        BY <2>1, <3>1 DEF GInv, Anchored, AllIn
    <2>2. CASE ~pool.live[c]
      <3>1. Anchor(eng, c)
        <4>1. EngineType(eng) /\ EdgesExact(eng) /\ RecordsLive(eng, pool)
          BY <1>1 DEF StateType, TableSound
        <4> SUFFICES ASSUME ~Anchor(eng, c) PROVE FALSE
          OBVIOUS
        <4>2. PICK y \in Cells : Refers(eng, y, c)
          BY <4>1, UnanchoredIsReferred
        <4>3. pool.live[c]
          BY <4>1, <4>2, ReferrerLives
        <4> QED
          BY <2>2, <4>3
      <3> QED
        BY <3>1 DEF Covers
    <2> QED
      BY <2>1, <2>2
  <1> QED
    BY <1>3, <1>4, <1>5, <1>6, <1>7 DEF GInv

-----------------------------------------------------------------------------
(* The mutators *)

\* Mutator::alloc: the new cell counts nothing yet, and its first root is staged.
LEMMA AllocGarbage ==
  ASSUME ~Fold, GInv, IInv', NEW p \in Producers, Alloc(p)
  PROVE  GInv'
  <1>1. StateType /\ PoolSound
    BY DEF GInv, IInv, Safe
  <1>2. PICK c \in pool.avail : LET h == <<c, pool.gen[c]>> IN
          /\ pool' = Activate(pool, c, p) /\ Submit(p, Msg("RootAdd", h, h)) /\ Gain(p, h)
    BY DEF Alloc
  <1>3. PICK h : h = <<c, pool.gen[c]>>
    OBVIOUS
  <1>4. PICK m : m = Msg("RootAdd", h, h)
    OBVIOUS
  <1>5. c \in Cells /\ h \in Handles
    BY <1>1, <1>2, <1>3 DEF StateType, PoolType, Handles
  <1>6. m \in Messages /\ m.a = h /\ m.b = h /\ m.count = 1 /\ m.op = "RootAdd"
    BY <1>4, <1>5 DEF Msg, Messages
  <1>7. Submit(p, m) /\ bag' = [bag EXCEPT ![p][h] = @ + 1]
    BY <1>2, <1>3, <1>4 DEF Gain
  <1>8. BagMoves(p, m)
    <2>1. \A k \in Handles : Effect(m, RootAccount(k)) = IF k = h THEN 1 ELSE 0
      BY <1>6 DEF Effect, Touches, Change, RootAccount, IsEdgeOp
    <2>2. /\ bag'[p] = [bag[p] EXCEPT ![h] = @ + 1] /\ bag[p] \in [Handles -> Nat]
          /\ \A r \in Producers \ {p} : bag'[r] = bag[r]
      BY <1>1, <1>7 DEF StateType
    <2> QED
      BY <1>5, <2>1, <2>2 DEF BagMoves
  <1>9. \A d \in Cells : /\ pool'.gen[d] = pool.gen[d]
                         /\ pool.live[d] => pool'.live[d]
                         /\ pool'.live[d] /\ ~pool.live[d] =>
                              m.op = "RootAdd" /\ m.b = <<d, pool.gen[d]>>
    <2>1. pool'.live = [pool.live EXCEPT ![c] = TRUE] /\ pool'.gen = pool.gen
      BY <1>1, <1>2 DEF Activate, StateType, PoolType
    <2>2. pool.live \in [Cells -> BOOLEAN]
      BY <1>1 DEF StateType, PoolType
    <2> QED
      BY <1>3, <1>6, <2>1, <2>2
  <1> QED
    BY <1>6, <1>7, <1>8, <1>9, OperationStep

\* A root added, removed or given back on close.
LEMMA RootGarbage ==
  ASSUME ~Fold, GInv, IInv', NEW p \in Producers, NEW h \in Handles,
         AddRoot(p, h) \/ RemoveRoot(p, h) \/ CloseRoot(p, h)
  PROVE  GInv'
  <1>1. StateType /\ pool' = pool
    BY DEF GInv, IInv, Safe, AddRoot, RemoveRoot, CloseRoot
  <1>2. PICK o \in {"RootAdd", "RootRemove"} :
           /\ Submit(p, Msg(o, h, h))
           /\ IF o = "RootAdd" THEN Gain(p, h) ELSE Lose(p, h)
    BY DEF AddRoot, RemoveRoot, CloseRoot
  <1>3. PICK m : m = Msg(o, h, h)
    OBVIOUS
  <1>4. /\ m \in Messages /\ m.a = h /\ m.b = h /\ m.count = 1 /\ m.op = o
        /\ Submit(p, m)
    BY <1>2, <1>3 DEF Msg, Messages
  <1>5. BagMoves(p, m)
    <2>1. \A k \in Handles : Effect(m, RootAccount(k)) =
             IF k = h THEN IF o = "RootAdd" THEN 1 ELSE -1 ELSE 0
      BY <1>4 DEF Effect, Touches, Change, RootAccount, IsEdgeOp
    <2>2. /\ bag'[p] = [bag[p] EXCEPT ![h] = IF o = "RootAdd" THEN @ + 1 ELSE @ - 1]
          /\ bag[p] \in [Handles -> Nat]
          /\ \A r \in Producers \ {p} : bag'[r] = bag[r]
      BY <1>1, <1>2 DEF StateType, Gain, Lose
    <2>3. \A k \in Handles : bag'[p][k] = IF k = h THEN IF o = "RootAdd" THEN bag[p][k] + 1
                                                        ELSE bag[p][k] - 1
                                          ELSE bag[p][k]
      BY <2>2
    <2>4. \A k \in Handles : bag[p][k] \in Nat
      BY <2>2
    <2>5. \A k \in Handles : bag'[p][k] = bag[p][k] + Effect(m, RootAccount(k))
      <3> SUFFICES ASSUME NEW k \in Handles
                   PROVE  bag'[p][k] = bag[p][k] + Effect(m, RootAccount(k))
        OBVIOUS
      <3>1. CASE k = h /\ o = "RootAdd"
        BY <2>1, <2>3, <3>1
      <3>2. CASE k = h /\ o # "RootAdd"
        BY <2>1, <2>3, <2>4, <3>2
      <3>3. CASE k # h
        BY <2>1, <2>3, <2>4, <3>3
      <3> QED
        BY <3>1, <3>2, <3>3
    <2> QED
      BY <2>2, <2>5 DEF BagMoves
  <1>6. m.op # "RootCheck" /\ m.op # "EdgeAdd"
    BY <1>4
  <1> QED
    BY <1>1, <1>4, <1>5, <1>6, OperationStep

\* A field written or cleared: the writer holds the object it writes to.
LEMMA EdgeGarbage ==
  ASSUME ~Fold, GInv, IInv', NEW p \in Producers, NEW a \in Handles, NEW b \in Handles,
         AddEdge(p, a, b) \/ RemoveEdge(p, a, b)
  PROVE  GInv'
  <1>1. StateType /\ pool' = pool /\ bag' = bag /\ bag[p][a] > 0
    BY DEF GInv, IInv, Safe, AddEdge, RemoveEdge, MayWrite, Held
  <1>2. PICK o \in {"EdgeAdd", "EdgeRemove"} : Submit(p, Msg(o, a, b))
    BY DEF AddEdge, RemoveEdge
  <1>3. PICK m : m = Msg(o, a, b)
    OBVIOUS
  <1>4. /\ m \in Messages /\ m.a = a /\ m.b = b /\ m.count = 1 /\ m.op = o
        /\ Submit(p, m)
    BY <1>2, <1>3 DEF Msg, Messages
  <1>5. BagMoves(p, m)
    <2>1. \A k \in Handles : Effect(m, RootAccount(k)) = 0
      BY <1>4 DEF Effect, Touches, RootAccount, IsEdgeOp
    <2>2. \A k \in Handles : bag[p][k] \in Nat
      BY <1>1 DEF StateType
    <2> QED
      BY <1>1, <2>1, <2>2 DEF BagMoves
  <1>6. m.op # "RootCheck"
    BY <1>4
  <1> QED
    BY <1>1, <1>4, <1>5, <1>6, OperationStep

\* Publishing what is staged: the stream stays as it is.
LEMMA PublishGarbage ==
  ASSUME ~Fold, GInv, IInv', NEW p \in Producers, Flush(p) \/ Push(p)
  PROVE  GInv'
  <1>1. StateType /\ BatchesKept
    BY DEF GInv, IInv, Safe
  <1>2. UNCHANGED <<eng, pool, bag>>
    BY DEF Flush, Push
  <1>3. ASSUME NEW r \in Producers PROVE Stream(r)' = Stream(r)
    <2>1. /\ queue \in [Producers -> Seq(Messages)] /\ batch \in [Producers -> Seq(Messages)]
      BY <1>1 DEF StateType
    <2>2. CASE Flush(p)
      BY <2>1, <2>2 DEF Flush, Outgoing, Stream
    <2>3. CASE Push(p)
      <3>1. /\ queue' = [queue EXCEPT ![p] = Append(@, Head(batch[p]))]
            /\ batch' = [batch EXCEPT ![p] = Tail(@)] /\ batch[p] # <<>>
        BY <1>1, <2>3 DEF Push, BatchesKept
      <3>2. CASE r = p
        <4>1. Append(queue[p], Head(batch[p])) \o Tail(batch[p]) = queue[p] \o batch[p]
          BY <2>1, <3>1, PushConcat
        <4>2. Stream(p)' = Append(queue[p], Head(batch[p])) \o Tail(batch[p])
          BY <2>1, <3>1 DEF Stream
        <4> QED
          BY <3>2, <4>1, <4>2 DEF Stream
      <3>3. CASE r # p
        BY <2>1, <3>1, <3>3 DEF Stream
      <3> QED
        BY <3>2, <3>3
    <2> QED
      BY <2>2, <2>3
  <1> QED
    BY <1>2, <1>3, CalmStep

-----------------------------------------------------------------------------
(* The worker applies a message *)

\* The message in front of a stream tells of a field of a rooted object.
LEMMA WriterIsRooted ==
  ASSUME GInv, NEW p \in Producers, NEW m \in Messages, m = Stream(p)[1], Stream(p) # <<>>,
         m.op = "EdgeAdd", Stream(p) \in Seq(Messages)
  PROVE  eng.root[Index(m.a)] # 0
  <1>1. PICK L : Ledger(L) /\ Table(L)
    BY DEF GInv, IInv
  <1>2. Safe /\ StateType
    BY DEF GInv, IInv, Safe
  <1>3. m.a \in Handles /\ RootAccount(m.a) \in Accounts /\ Len(Stream(p)) \in Nat
        /\ 1 \in 1..Len(Stream(p))
    BY TailAt DEF Messages, RootAccount, Accounts
  <1>4. PICK f : f = L[p][RootAccount(m.a)]
    OBVIOUS
  <1>5. f \in [Nat -> Nat] /\ Tally(f, Stream(p), RootAccount(m.a))
        /\ f[Len(Stream(p))] = Book(p, RootAccount(m.a))
    <2>1. Keeps(L[p], Stream(p)) /\ L[p][RootAccount(m.a)][Len(Stream(p))] = Book(p, RootAccount(m.a))
      BY <1>1, <1>3 DEF Ledger
    <2>2. L[p] \in Ledgers /\ Tally(L[p][RootAccount(m.a)], Stream(p), RootAccount(m.a))
      BY <1>3, <2>1 DEF Keeps
    <2> QED
      BY <1>3, <1>4, <2>1, <2>2 DEF Tally
  <1>6. Book(p, RootAccount(m.a)) = bag[p][m.a]
    BY DEF Book, RootAccount
  <1>7. Runs(f, Stream(p), RootAccount(m.a), bag[p][m.a])
    <2>1. f \in [Nat -> Int]
      BY <1>5
    <2> QED
      BY <1>5, <1>6, <2>1 DEF Runs, Tally
  <1>8. f[1 - 1] > 0
    BY <1>3, <1>7 DEF GInv, WritesHeld, HeldAtWrites
  <1>9. L[p][RootAccount(m.a)][0] > 0
    BY <1>4, <1>8
  <1> QED
    BY <1>1, <1>2, <1>3, <1>9, TableAtCut

\* An applied message leaves its cell counted, suspected, a zero candidate or a leaf.
LEMMA DrainAnswered ==
  ASSUME GInv, IInv', NEW p \in Producers, NEW m, Drains(p, m)
  PROVE  /\ m \in Messages /\ Applied(eng, eng', m) /\ Answered(eng', m)
         /\ Total(eng', Index(m.b)) = 0 => Index(m.b) \in eng'.zero
         /\ m.count = 1 /\ m.op # "RootCheck"
         /\ m.op = "EdgeAdd" => eng'.out[<<m.a, m.b>>] > 0
  <1>1. Safe /\ StateType /\ TableSound /\ EngineType(eng)
    BY DEF GInv, IInv, Safe, StateType
  <1>2. EngineType(eng') /\ EdgesExact(eng') /\ eng'.errors = {} /\ SuspectsQueued' /\ wpc' = "drain"
    BY DEF IInv, Safe, StateType, TableSound, Drains
  <1>3. /\ m \in Messages /\ m = Stream(p)[1] /\ Stream(p) \in Seq(Messages) /\ Stream(p) # <<>>
    BY <1>1, DrainStreams
  <1>4. m.count = 1 /\ m.op # "RootCheck"
    BY <1>3, PlainTail DEF GInv, MessagesPlain
  <1>5. Applied(eng, eng', m)
    <2>1. PICK L : Ledger(L) /\ Table(L)
      BY DEF GInv, IInv
    <2> QED
      BY <1>1, <2>1, DrainApplies
  <1>6. PICK c \in Cells : c = Index(m.b)
    BY <1>3, HandlesFinite DEF Messages
  <1>7. PICK r : r = eng'
    OBVIOUS
  <1>8. Total(r, c) = 0 \/ c \notin r.marks \/ c \in r.stack
    BY <1>2, <1>7 DEF SuspectsQueued
  <1>9. CASE m.op = "RootAdd"
    <2>1. r.root[c] = eng.root[c] + 1 /\ eng.root[c] \in Nat /\ r.edge[c] \in Nat
      BY <1>1, <1>2, <1>4, <1>5, <1>6, <1>7, <1>9 DEF Applied, IsEdgeOp, Change, EngineType, Engines
    <2>2. r.root[c] > 0 /\ Total(r, c) # 0
      BY <2>1 DEF Total
    <2> QED
      BY <1>3, <1>4, <1>5, <1>6, <1>7, <1>9, <2>2 DEF Answered
  <1>10. CASE m.op = "EdgeAdd"
    <2>1. PICK q \in Pairs : q = <<m.a, m.b>>
      BY <1>3 DEF Messages, Pairs
    <2>2. r.out[q] = eng.out[q] + 1 /\ eng.out[q] \in Nat /\ Index(q[2]) = c
          /\ r.root[Index(m.a)] = eng.root[Index(m.a)]
      BY <1>1, <1>3, <1>5, <1>6, <1>7, <1>10, <2>1, HandlesFinite
         DEF Applied, IsEdgeOp, Change, EngineType, Engines, Messages, Pairs
    <2>3. Refers(r, Index(q[1]), c) /\ r.out[q] > 0
      BY <2>1, <2>2 DEF Refers
    <2>4. Total(r, c) # 0
      BY <1>2, <1>7, <2>3, RecordIsCounted
    <2>5. eng.root[Index(m.a)] # 0 /\ eng.root[Index(m.a)] \in Nat
      BY <1>1, <1>3, <1>10, WriterIsRooted, HandlesFinite DEF EngineType, Engines, Messages
    <2> QED
      BY <1>3, <1>4, <1>5, <1>6, <1>7, <1>10, <2>1, <2>2, <2>3, <2>4, <2>5 DEF Answered
  <1>11. CASE m.op \in {"RootRemove", "EdgeRemove"}
    <2>1. r = Process(eng, pool, m) /\ r.errors = {}
      BY <1>2, <1>7 DEF Drains
    <2>2. /\ Total(r, c) = 0 => c \in r.zero
          /\ Total(r, c) = 0 \/ c \in r.marks \/ ~HasOutgoing(r, c)
      BY <1>1, <1>3, <1>6, <1>11, <2>1, LossAnswered
    <2>3. Anchor(r, c) \/ ~HasOutgoing(r, c)
      BY <1>8, <2>2 DEF Anchor
    <2> QED
      BY <1>3, <1>4, <1>5, <1>6, <1>7, <1>11, <2>2, <2>3 DEF Answered
  <1> QED
    BY <1>3, <1>4, <1>9, <1>10, <1>11 DEF Messages

\* Applying a message.
LEMMA DrainGarbage ==
  ASSUME GInv, IInv', Drain
  PROVE  GInv'
  <1>1. PICK p \in Producers : Drains(p, Head(queue[p]))
    BY DEF Drain, Drains, ToDrain
  <1>2. PICK m : m = Head(queue[p])
    OBVIOUS
  <1>3. Drains(p, m)
    BY <1>1, <1>2
  <1>4. Safe /\ StateType /\ TableSound /\ EngineType(eng)
    BY DEF GInv, IInv, Safe, StateType
  <1>5. /\ m \in Messages /\ Sound(p, m) /\ m = Stream(p)[1]
        /\ Stream(p) \in Seq(Messages) /\ Stream(p) # <<>> /\ Stream(p)' = Tail(Stream(p))
        /\ \A r \in Producers \ {p} : Stream(r)' = Stream(r)
    BY <1>3, <1>4, DrainStreams
  <1>6. /\ Applied(eng, eng', m) /\ Answered(eng', m)
        /\ Total(eng', Index(m.b)) = 0 => Index(m.b) \in eng'.zero
        /\ m.count = 1 /\ m.op # "RootCheck"
        /\ m.op = "EdgeAdd" => eng'.out[<<m.a, m.b>>] > 0
    BY <1>3, DrainAnswered
  <1>7. pool' = pool /\ bag' = bag
    BY <1>3 DEF Drains
  <1>8. EngineType(eng') /\ EdgesExact(eng') /\ RecordsLive(eng', pool)
    BY <1>7 DEF IInv, Safe, StateType, TableSound
  <1>9. MessagesPlain'
    <2> SUFFICES ASSUME NEW r \in Producers PROVE Plain(Stream(r)')
      BY DEF MessagesPlain
    <2>1. Plain(Stream(r))
      BY DEF GInv, MessagesPlain
    <2>2. CASE r = p
      BY <1>5, <2>1, <2>2, PlainTail
    <2>3. CASE r # p
      BY <1>5, <2>1, <2>3
    <2> QED
      BY <2>2, <2>3
  <1>10. WritesHeld'
    <2> SUFFICES ASSUME NEW r \in Producers PROVE HeldAtWrites(Stream(r)', bag[r])
      BY <1>7 DEF WritesHeld
    <2>1. HeldAtWrites(Stream(r), bag[r])
      BY DEF GInv, WritesHeld
    <2>2. CASE r = p
      BY <1>5, <2>1, <2>2, HeldTail
    <2>3. CASE r # p
      BY <1>5, <2>1, <2>3
    <2> QED
      BY <2>2, <2>3
  <1>11. Awaited'
    <2> SUFFICES ASSUME NEW c \in Cells, pool.live[c], Total(eng', c) = 0, c \notin eng'.zero
                 PROVE  \E r \in Producers : Announces(Stream(r)', <<c, pool.gen[c]>>)
      BY <1>7 DEF Awaited
    <2>1. c # Index(m.b)
      BY <1>6
    <2>2. Total(eng, c) = 0 /\ c \notin eng.zero
      BY <1>6, <2>1 DEF Applied
    <2>3. PICK r \in Producers : Announces(Stream(r), <<c, pool.gen[c]>>)
      BY <2>2 DEF GInv, Awaited
    <2>4. CASE r = p
      <3>1. Announces(Tail(Stream(p)), <<c, pool.gen[c]>>) \/ m.b = <<c, pool.gen[c]>>
        BY <1>5, <2>3, <2>4, AnnouncesTail
      <3>2. m.b # <<c, pool.gen[c]>>
        BY <2>1 DEF Index
      <3> QED
        BY <1>5, <3>1, <3>2
    <2>5. CASE r # p
      BY <1>5, <2>3, <2>5
    <2> QED
      BY <2>4, <2>5
  <1>12. Anchored(eng', pool.live)
    <2>1. PICK r : r = eng'
      OBVIOUS
    <2>2. pool.live[Index(m.a)] /\ Anchored(eng, pool.live) /\ RecordsLive(eng, pool)
      BY <1>4, <1>5 DEF Sound, Valid, GInv, TableSound
    <2>3. /\ \A c \in Cells : c # Index(m.b) => r.root[c] = eng.root[c] /\ Total(r, c) = Total(eng, c)
          /\ eng.marks \cap eng.stack \subseteq r.marks \cap r.stack
      BY <1>6, <2>1 DEF Applied
    <2>4. \A q \in Pairs : q # <<m.a, m.b>> => r.out[q] = eng.out[q]
      BY <1>6, <2>1 DEF Applied
    <2>5. m.op \in {"RootAdd", "EdgeAdd"} => \A q \in Pairs : eng.out[q] > 0 => r.out[q] > 0
      <3> SUFFICES ASSUME m.op \in {"RootAdd", "EdgeAdd"}, NEW q \in Pairs, eng.out[q] > 0
                   PROVE  r.out[q] > 0
        OBVIOUS
      <3>1. CASE IsEdgeOp(m) /\ q = <<m.a, m.b>>
        BY <1>6, <2>1, <3>1 DEF IsEdgeOp
      <3>2. CASE ~(IsEdgeOp(m) /\ q = <<m.a, m.b>>)
        BY <1>6, <2>1, <3>2 DEF Applied
      <3> QED
        BY <3>1, <3>2
    <2>6. m.op = "RootAdd" => \A c \in Cells : r.root[c] >= eng.root[c]
      <3> SUFFICES ASSUME m.op = "RootAdd", NEW c \in Cells PROVE r.root[c] >= eng.root[c]
        OBVIOUS
      <3>1. eng.root[c] \in Nat /\ ~IsEdgeOp(m) /\ Change(m) = 1
        BY <1>4, <1>6 DEF EngineType, Engines, IsEdgeOp, Change
      <3> QED
        BY <1>6, <2>1, <3>1 DEF Applied
    <2>7. m.op = "EdgeAdd" => r.root = eng.root /\ r.out[<<m.a, m.b>>] > 0
      BY <1>4, <1>6, <1>8, <2>1 DEF Applied, IsEdgeOp, EngineType, Engines
    <2>8. Answered(r, m) /\ EngineType(r) /\ EdgesExact(r) /\ RecordsLive(r, pool)
      BY <1>6, <1>8, <2>1
    <2>9. Anchored(r, pool.live)
      BY <1>5, <2>2, <2>3, <2>4, <2>5, <2>6, <2>7, <2>8, MessageAnchored
    <2> QED
      BY <2>1, <2>9
  <1> QED
    BY <1>7, <1>9, <1>10, <1>11, <1>12 DEF GInv

-----------------------------------------------------------------------------
(* The worker reclaims *)

\* CellPool::free: the cells of G are not live any more, the others are as they were.
LEMMA FreedLive ==
  ASSUME StateType, NEW G, G \subseteq Cells, pool' = FreeSlots(pool, G)
  PROVE  \A c \in Cells : /\ pool'.live[c] <=> pool.live[c] /\ c \notin G
                          /\ c \notin G => pool'.gen[c] = pool.gen[c]
  <1>1. /\ pool'.live = [c \in Cells |-> IF c \in G THEN FALSE ELSE pool.live[c]]
        /\ pool'.gen = [c \in Cells |-> IF c \in G /\ pool.gen[c] < MaxGen THEN pool.gen[c] + 1
                                        ELSE pool.gen[c]]
    BY DEF FreeSlots, StateType, PoolType
  <1> QED
    BY <1>1

\* A cell that counts nothing after a reclamation lost its last reference to it, and
\* is a candidate, or counted nothing before.
LEMMA ReclaimAwaited ==
  ASSUME GInv, NEW G, G \subseteq Cells, NEW b, Reclaimed(b, eng', G),
         \A d \in Cells : Total(b, d) = Total(eng, d), eng.zero \ G \subseteq b.zero,
         pool' = FreeSlots(pool, G), \A p \in Producers : Stream(p)' = Stream(p)
  PROVE  Awaited'
  <1>1. StateType
    BY DEF GInv, IInv, Safe
  <1> SUFFICES ASSUME NEW c \in Cells, pool'.live[c], Total(eng', c) = 0, c \notin eng'.zero
               PROVE  \E p \in Producers : Announces(Stream(p)', <<c, pool'.gen[c]>>)
    BY DEF Awaited
  <1>2. pool.live[c] /\ c \in Cells \ G /\ pool'.gen[c] = pool.gen[c]
    BY <1>1, FreedLive
  <1>3. PICK hit \in SUBSET (Cells \ G) :
           /\ \A d \in (Cells \ G) \ hit : Total(eng', d) = Total(b, d)
           /\ eng'.zero = b.zero \cup {d \in hit : Total(eng', d) = 0}
    BY DEF Reclaimed
  <1>4. c \notin hit /\ c \notin b.zero
    BY <1>3
  <1>5. Total(eng, c) = 0 /\ c \notin eng.zero
    BY <1>2, <1>3, <1>4
  <1>6. PICK p \in Producers : Announces(Stream(p), <<c, pool.gen[c]>>)
    BY <1>2, <1>5 DEF GInv, Awaited
  <1> QED
    BY <1>2, <1>6

\* sweepZero.
LEMMA SweepZeroGarbage ==
  ASSUME GInv, IInv', SweepZero
  PROVE  GInv'
  <1>1. Safe /\ StateType /\ TableSound /\ SuspectsQueued
    BY DEF GInv, IInv, Safe
  <1>2. PICK c \in eng.zero :
          LET popped == [eng EXCEPT !.zero = @ \ {c}] IN
          IF IsZeroGarbage(popped, pool, c)
          THEN /\ eng' = ReclaimCell(popped, pool, c)
               /\ pool' = FreeSlots(pool, {c}) /\ DropFields({c})
          ELSE eng' = popped /\ UNCHANGED <<pool, fields>>
    BY DEF SweepZero
  <1>3. PICK e : e = [eng EXCEPT !.zero = @ \ {c}]
    OBVIOUS
  <1>4. /\ c \in Cells /\ pool.live[c] /\ EngineType(eng) /\ EngineType(e)
        /\ e.root = eng.root /\ e.edge = eng.edge /\ e.out = eng.out
        /\ e.zero = eng.zero \ {c} /\ e.marks = eng.marks /\ e.stack = eng.stack
    <2>1. EngineType(eng) /\ c \in Cells /\ pool.live[c]
      BY <1>1 DEF StateType, EngineType, Engines, TableSound
    <2> QED
      BY <1>3, <2>1 DEF EngineType, Engines
  <1>5. /\ \A d : Total(e, d) = Total(eng, d)
        /\ \A x, y : Refers(e, x, y) <=> Refers(eng, x, y)
        /\ \A d : Anchor(e, d) <=> Anchor(eng, d)
    BY <1>4 DEF Total, Refers, Anchor
  <1>6. \A lv : Anchored(e, lv) <=> Anchored(eng, lv)
    BY <1>5 DEF Anchored, Covers
  <1>7. bag' = bag /\ \A p \in Producers : Stream(p)' = Stream(p)
    BY DEF SweepZero, Stream
  <1>8. MessagesPlain' /\ WritesHeld'
    BY <1>7 DEF GInv, MessagesPlain, WritesHeld
  <1>9. CASE IsZeroGarbage(e, pool, c)
    <2>1. eng' = ReclaimCell(e, pool, c) /\ pool' = FreeSlots(pool, {c})
      BY <1>2, <1>3, <1>9
    <2>2. Total(e, c) = 0
      BY <1>9 DEF IsZeroGarbage
    <2>3. EdgesExact(e) /\ RecordsLive(e, pool)
      BY <1>1, <1>4 DEF TableSound, EdgesExact, RecordsLive
    <2>4. Anchored(eng', pool'.live)
      <3>1. PICK r : r = eng'
        OBVIOUS
      <3>2. PICK pl2 : pl2 = pool'
        OBVIOUS
      <3>3. RecordsLive(r, pl2)
        BY <3>1, <3>2 DEF IInv, Safe, TableSound
      <3>4. \A d \in Cells : pl2.live[d] <=> pool.live[d] /\ d # c
        BY <1>1, <1>4, <2>1, <3>2, FreedLive
      <3>5. \A d \in e.marks : d \notin e.stack => Total(e, d) = 0
        BY <1>1, <1>4, <1>5 DEF SuspectsQueued
      <3>6. Anchored(e, pool.live) /\ r = ReclaimCell(e, pool, c)
        BY <1>6, <2>1, <3>1 DEF GInv
      <3>7. Anchored(r, pl2.live)
        BY <1>4, <2>2, <2>3, <3>3, <3>4, <3>5, <3>6, ZeroAnchored
      <3> QED
        BY <3>1, <3>2, <3>7
    <2>5. Awaited'
      <3>1. PICK b : b = ClearSuspects(e, {c})
        OBVIOUS
      <3>2. e.edge[c] = 0
        BY <1>4, <2>2 DEF Total, EngineType, Engines
      <3>3. Reclaimed(b, eng', {c})
        BY <1>4, <2>1, <2>3, <3>1, <3>2, ReclaimCellExact
      <3>4. b.root = eng.root /\ b.edge = eng.edge /\ b.zero = eng.zero \ {c}
        BY <1>4, <3>1 DEF ClearSuspects, EngineType, Engines
      <3>5. \A d \in Cells : Total(b, d) = Total(eng, d)
        BY <3>4 DEF Total
      <3> QED
        BY <1>4, <1>7, <2>1, <3>3, <3>4, <3>5, ReclaimAwaited
    <2> QED
      BY <1>8, <2>4, <2>5 DEF GInv
  <1>10. CASE ~IsZeroGarbage(e, pool, c)
    <2>1. eng' = e /\ pool' = pool
      BY <1>2, <1>3, <1>10
    <2>2. Total(eng, c) # 0
      BY <1>4, <1>5, <1>10 DEF IsZeroGarbage
    <2>3. Awaited'
      <3> SUFFICES ASSUME NEW d \in Cells, pool.live[d], Total(e, d) = 0, d \notin e.zero
                   PROVE  \E p \in Producers : Announces(Stream(p), <<d, pool.gen[d]>>)
        BY <1>7, <2>1 DEF Awaited
      <3>1. Total(eng, d) = 0 /\ d \notin eng.zero
        BY <1>4, <1>5, <2>2
      <3> QED
        BY <3>1 DEF GInv, Awaited
    <2>4. Anchored(eng', pool'.live)
      BY <1>6, <2>1 DEF GInv
    <2> QED
      BY <1>8, <2>3, <2>4 DEF GInv
  <1> QED
    BY <1>9, <1>10

\* collectCyclePass.
LEMMA CyclePassGarbage ==
  ASSUME GInv, IInv', CyclePass
  PROVE  GInv'
  <1>1. Safe /\ StateType /\ TableSound /\ SuspectsQueued /\ wpc = "cycle"
    BY DEF GInv, IInv, Safe, CyclePass
  <1>2. PICK G : G = GarbageIn(eng, pool)
    OBVIOUS
  <1>3. eng' = ReclaimCycles(eng, pool, G) /\ pool' = FreeSlots(pool, G)
    BY <1>2 DEF CyclePass
  <1>4. EngineType(eng) /\ EdgesExact(eng) /\ RecordsLive(eng, pool)
    BY <1>1 DEF StateType, TableSound
  <1>5. G \subseteq Cells /\ \A c \in G : Total(eng, c) > 0
    BY <1>2, <1>4, GarbageIsClosed
  <1>6. bag' = bag /\ \A p \in Producers : Stream(p)' = Stream(p)
    BY DEF CyclePass, Stream
  <1>7. MessagesPlain' /\ WritesHeld'
    BY <1>6 DEF GInv, MessagesPlain, WritesHeld
  <1>8. Anchored(eng', pool'.live)
    <2>1. PICK r : r = eng'
      OBVIOUS
    <2>2. PICK pl2 : pl2 = pool'
      OBVIOUS
    <2>3. RecordsLive(r, pl2)
      BY <2>1, <2>2 DEF IInv, Safe, TableSound
    <2>4. \A d \in Cells : pl2.live[d] <=> pool.live[d] /\ d \notin G
      BY <1>1, <1>3, <1>5, <2>2, FreedLive
    <2>5. Anchored(eng, pool.live) /\ r = ReclaimCycles(eng, pool, G)
      BY <1>3, <2>1 DEF GInv
    <2>6. Anchored(r, pl2.live)
      BY <1>2, <1>4, <2>3, <2>4, <2>5, CycleAnchored
    <2> QED
      BY <2>1, <2>2, <2>6
  <1>9. Awaited'
    <2>1. PICK b : b = Scanned(eng, pool)
      OBVIOUS
    <2>2. Reclaimed(b, eng', G)
      BY <1>2, <1>3, <1>4, <2>1, ReclaimCyclesExact
    <2>3. b.root = eng.root /\ b.edge = eng.edge /\ b.zero = eng.zero
      BY <1>4, <2>1 DEF Scanned, ClearSuspects, EngineType, Engines
    <2>4. \A d \in Cells : Total(b, d) = Total(eng, d)
      BY <2>3 DEF Total
    <2> QED
      BY <1>3, <1>5, <1>6, <2>2, <2>3, <2>4, ReclaimAwaited
  <1> QED
    BY <1>7, <1>8, <1>9 DEF GInv

-----------------------------------------------------------------------------
(* The theorems *)

\* Without folding, every step of mutators and worker keeps the anchors.
LEMMA NextGarbage ==
  ASSUME OwnFields, ~Fold, GInv, [Next]_vars
  PROVE  GInv'
  <1>1. IInv'
    BY NextInv DEF GInv
  <1>2. ASSUME UNCHANGED <<eng, pool, bag, queue, batch>> PROVE GInv'
    <2>1. \A p \in Producers : Stream(p)' = Stream(p)
      BY <1>2 DEF Stream
    <2> QED
      BY <1>1, <1>2, <2>1, CalmStep
  <1>3. CASE BeginRound \/ ReadTail \/ EndDrain \/ SweepZeroDone
    <2>1. UNCHANGED <<eng, pool, bag, queue, batch>>
      BY <1>3 DEF BeginRound, ReadTail, EndDrain, SweepZeroDone, mutVars
    <2> QED
      BY <1>2, <2>1
  <1>4. CASE Drain
    BY <1>1, <1>4, DrainGarbage
  <1>5. CASE SweepZero
    BY <1>1, <1>5, SweepZeroGarbage
  <1>6. CASE CyclePass
    BY <1>1, <1>6, CyclePassGarbage
  <1>7. ASSUME NEW p \in Producers, MutatorStep(p) PROVE GInv'
    <2>1. CASE Alloc(p)
      BY <1>1, <2>1, AllocGarbage
    <2>2. CASE Flush(p) \/ Push(p)
      BY <1>1, <2>2, PublishGarbage
    <2>3. CASE Close(p)
      BY <1>2, <2>3 DEF Close
    <2>4. ASSUME NEW h \in Handles, AddRoot(p, h) \/ RemoveRoot(p, h) \/ CloseRoot(p, h)
          PROVE  GInv'
      BY <1>1, <2>4, RootGarbage
    <2>5. ASSUME NEW a \in Handles, NEW b \in Handles, AddEdge(p, a, b) \/ RemoveEdge(p, a, b)
          PROVE  GInv'
      BY <1>1, <2>5, EdgeGarbage
    <2> QED
      BY <1>7, <2>1, <2>2, <2>3, <2>4, <2>5 DEF MutatorStep
  <1>8. CASE UNCHANGED vars
    BY <1>2, <1>8 DEF vars, mutVars
  <1> QED
    BY <1>3, <1>4, <1>5, <1>6, <1>7, <1>8 DEF Next, WorkerStep

\* When nothing is on its way and no candidate is left, the anchors are the roots.
LEMMA QuietIsClean ==
  ASSUME GInv
  PROVE  NoGarbageLeft
  <1> SUFFICES ASSUME Quiet, NEW c \in Cells, pool.live[c] PROVE <<c, pool.gen[c]>> \in Reachable
    BY DEF NoGarbageLeft
  <1>1. StateType /\ TableSound /\ RefsPresent /\ EngineType(eng) /\ RecordsLive(eng, pool)
    BY DEF GInv, IInv, Safe, StateType, TableSound
  <1>2. eng.out = fields /\ \A d \in Cells : eng.root[d] = Cardinality(RootsOn(d))
    BY QuietTable DEF GInv, TableIsExact
  <1>3. eng.zero = {} /\ eng.stack = {} /\ \A p \in Producers : Len(Stream(p)) = 0
    <2>1. Len(<<>> \o <<>>) = 0
      OBVIOUS
    <2> QED
      BY <2>1 DEF Quiet, Stream
  <1>4. PICK X \in SUBSET Cells : \A d \in Cells : d \in X <=> <<d, pool.gen[d]>> \in Reachable
    <2> DEFINE Y == {d \in Cells : <<d, pool.gen[d]>> \in Reachable}
    <2>1. Y \in SUBSET Cells /\ \A d \in Cells : d \in Y <=> <<d, pool.gen[d]>> \in Reachable
      OBVIOUS
    <2> QED
      BY <2>1
  <1>5. ASSUME NEW h \in Handles, Valid(pool, h), h \in Reachable PROVE Index(h) \in X
    <2>1. h = <<Index(h), pool.gen[Index(h)]>> /\ Index(h) \in Cells
      BY <1>5, HandlesFinite DEF Valid
    <2> QED
      BY <1>4, <1>5, <2>1
  <1>6. ASSUME NEW x \in X, NEW y \in Cells, Refers(eng, x, y) PROVE y \in X
    <2>1. PICK q \in Pairs : eng.out[q] > 0 /\ Index(q[1]) = x /\ Index(q[2]) = y
      BY <1>6 DEF Refers
    <2>2. /\ q[1] \in Handles /\ q[2] \in Handles /\ Valid(pool, q[1]) /\ Valid(pool, q[2])
          /\ fields[q] > 0
      BY <1>1, <1>2, <2>1 DEF RecordsLive, Pairs
    <2>3. q[1] = <<x, pool.gen[x]>>
      BY <2>1, <2>2, HandlesFinite DEF Valid
    <2>4. q[1] \in Reachable
      BY <1>4, <2>3
    <2>5. q[2] \in Reachable
      BY <2>2, <2>4, ReachableIs
    <2> QED
      BY <1>5, <2>1, <2>2, <2>5
  <1>7. ASSUME NEW d \in Cells, pool.live[d], Anchor(eng, d) PROVE d \in X
    <2>1. Total(eng, d) # 0
      <3> SUFFICES ASSUME Total(eng, d) = 0 PROVE FALSE
        OBVIOUS
      <3>1. PICK p \in Producers : Announces(Stream(p), <<d, pool.gen[d]>>)
        BY <1>3, <1>7 DEF GInv, Awaited
      <3> QED
        BY <1>3, <3>1 DEF Announces
    <2>2. eng.root[d] > 0
      BY <1>3, <1>7, <2>1 DEF Anchor
    <2> DEFINE f == [t \in Producers \X Handles |-> bag[t[1]][t[2]]]
               S == RootSlots(d)
    <2>3. eng.root[d] = Cardinality(Copies(S, f)) /\ IsFiniteSet(S) /\ S \subseteq Producers \X Handles
      BY <1>2, RootSlotsFinite DEF RootsOn, RootSlots
    <2>4. \A t \in S : f[t] \in Nat /\ f[t] = bag[t[1]][t[2]] /\ t[1] \in Producers
                       /\ t[2] \in Handles /\ Index(t[2]) = d
      BY <1>1 DEF StateType, RootSlots
    <2> HIDE DEF f, S
    <2>5. ~ \A t \in S : f[t] = 0
      BY <2>2, <2>3, <2>4, CopiesZero
    <2>6. PICK t \in S : f[t] > 0
      BY <2>4, <2>5
    <2>7. bag[t[1]][t[2]] > 0 /\ t[1] \in Producers /\ t[2] \in Handles /\ Index(t[2]) = d
      BY <2>4, <2>6
    <2>8. Valid(pool, t[2]) /\ t[2] \in Reachable
      BY <1>1, <2>7, ReachableIs DEF RefsPresent, Held
    <2> QED
      BY <1>5, <2>7, <2>8
  <1>8. Covers(eng, pool.live, X)
    BY <1>6, <1>7 DEF Covers
  <1>9. c \in X
    BY <1>8 DEF GInv, Anchored, AllIn
  <1> QED
    BY <1>4, <1>9

\* Without folding, every live object always hangs off an anchor: a rooted object, one
\* that counts nothing and is a candidate or has its first root on the way, or a queued
\* suspect.
THEOREM EveryCellAnchored ==
  ASSUME OwnFields, ~Fold
  PROVE  Spec => []GInv
  <1>1. Init => GInv
    BY InitGarbage
  <1>2. GInv /\ [Next]_vars => GInv'
    BY NextGarbage
  <1> QED
    BY <1>1, <1>2, PTL DEF Spec

\* The collector forgets nothing: when the runtime is quiet, cyclic garbage, garbage
\* behind garbage and objects dropped by another thread are all collected, for any
\* number of mutators, cells, generations and operations.  The mutators publish their
\* batches as they are (fold_ is off, as by default) and write fields of their own
\* objects only.
THEOREM NothingIsForgotten ==
  ASSUME OwnFields, ~Fold
  PROVE  Spec => []NoGarbageLeft
  <1>1. Spec => []GInv
    BY EveryCellAnchored
  <1>2. GInv => NoGarbageLeft
    BY QuietIsClean
  <1> QED
    BY <1>1, <1>2, PTL

=============================================================================
