------------------------- MODULE AarcRuntimeProofs --------------------------
(***************************************************************************)
(* The asynchronous collector is safe for every number of mutators, cells, *)
(* generations and messages, with and without folding, provided only the   *)
(* thread that allocated an object writes its fields (OwnFields).          *)
(*                                                                         *)
(* The argument follows the accounts.  Each producer's stream of messages  *)
(* that are staged or queued takes every account from the balance the      *)
(* engine has been told (index 0) to the program's own (the end), without  *)
(* ever going below zero; so the worker's table is the program's heap at   *)
(* the index it has applied.  A stable round fixes a cut of the streams at *)
(* which the table will be a heap the program really had.  K is what       *)
(* existed at that cut: of K, the program can only reach what was          *)
(* reachable at the cut, so a member of K the table cannot reach is        *)
(* garbage, whatever was submitted since.                                  *)
(***************************************************************************)
EXTENDS AarcLedgerProofs

-----------------------------------------------------------------------------
(* The inductive invariant *)

Stream(p) == queue[p] \o batch[p]

\* The program's own balance of an account, as far as producer p is concerned.
Book(p, x) ==
    IF x[1] = "root" THEN IF x[2] = x[3] THEN bag[p][x[2]] ELSE 0
    ELSE IF pool.owner[Index(x[2])] = p THEN fields[<<x[2], x[3]>>] ELSE 0

StateType ==
    /\ EngineType(eng) /\ PoolType(pool, Producers)
    /\ bag \in [Producers -> [Handles -> Nat]]
    /\ fields \in [Pairs -> 0..MaxFields]
    /\ queue \in [Producers -> Seq(Messages)] /\ batch \in [Producers -> Seq(Messages)]
    /\ phase \in [Producers -> {"run", "flush"}]
    /\ wpc \in {"idle", "tails", "drain", "zero", "cycle"}
    /\ wi \in Producers /\ left \in [Producers -> Nat]
    /\ hot \in SUBSET Producers /\ stable \in BOOLEAN

\* A running mutator's batch is as submit left it and not full; one that is being
\* published is not empty.
BatchesKept ==
    \A p \in Producers :
        /\ phase[p] = "run" => Staged(batch[p]) /\ Len(batch[p]) < BatchLimit
        /\ phase[p] = "flush" => batch[p] # <<>>
        /\ Len(batch[p]) <= BatchLimit

\* A message of p names objects that still exist; an edge message starts at p's own.
Sound(p, m) ==
    /\ Valid(pool, m.a) /\ Valid(pool, m.b)
    /\ IF IsEdgeOp(m) THEN pool.owner[Index(m.a)] = p ELSE m.a = m.b

MessagesSound == \A p \in Producers : \A i \in 1..Len(Stream(p)) : Sound(p, Stream(p)[i])

\* The program has roots on, and fields of and to, existing objects only.
RefsPresent ==
    /\ \A p \in Producers : \A h \in Handles : bag[p][h] > 0 => Valid(pool, h)
    /\ \A q \in Pairs : fields[q] > 0 => Valid(pool, q[1]) /\ Valid(pool, q[2])

PoolSound ==
    \A c \in Cells : /\ pool.live[c] => pool.owner[c] \in Producers
                     /\ c \in pool.avail => ~pool.live[c]

TableSound ==
    /\ EdgesExact(eng) /\ RecordsLive(eng, pool) /\ eng.errors = {}
    /\ \A c \in eng.zero \cup eng.marks : pool.live[c]

\* A mark without a stack entry is left only on a cell that waits to be reclaimed.
SuspectsQueued ==
    /\ \A c \in eng.marks :
        /\ Total(eng, c) = 0 => c \in eng.zero
        /\ c \notin eng.stack => Total(eng, c) = 0 /\ wpc \in {"zero", "cycle"}
    /\ wpc = "cycle" => \A c \in eng.zero : Total(eng, c) = 0

\* While the tails are read, a producer that is not hot has published everything
\* and nothing since.
RoundSound ==
    /\ \A p \in Producers : left[p] <= Len(queue[p])
    /\ wpc \in {"idle", "zero", "cycle"} => \A p \in Producers : left[p] = 0
    /\ wpc = "tails" => \A p \in Producers \ hot :
                            batch[p] = <<>> /\ (p < wi => left[p] = Len(queue[p]))

\* L[p][x][i] is the balance of x after the first i messages of p's stream.
Ledger(L) ==
    /\ L \in [Producers -> Ledgers]
    /\ \A p \in Producers : Keeps(L[p], Stream(p))
    /\ \A p \in Producers : \A x \in Accounts : L[p][x][Len(Stream(p))] = Book(p, x)

RootSlots(c) == {t \in Producers \X Handles : Index(t[2]) = c}
RootsTold(L) == [t \in Producers \X Handles |-> L[t[1]][RootAccount(t[2])][0]]

\* The table holds the balances at index 0.
Table(L) ==
    /\ \A c \in Cells : eng.root[c] = Cardinality(Copies(RootSlots(c), RootsTold(L)))
    /\ \A p \in Producers : \A q \in Pairs :
         L[p][EdgeAccount(q)][0] = IF pool.owner[Index(q[1])] = p THEN eng.out[q] ELSE 0

\* A stable round after its snapshot: whatever it finds may be reclaimed.
Sweeping == (wpc = "drain" /\ stable) \/ wpc \in {"zero", "cycle"}

\* The heap at the cut, as the table will show it when the drain is over.
CutRoots(L) == {h \in Handles : \E p \in Producers : L[p][RootAccount(h)][left[p]] > 0}
CutEdges(L) == {q \in Pairs : \E p \in Producers : L[p][EdgeAccount(q)][left[p]] > 0}
AtCut(L) == ReachIn(Handles, CutEdges(L), CutRoots(L))

\* K is what is left of the objects that existed at the cut.
Cut(L, K) ==
    /\ \A h \in K : h \in Handles /\ Valid(pool, h)
    /\ \A h \in K : h \in Reachable => h \in AtCut(L)
    /\ \A p \in Producers : \A i \in 1..Len(Stream(p)) : \A h \in {Stream(p)[i].a, Stream(p)[i].b} :
         IF i <= left[p] THEN h \in K ELSE h \in K => h \in AtCut(L)
    /\ \A c \in eng.zero \cup eng.marks : <<c, pool.gen[c]>> \in K
    /\ \A p \in Producers : \A x \in Accounts : \A i \in 0..left[p] :
         L[p][x][i] > 0 => x[2] \in K /\ x[3] \in K

Safe ==
    /\ StateType /\ BatchesKept /\ MessagesSound /\ RefsPresent /\ PoolSound
    /\ TableSound /\ SuspectsQueued /\ RoundSound

IInv == Safe /\ \E L : Ledger(L) /\ Table(L) /\ (Sweeping => \E K : Cut(L, K))

-----------------------------------------------------------------------------
(* What the invariant says *)

\* Held roots and the heads of fields are handles.
LEMMA HeldHandles ==
  /\ UNION {Held(p) : p \in Producers} \subseteq Handles
  /\ \A h \in Handles : h \in UNION {Held(p) : p \in Producers} <=> \E p \in Producers : bag[p][h] > 0
  BY DEF Held

\* Only existing objects are reachable.
LEMMA ReachablePresent ==
  ASSUME RefsPresent
  PROVE  ReachableIsLive
  <1> DEFINE X == {h \in Handles : Valid(pool, h)}
             S == UNION {Held(p) : p \in Producers}
  <1>1. S \subseteq X
    BY DEF RefsPresent, Held
  <1>2. ClosedIn(Handles, Edges, X)
    BY DEF RefsPresent, ClosedIn, Edges, Pairs
  <1>3. X \subseteq Handles
    OBVIOUS
  <1> HIDE DEF X, S
  <1>4. ReachIn(Handles, Edges, S) \subseteq X
    BY <1>1, <1>2, <1>3, ReachLeast
  <1> QED
    BY <1>4 DEF ReachableIsLive, Reachable, X, S

\* A mark without a stack entry belongs to a zero candidate.
LEMMA SuspectsAreQueued ==
  ASSUME SuspectsQueued
  PROVE  SuspectIsQueued
  BY DEF SuspectsQueued, SuspectIsQueued

\* With nothing staged or queued the table is the program's heap.
LEMMA QuietTable ==
  ASSUME IInv
  PROVE  TableIsExact
  <1>1. eng.errors = {}
    BY DEF IInv, Safe, TableSound
  <1>2. ASSUME Quiet
        PROVE  /\ eng.out = fields
               /\ \A c \in Cells : eng.root[c] = Cardinality(RootsOn(c))
               /\ \A c \in Cells : eng.edge[c] = Cardinality(FieldsOn(c))
    <2>1. PICK L : Ledger(L) /\ Table(L)
      BY DEF IInv
    <2>2. \A p \in Producers : Len(Stream(p)) = 0
      <3>1. Len(<<>> \o <<>>) = 0
        OBVIOUS
      <3> QED
        BY <1>2, <3>1 DEF Quiet, Stream
    <2>3. \A p \in Producers : \A x \in Accounts : L[p][x][0] = Book(p, x)
      BY <2>1, <2>2 DEF Ledger
    <2>4. /\ eng.out \in [Pairs -> Nat] /\ fields \in [Pairs -> 0..MaxFields]
          /\ pool.owner \in [Cells -> Producers \cup {NoOwner}]
          /\ bag \in [Producers -> [Handles -> Nat]]
      BY DEF IInv, Safe, StateType, EngineType, Engines, PoolType, Pairs
    <2>5. ASSUME NEW q \in Pairs PROVE eng.out[q] = fields[q]
      <3> DEFINE x == EdgeAccount(q)
                 o == pool.owner[Index(q[1])]
      <3>1. x \in Accounts /\ x[1] = "edge" /\ x[2] = q[1] /\ x[3] = q[2]
            /\ q = <<q[1], q[2]>> /\ q[1] \in Handles /\ Index(q[1]) \in Cells
        BY HandlesFinite DEF Pairs, EdgeAccount, Accounts
      <3>2. CASE o \in Producers
        <4>1. L[o][x][0] = eng.out[q]
          BY <2>1, <3>2 DEF Table
        <4>2. Book(o, x) = fields[q]
          BY <3>1 DEF Book
        <4> QED
          BY <2>3, <3>1, <3>2, <4>1, <4>2
      <3>3. CASE o \notin Producers
        <4>1. ~Valid(pool, q[1])
          BY <3>1, <3>3 DEF IInv, Safe, PoolSound, Valid
        <4>2. ~(eng.out[q] > 0) /\ ~(fields[q] > 0)
          BY <4>1 DEF IInv, Safe, TableSound, RecordsLive, RefsPresent
        <4>3. eng.out[q] \in Nat /\ fields[q] \in Nat
          BY <2>4
        <4> QED
          BY <4>2, <4>3
      <3> QED
        BY <3>2, <3>3
    <2>6. eng.out = fields
      BY <2>4, <2>5
    <2>7. ASSUME NEW c \in Cells PROVE eng.root[c] = Cardinality(RootsOn(c))
      <3> DEFINE S == RootSlots(c)
                 f == RootsTold(L)
                 g == [t \in Producers \X Handles |-> bag[t[1]][t[2]]]
      <3>1. ASSUME NEW t \in S PROVE f[t] = g[t]
        <4>1. t \in Producers \X Handles /\ t[1] \in Producers /\ t[2] \in Handles
          BY DEF RootSlots
        <4>2. RootAccount(t[2]) \in Accounts /\ Book(t[1], RootAccount(t[2])) = bag[t[1]][t[2]]
          BY <4>1 DEF RootAccount, Accounts, Book
        <4>3. f[t] = L[t[1]][RootAccount(t[2])][0]
          BY <4>1 DEF RootsTold
        <4> QED
          BY <2>3, <4>1, <4>2, <4>3
      <3>2. RootsOn(c) = Copies(S, g)
        BY DEF RootsOn, RootSlots
      <3>3. eng.root[c] = Cardinality(Copies(S, f))
        BY <2>1 DEF Table
      <3> HIDE DEF S, f, g
      <3>4. Copies(S, f) = Copies(S, g)
        BY <3>1, CopiesSame
      <3> QED
        BY <3>2, <3>3, <3>4
    <2>8. ASSUME NEW c \in Cells PROVE eng.edge[c] = Cardinality(FieldsOn(c))
      <3>1. FieldsOn(c) = Copies(Into(c), fields)
        BY DEF FieldsOn, Into, Pairs
      <3> QED
        BY <2>6, <3>1 DEF IInv, Safe, TableSound, EdgesExact
    <2> QED
      BY <2>6, <2>7, <2>8
  <1> QED
    BY <1>1, <1>2 DEF TableIsExact

\* There are finitely many pairs of a producer and a handle.
LEMMA RootSlotsFinite ==
  ASSUME NEW c
  PROVE  IsFiniteSet(RootSlots(c)) /\ RootSlots(c) \subseteq Producers \X Handles
  <1>1. IsFiniteSet(Producers)
    BY RuntimeAssumption, FS_Interval DEF Producers
  <1>2. IsFiniteSet(Producers \X Handles)
    BY <1>1, HandlesFinite, FS_Product
  <1>3. RootSlots(c) \subseteq Producers \X Handles
    BY DEF RootSlots
  <1> QED
    BY <1>2, <1>3, FS_Subset

-----------------------------------------------------------------------------
(* The initial state *)

\* In the empty runtime every account is at zero.
LEMMA InitInv == Init => IInv
  <1> SUFFICES ASSUME Init PROVE IInv
    OBVIOUS
  <1> DEFINE z == [i \in Nat |-> 0]
             L == [p \in Producers |-> [x \in Accounts |-> z]]
  <1> USE DEF Init, NothingInFlight
  <1>1. 1 \in Producers
    BY RuntimeAssumption DEF Producers
  <1>2. MaxGen \in Nat /\ MaxFields \in Nat /\ BatchLimit \in Nat \ {0} /\ 0 \in 0..MaxGen
        /\ 0 \in 0..MaxFields
    BY EngineAssumption, RuntimeAssumption
  <1>3. <<>> \in Seq(Messages) /\ <<>> \o <<>> = <<>> /\ Len(<<>>) = 0
    BY EmptySeq
  <1>4. \A p \in Producers : queue[p] = <<>> /\ batch[p] = <<>> /\ Stream(p) = <<>> /\ left[p] = 0
    BY <1>3 DEF Stream
  <1>5. EngineType(eng) /\ PoolType(pool, Producers)
    BY <1>2 DEF EmptyEngine, EngineType, Engines, EmptyPool, PoolType
  <1>6. StateType
    BY <1>1, <1>2, <1>3, <1>5 DEF StateType, Pairs
  <1>7. BatchesKept
    <2>1. Staged(<<>>)
      BY <1>3 DEF Staged
    <2> QED
      BY <1>2, <1>3, <1>4, <2>1 DEF BatchesKept
  <1>8. MessagesSound
    BY <1>3, <1>4 DEF MessagesSound
  <1>9. RefsPresent /\ PoolSound
    BY DEF RefsPresent, Pairs, PoolSound, EmptyPool
  <1>10. TableSound
    <2>1. EdgesExact(eng)
      <3> SUFFICES ASSUME NEW c \in Cells PROVE eng.edge[c] = Cardinality(Copies(Into(c), eng.out))
        BY DEF EdgesExact
      <3>1. \A q \in Into(c) : eng.out[q] = 0
        BY DEF EmptyEngine, Into, Pairs
      <3>2. Cardinality(Copies(Into(c), eng.out)) = 0
        <4> DEFINE S == Into(c)
                   f == eng.out
        <4>1. IsFiniteSet(S)
          BY HandlesFinite
        <4> HIDE DEF S, f
        <4>2. (\A t \in S : f[t] = 0) /\ \A t \in S : f[t] \in Nat
          BY <3>1 DEF S, f
        <4>3. Cardinality(Copies(S, f)) = 0
          BY <4>1, <4>2, CopiesZero
        <4> QED
          BY <4>3 DEF S, f
      <3> QED
        BY <3>2 DEF EmptyEngine
    <2>2. RecordsLive(eng, pool)
      BY DEF EmptyEngine, RecordsLive, Pairs
    <2> QED
      BY <2>1, <2>2 DEF TableSound, EmptyEngine
  <1>11. SuspectsQueued /\ RoundSound
    BY <1>3, <1>4 DEF SuspectsQueued, RoundSound, EmptyEngine
  <1>12. z \in [Nat -> Nat] /\ z[0] = 0
    OBVIOUS
  <1> HIDE DEF z
  <1>13. \A p \in Producers : \A x \in Accounts : L[p][x] = z /\ L[p][x][0] = 0
    BY <1>12
  <1>14. L \in [Producers -> Ledgers]
    BY <1>12 DEF Ledgers
  <1> HIDE DEF L
  <1>15. Ledger(L)
    <2>1. ASSUME NEW p \in Producers PROVE Keeps(L[p], Stream(p))
      <3>1. \A x \in Accounts : Tally(z, <<>>, x)
        BY <1>3, <1>12 DEF Tally
      <3> QED
        BY <1>4, <1>13, <1>14, <3>1 DEF Keeps
    <2>2. ASSUME NEW p \in Producers, NEW x \in Accounts
          PROVE  L[p][x][Len(Stream(p))] = Book(p, x)
      <3>1. x[2] \in Handles /\ x[3] \in Handles
        BY DEF Accounts
      <3>2. Book(p, x) = 0
        BY <3>1 DEF Book
      <3> QED
        BY <1>3, <1>4, <1>13, <3>2
    <2> QED
      BY <1>14, <2>1, <2>2 DEF Ledger
  <1>16. Table(L)
    <2>1. ASSUME NEW c \in Cells PROVE eng.root[c] = Cardinality(Copies(RootSlots(c), RootsTold(L)))
      <3>1. \A t \in RootSlots(c) : RootsTold(L)[t] = 0
        BY <1>13 DEF RootSlots, RootsTold, RootAccount, Accounts
      <3>2. Cardinality(Copies(RootSlots(c), RootsTold(L))) = 0
        <4> DEFINE S == RootSlots(c)
                   f == RootsTold(L)
        <4>1. IsFiniteSet(S)
          BY RootSlotsFinite
        <4> HIDE DEF S, f
        <4>2. (\A t \in S : f[t] = 0) /\ \A t \in S : f[t] \in Nat
          BY <3>1 DEF S, f
        <4>3. Cardinality(Copies(S, f)) = 0
          BY <4>1, <4>2, CopiesZero
        <4> QED
          BY <4>3 DEF S, f
      <3> QED
        BY <3>2 DEF EmptyEngine
    <2>2. ASSUME NEW p \in Producers, NEW q \in Pairs
          PROVE  L[p][EdgeAccount(q)][0] = IF pool.owner[Index(q[1])] = p THEN eng.out[q] ELSE 0
      <3>1. EdgeAccount(q) \in Accounts
        BY DEF EdgeAccount, Accounts, Pairs
      <3>2. eng.out[q] = 0
        BY DEF EmptyEngine, Pairs
      <3> QED
        BY <1>13, <3>1, <3>2
    <2> QED
      BY <2>1, <2>2 DEF Table
  <1>17. ~Sweeping
    BY DEF Sweeping
  <1> QED
    BY <1>6, <1>7, <1>8, <1>9, <1>10, <1>11, <1>15, <1>16, <1>17 DEF IInv, Safe

-----------------------------------------------------------------------------
(* The worker's bookkeeping *)

heapVars == <<eng, pool, bag, fields, batch, queue, phase>>

\* Steps that move only the round leave the program, the streams and the table alone.
LEMMA HeapFrozen ==
  ASSUME UNCHANGED heapVars
  PROVE  /\ BatchesKept => BatchesKept'
         /\ MessagesSound => MessagesSound'
         /\ RefsPresent => RefsPresent'
         /\ PoolSound => PoolSound'
         /\ TableSound => TableSound'
         /\ \A L : (Ledger(L) => Ledger(L)') /\ (Table(L) => Table(L)')
         /\ \A p : Stream(p)' = Stream(p)
         /\ Reachable' = Reachable
         /\ \A p, x : Book(p, x)' = Book(p, x)
  <1> USE DEF heapVars
  <1>1. \A p : Stream(p)' = Stream(p)
    BY DEF Stream
  <1>2. \A p, x : Book(p, x)' = Book(p, x)
    BY DEF Book
  <1>3. Reachable' = Reachable
    BY DEF Reachable, Edges, Held
  <1>4. BatchesKept => BatchesKept'
    BY DEF BatchesKept
  <1>5. MessagesSound => MessagesSound'
    BY <1>1 DEF MessagesSound, Sound
  <1>6. RefsPresent => RefsPresent'
    BY DEF RefsPresent
  <1>7. PoolSound => PoolSound'
    BY DEF PoolSound
  <1>8. TableSound => TableSound'
    BY DEF TableSound
  <1>9. ASSUME NEW L PROVE (Ledger(L) => Ledger(L)') /\ (Table(L) => Table(L)')
    <2>1. Ledger(L) => Ledger(L)'
      BY <1>1, <1>2 DEF Ledger
    <2>2. Table(L) => Table(L)'
      BY DEF Table
    <2> QED
      BY <2>1, <2>2
  <1> QED
    BY <1>1, <1>2, <1>3, <1>4, <1>5, <1>6, <1>7, <1>8, <1>9

\* A step that changes neither the heap nor the round keeps the invariant.
LEMMA StutterStep ==
  ASSUME IInv, UNCHANGED heapVars, UNCHANGED <<wpc, wi, left, hot, stable>>
  PROVE  IInv'
  <1>1. UNCHANGED heapVars /\ UNCHANGED <<wpc, wi, left, hot, stable>>
    OBVIOUS
  <1>2. Safe'
    BY <1>1, HeapFrozen DEF IInv, Safe, StateType, SuspectsQueued, RoundSound, heapVars
  <1>3. PICK L : Ledger(L) /\ Table(L) /\ (Sweeping => \E K : Cut(L, K))
    BY DEF IInv
  <1>4. Ledger(L)' /\ Table(L)'
    BY <1>1, <1>3, HeapFrozen
  <1>5. Sweeping' => \E K : Cut(L, K)'
    <2>1. Sweeping' => Sweeping
      BY <1>1 DEF Sweeping
    <2>2. ASSUME NEW K, Cut(L, K) PROVE Cut(L, K)'
      <3>1. AtCut(L)' = AtCut(L)
        BY <1>1 DEF AtCut, CutRoots, CutEdges
      <3> QED
        BY <1>1, <2>2, <3>1, HeapFrozen DEF Cut, heapVars
    <2> QED
      BY <1>3, <2>1, <2>2
  <1> QED
    BY <1>2, <1>4, <1>5 DEF IInv

\* Mutator::close only bars further operations.
LEMMA CloseStep ==
  ASSUME IInv, NEW p \in Producers, Close(p)
  PROVE  IInv'
  <1>1. UNCHANGED heapVars /\ UNCHANGED <<wpc, wi, left, hot, stable>>
    BY DEF Close, heapVars, roundVars
  <1> QED
    BY <1>1, StutterStep

\* The first sample of the counters: a producer with an open window is hot.
LEMMA BeginRoundStep ==
  ASSUME IInv, BeginRound
  PROVE  IInv'
  <1>1. UNCHANGED heapVars /\ wpc = "idle" /\ wpc' = "tails" /\ wi' = 1 /\ UNCHANGED <<left, stable>>
        /\ hot' = {p \in Producers : batch[p] # <<>>}
    BY DEF BeginRound, heapVars, mutVars
  <1>2. Safe'
    <2>1. StateType'
      <3>1. 1 \in Producers
        BY RuntimeAssumption DEF Producers
      <3> QED
        BY <1>1, <3>1 DEF IInv, Safe, StateType, heapVars
    <2>2. SuspectsQueued'
      BY <1>1 DEF IInv, Safe, SuspectsQueued, heapVars
    <2>3. RoundSound'
      <3>1. \A p \in Producers : ~(p < 1)
        BY RuntimeAssumption DEF Producers
      <3> QED
        BY <1>1, <3>1 DEF IInv, Safe, RoundSound, heapVars
    <2> QED
      BY <1>1, <2>1, <2>2, <2>3, HeapFrozen DEF IInv, Safe
  <1>3. PICK L : Ledger(L) /\ Table(L)
    BY DEF IInv
  <1>4. Ledger(L)' /\ Table(L)'
    BY <1>1, <1>3, HeapFrozen
  <1>5. ~Sweeping'
    BY <1>1 DEF Sweeping
  <1> QED
    BY <1>2, <1>4, <1>5 DEF IInv

\* The end of a drain, and of the zero sweep: the cut stays what it was.
LEMMA PhaseStep ==
  ASSUME IInv, EndDrain \/ SweepZeroDone
  PROVE  IInv'
  <1>1. UNCHANGED heapVars /\ UNCHANGED <<wi, left, hot>>
    BY DEF EndDrain, SweepZeroDone, heapVars, mutVars, roundVars
  <1>2. /\ wpc' \in {"idle", "zero", "cycle"} /\ stable' \in BOOLEAN
        /\ \A p \in Producers : left[p] = 0
        /\ wpc' # "idle" => Sweeping
    <2>1. CASE EndDrain
      <3>1. \A p \in Producers : left[p] = 0
        BY <2>1 DEF EndDrain, ToDrain, IInv, Safe, StateType
      <3> QED
        BY <2>1, <3>1 DEF EndDrain, Sweeping
    <2>2. CASE SweepZeroDone
      BY <2>2 DEF SweepZeroDone, roundVars, IInv, Safe, StateType, RoundSound, Sweeping
    <2> QED
      BY <2>1, <2>2
  <1>3. Safe'
    <2>1. StateType'
      BY <1>1, <1>2 DEF IInv, Safe, StateType, heapVars
    <2>2. SuspectsQueued'
      <3>1. CASE EndDrain
        BY <1>1, <3>1 DEF EndDrain, IInv, Safe, SuspectsQueued, heapVars
      <3>2. CASE SweepZeroDone
        BY <1>1, <3>2 DEF SweepZeroDone, IInv, Safe, SuspectsQueued, heapVars
      <3> QED
        BY <3>1, <3>2
    <2>3. RoundSound'
      BY <1>1, <1>2 DEF IInv, Safe, RoundSound, heapVars
    <2> QED
      BY <1>1, <2>1, <2>2, <2>3, HeapFrozen DEF IInv, Safe
  <1>4. PICK L : Ledger(L) /\ Table(L) /\ (Sweeping => \E K : Cut(L, K))
    BY DEF IInv
  <1>5. Ledger(L)' /\ Table(L)'
    BY <1>1, <1>4, HeapFrozen
  <1>6. Sweeping' => \E K : Cut(L, K)'
    <2>1. Sweeping' => Sweeping
      BY <1>2 DEF Sweeping
    <2>2. ASSUME NEW K, Cut(L, K) PROVE Cut(L, K)'
      <3>1. AtCut(L)' = AtCut(L)
        BY <1>1 DEF AtCut, CutRoots, CutEdges
      <3> QED
        BY <1>1, <2>2, <3>1, HeapFrozen DEF Cut, heapVars
    <2> QED
      BY <1>4, <2>1, <2>2
  <1> QED
    BY <1>3, <1>5, <1>6 DEF IInv

\* A stream is the queue followed by the batch.
LEMMA StreamType ==
  ASSUME StateType, NEW p \in Producers
  PROVE  /\ queue[p] \in Seq(Messages) /\ batch[p] \in Seq(Messages)
         /\ Stream(p) \in Seq(Messages)
         /\ Len(queue[p]) \in Nat /\ Len(batch[p]) \in Nat /\ Len(Stream(p)) \in Nat
         /\ Len(Stream(p)) = Len(queue[p]) + Len(batch[p])
         /\ \A i \in 1..Len(Stream(p)) :
              /\ Stream(p)[i] \in Messages
              /\ Stream(p)[i] = IF i <= Len(queue[p]) THEN queue[p][i]
                                ELSE batch[p][i - Len(queue[p])]
  <1> DEFINE q == queue[p]
             s == batch[p]
             u == q \o s
  <1>1. q \in Seq(Messages) /\ s \in Seq(Messages)
    BY DEF StateType
  <1>2. Stream(p) = u
    BY DEF Stream
  <1> HIDE DEF q, s
  <1>3. /\ u \in Seq(Messages) /\ Len(q) \in Nat /\ Len(s) \in Nat /\ Len(u) = Len(q) + Len(s)
        /\ \A i \in 1..Len(q) + Len(s) : u[i] = IF i <= Len(q) THEN q[i] ELSE s[i - Len(q)]
    BY <1>1, ConcatProperties, LenProperties
  <1> HIDE DEF u
  <1>4. Len(u) \in Nat /\ \A i \in 1..Len(u) : u[i] \in Messages
    BY <1>3, LenProperties, ElementOfSeq
  <1> QED
    BY <1>1, <1>2, <1>3, <1>4 DEF q, s

\* An object with a positive balance anywhere along a stream still exists: either a
\* later message names it, or the balance is the program's own.
LEMMA LateBalance ==
  ASSUME Safe, NEW L, Ledger(L), NEW p \in Producers, NEW x \in Accounts,
         NEW i \in 0..Len(Stream(p)), L[p][x][i] > 0
  PROVE  Valid(pool, x[2]) /\ Valid(pool, x[3])
  <1> DEFINE s == Stream(p)
             f == L[p][x]
  <1>1. StateType /\ MessagesSound /\ RefsPresent
    BY DEF Safe
  <1>2. s \in Seq(Messages) /\ Len(s) \in Nat
    BY <1>1, StreamType
  <1>3. Tally(f, s, x) /\ f[Len(s)] = Book(p, x)
    BY DEF Ledger, Keeps
  <1>4. x[2] \in Handles /\ x[3] \in Handles
    BY DEF Accounts
  <1>5. CASE \E k \in (i + 1)..Len(s) : Effect(s[k], x) # 0
    <2>1. PICK k \in (i + 1)..Len(s) : Effect(s[k], x) # 0
      BY <1>5
    <2>2. k \in 1..Len(s)
      <3> HIDE DEF s
      <3> QED
        BY <1>2, <2>1
    <2>3. s[k].a = x[2] /\ s[k].b = x[3]
      BY <2>1 DEF Effect, Touches
    <2>4. Sound(p, s[k])
      BY <1>1, <2>2 DEF MessagesSound
    <2> QED
      BY <2>3, <2>4 DEF Sound
  <1>6. CASE \A k \in (i + 1)..Len(s) : Effect(s[k], x) = 0
    <2>1. f[Len(s)] = f[i]
      <3>1. i \in Nat /\ i <= Len(s) /\ Len(s) <= Len(s)
        BY <1>2
      <3> HIDE DEF s, f
      <3> QED
        BY <1>2, <1>3, <1>6, <3>1, TallyGap
    <2>2. Book(p, x) > 0
      BY <1>3, <2>1
    <2>3. CASE x[1] = "root"
      <3>1. x[2] = x[3] /\ bag[p][x[2]] > 0
        BY <2>2, <2>3 DEF Book
      <3> QED
        BY <1>1, <1>4, <3>1 DEF RefsPresent
    <2>4. CASE x[1] # "root"
      <3>1. fields[<<x[2], x[3]>>] > 0 /\ <<x[2], x[3]>> \in Pairs
        BY <1>4, <2>2, <2>4 DEF Book, Pairs
      <3> QED
        BY <1>1, <3>1 DEF RefsPresent
    <2> QED
      BY <2>3, <2>4
  <1> QED
    BY <1>5, <1>6

\* A stable snapshot: every stream ends at its tail, so the cut is the present.
LEMMA CutOpens ==
  ASSUME Safe, Safe', UNCHANGED heapVars, NEW L, Ledger(L), Ledger(L)',
         \A p \in Producers : left'[p] = Len(Stream(p))
  PROVE  \E K : Cut(L, K)'
  <1>0. PICK K : K = {h \in Handles : Valid(pool, h)}
    OBVIOUS
  <1>1. pool' = pool /\ eng' = eng /\ Reachable' = Reachable /\ \A p : Stream(p)' = Stream(p)
    BY HeapFrozen DEF heapVars
  <1>2. StateType /\ MessagesSound /\ RefsPresent /\ PoolSound /\ TableSound
    BY DEF Safe
  <1>3. \A p \in Producers : \A x \in Accounts : L[p][x][left'[p]] = Book(p, x)
    BY DEF Ledger
  <1>4. CutRoots(L)' = UNION {Held(p) : p \in Producers}
    <2>1. \A p \in Producers : \A h \in Handles :
             RootAccount(h) \in Accounts /\ Book(p, RootAccount(h)) = bag[p][h]
      BY DEF RootAccount, Accounts, Book
    <2>2. \A h \in Handles : h \in CutRoots(L)' <=> \E p \in Producers : bag[p][h] > 0
      BY <1>3, <2>1 DEF CutRoots
    <2>3. CutRoots(L)' \subseteq Handles
      BY DEF CutRoots
    <2> QED
      BY <2>2, <2>3, HeldHandles
  <1>5. CutEdges(L)' = Edges
    <2>1. ASSUME NEW q \in Pairs
          PROVE  (\E p \in Producers : L[p][EdgeAccount(q)][left'[p]] > 0) <=> fields[q] > 0
      <3> DEFINE x == EdgeAccount(q)
      <3>1. /\ x \in Accounts /\ x[1] = "edge" /\ x[2] = q[1] /\ x[3] = q[2]
            /\ q = <<q[1], q[2]>> /\ q[1] \in Handles /\ Index(q[1]) \in Cells
        BY HandlesFinite DEF EdgeAccount, Accounts, Pairs
      <3>2. \A p \in Producers : Book(p, x) = IF pool.owner[Index(q[1])] = p THEN fields[q] ELSE 0
        BY <3>1 DEF Book
      <3>3. fields[q] > 0 => pool.owner[Index(q[1])] \in Producers
        BY <1>2, <3>1 DEF RefsPresent, PoolSound, Valid
      <3> QED
        BY <1>3, <3>1, <3>2, <3>3
    <2> QED
      BY <2>1 DEF CutEdges, Edges, Pairs
  <1>6. AtCut(L)' = Reachable
    BY <1>4, <1>5 DEF AtCut, Reachable
  <1>7. \A p \in Producers : \A i \in 1..Len(Stream(p)) :
           /\ Stream(p)[i].a \in K /\ Stream(p)[i].b \in K /\ i <= left'[p]
    <2> SUFFICES ASSUME NEW p \in Producers, NEW i \in 1..Len(Stream(p))
                 PROVE  Stream(p)[i].a \in K /\ Stream(p)[i].b \in K /\ i <= left'[p]
      OBVIOUS
    <2>1. Stream(p)[i] \in Messages /\ Len(Stream(p)) \in Nat
      BY <1>2, StreamType
    <2>2. Sound(p, Stream(p)[i])
      BY <1>2 DEF MessagesSound
    <2>3. Stream(p)[i].a \in Handles /\ Stream(p)[i].b \in Handles
      BY <2>1 DEF Messages
    <2> QED
      BY <1>0, <2>1, <2>2, <2>3 DEF Sound
  <1>8. \A c \in eng.zero \cup eng.marks : <<c, pool.gen[c]>> \in K
    BY <1>0, <1>2 DEF TableSound, StateType, EngineType, Engines, PoolType, Handles, Valid, Index, Gen
  <1>9. \A p \in Producers : \A x \in Accounts : \A i \in 0..left'[p] :
           L[p][x][i] > 0 => x[2] \in K /\ x[3] \in K
    <2> SUFFICES ASSUME NEW p \in Producers, NEW x \in Accounts, NEW i \in 0..left'[p],
                        L[p][x][i] > 0
                 PROVE  x[2] \in K /\ x[3] \in K
      OBVIOUS
    <2>1. i \in 0..Len(Stream(p))
      OBVIOUS
    <2>2. x[2] \in Handles /\ x[3] \in Handles
      BY DEF Accounts
    <2> QED
      BY <1>0, <2>1, <2>2, LateBalance
  <1>10. \A h \in K : h \in Handles /\ Valid(pool, h)
    BY <1>0
  <1>11. Cut(L, K)'
    BY <1>1, <1>6, <1>7, <1>8, <1>9, <1>10 DEF Cut
  <1> QED
    BY <1>11

\* One tail is read; with the last one, the second sample decides.
LEMMA ReadTailStep ==
  ASSUME IInv, ReadTail
  PROVE  IInv'
  <1>1. UNCHANGED heapVars /\ wpc = "tails"
    BY DEF ReadTail, heapVars, mutVars
  <1>2. StateType /\ RoundSound /\ NProducers \in Nat \ {0}
    BY RuntimeAssumption DEF IInv, Safe
  <1>3. left' = [left EXCEPT ![wi] = Len(queue[wi])] /\ wi \in Producers
    BY <1>2 DEF ReadTail, StateType
  <1>4. /\ left' \in [Producers -> Nat]
        /\ \A p \in Producers : left'[p] = IF p = wi THEN Len(queue[p]) ELSE left[p]
        /\ \A p \in Producers : left'[p] <= Len(queue[p])
    <2>1. \A p \in Producers : Len(queue[p]) \in Nat /\ left[p] <= Len(queue[p]) /\ left[p] \in Nat
      BY <1>2, StreamType DEF RoundSound, StateType
    <2>2. left \in [Producers -> Nat]
      BY <1>2 DEF StateType
    <2> QED
      BY <1>3, <2>1, <2>2
  <1>5. PICK L : Ledger(L) /\ Table(L)
    BY DEF IInv
  <1>6. Ledger(L)' /\ Table(L)'
    BY <1>1, <1>5, HeapFrozen
  <1>7. CASE wi < NProducers
    <2>1. wi' = wi + 1 /\ UNCHANGED <<wpc, hot, stable>> /\ wi + 1 \in Producers
      BY <1>2, <1>3, <1>7 DEF ReadTail, Producers
    <2>2. StateType'
      BY <1>1, <1>4, <2>1 DEF IInv, Safe, StateType, heapVars
    <2>3. SuspectsQueued'
      BY <1>1, <2>1 DEF IInv, Safe, SuspectsQueued, heapVars
    <2>4. RoundSound'
      <3>1. \A p \in Producers : p < wi + 1 => p < wi \/ p = wi
        BY <1>2, <1>3 DEF Producers
      <3> QED
        BY <1>1, <1>2, <1>4, <2>1, <3>1 DEF RoundSound, heapVars
    <2>5. ~Sweeping'
      BY <1>1, <2>1 DEF Sweeping
    <2>6. Safe'
      BY <1>1, <2>2, <2>3, <2>4, HeapFrozen DEF IInv, Safe
    <2> QED
      BY <1>6, <2>5, <2>6 DEF IInv
  <1>8. CASE ~(wi < NProducers)
    <2>1. wi' = 1 /\ wpc' = "drain" /\ hot' = {} /\ stable' = StableCut /\ 1 \in Producers
      BY <1>2, <1>8 DEF ReadTail, Producers
    <2>2. StateType'
      BY <1>1, <1>4, <2>1 DEF IInv, Safe, StateType, heapVars, StableCut
    <2>3. SuspectsQueued'
      BY <1>1, <2>1 DEF IInv, Safe, SuspectsQueued, heapVars
    <2>4. RoundSound'
      BY <1>1, <1>4, <2>1 DEF RoundSound, heapVars
    <2>5. Safe'
      BY <1>1, <2>2, <2>3, <2>4, HeapFrozen DEF IInv, Safe
    <2>6. ASSUME Sweeping' PROVE \E K : Cut(L, K)'
      <3>1. hot = {}
        BY <2>1, <2>6 DEF Sweeping, StableCut
      <3>2. ASSUME NEW p \in Producers PROVE left'[p] = Len(Stream(p))
        <4>1. p < wi \/ p = wi
          BY <1>2, <1>3, <1>8 DEF Producers
        <4>2. batch[p] = <<>> /\ left'[p] = Len(queue[p])
          BY <1>1, <1>2, <1>4, <3>1, <4>1 DEF RoundSound
        <4>3. Len(batch[p]) = 0
          BY <4>2
        <4>4. Len(Stream(p)) = Len(queue[p]) + Len(batch[p]) /\ Len(queue[p]) \in Nat
          BY <1>2, StreamType
        <4> QED
          BY <4>2, <4>3, <4>4
      <3> QED
        BY <1>1, <1>5, <1>6, <2>5, <3>2, CutOpens DEF IInv
    <2> QED
      BY <1>6, <2>5, <2>6 DEF IInv
  <1> QED
    BY <1>7, <1>8

-----------------------------------------------------------------------------
(* Staging and publishing *)

\* What a mutator's step may do to the pool: claim free slots.
PoolGrows ==
    \A c \in Cells : /\ pool'.gen[c] = pool.gen[c]
                     /\ pool.live[c] => pool'.live[c] /\ pool'.owner[c] = pool.owner[c]

\* Objects that exist, and messages about them, outlive an allocation.
LEMMA SoundStays ==
  ASSUME PoolGrows
  PROVE  /\ \A h \in Handles : Valid(pool, h) => Valid(pool', h)
         /\ \A r : \A m \in Messages : Sound(r, m) => Sound(r, m)'
  <1>1. \A h \in Handles : Index(h) \in Cells
    BY HandlesFinite
  <1>2. \A h \in Handles : Valid(pool, h) => Valid(pool', h)
    BY <1>1 DEF PoolGrows, Valid
  <1>3. ASSUME NEW r, NEW m \in Messages, Sound(r, m) PROVE Sound(r, m)'
    <2>1. m.a \in Handles /\ m.b \in Handles
      BY DEF Messages
    <2>2. Valid(pool', m.a) /\ Valid(pool', m.b)
      BY <1>2, <1>3, <2>1 DEF Sound
    <2>3. pool'.owner[Index(m.a)] = pool.owner[Index(m.a)]
      BY <1>1, <1>3, <2>1 DEF Sound, PoolGrows, Valid
    <2> QED
      BY <1>3, <2>2, <2>3 DEF Sound
  <1> QED
    BY <1>2, <1>3

\* The streams after the batch of p has become t.
LEMMA RestagedStreams ==
  ASSUME StateType, NEW p \in Producers, NEW t \in Seq(Messages),
         batch' = [batch EXCEPT ![p] = t], queue' = queue
  PROVE  /\ \A r \in Producers \ {p} : Stream(r)' = Stream(r)
         /\ Stream(p)' = queue[p] \o t
         /\ Len(t) \in Nat
         /\ \A i \in 1..Len(Stream(p)') :
              Stream(p)'[i] = IF i <= Len(queue[p]) THEN Stream(p)[i] ELSE t[i - Len(queue[p])]
         /\ \A i \in 1..Len(Stream(p)') : i > Len(queue[p]) => i - Len(queue[p]) \in 1..Len(t)
         /\ \A i \in 1..Len(queue[p]) : i \in 1..Len(Stream(p))
  <1>1. batch \in [Producers -> Seq(Messages)]
    BY DEF StateType
  <1>2. \A r \in Producers \ {p} : Stream(r)' = Stream(r)
    BY <1>1 DEF Stream
  <1>3. Stream(p)' = queue[p] \o t
    BY <1>1 DEF Stream
  <1> DEFINE q == queue[p]
             u == q \o t
             v == Stream(p)
  <1>4. /\ q \in Seq(Messages) /\ Len(q) \in Nat /\ Len(v) \in Nat /\ Len(v) >= Len(q)
        /\ \A i \in 1..Len(v) : i <= Len(q) => v[i] = q[i]
    <2>1. /\ q \in Seq(Messages) /\ Len(q) \in Nat /\ Len(v) \in Nat
          /\ Len(v) = Len(q) + Len(batch[p]) /\ Len(batch[p]) \in Nat
          /\ \A i \in 1..Len(v) : i <= Len(q) => v[i] = q[i]
      BY StreamType
    <2> HIDE DEF v, q
    <2> QED
      BY <2>1
  <1> HIDE DEF v, q
  <1>5. /\ Len(u) = Len(q) + Len(t) /\ Len(t) \in Nat
        /\ \A i \in 1..Len(q) + Len(t) : u[i] = IF i <= Len(q) THEN q[i] ELSE t[i - Len(q)]
    BY <1>4, ConcatProperties, LenProperties
  <1> HIDE DEF u
  <1>6. \A i \in 1..Len(u) : u[i] = IF i <= Len(q) THEN v[i] ELSE t[i - Len(q)]
    <2> SUFFICES ASSUME NEW i \in 1..Len(u)
                 PROVE  u[i] = IF i <= Len(q) THEN v[i] ELSE t[i - Len(q)]
      OBVIOUS
    <2>1. i <= Len(q) => i \in 1..Len(v)
      BY <1>4, <1>5
    <2> QED
      BY <1>4, <1>5, <2>1
  <1>7. \A i \in 1..Len(u) : i > Len(q) => i - Len(q) \in 1..Len(t)
    BY <1>4, <1>5
  <1>8. \A i \in 1..Len(q) : i \in 1..Len(v)
    BY <1>4
  <1> QED
    BY <1>2, <1>3, <1>5, <1>6, <1>7, <1>8 DEF u, v, q

\* A batch of sound messages keeps the streams sound.
LEMMA RestagedSound ==
  ASSUME StateType, MessagesSound, PoolGrows, NEW p \in Producers, NEW t \in Seq(Messages),
         batch' = [batch EXCEPT ![p] = t], queue' = queue,
         \A k \in 1..Len(t) : Sound(p, t[k])'
  PROVE  MessagesSound'
  <1> SUFFICES ASSUME NEW r \in Producers, NEW i \in 1..Len(Stream(r)')
               PROVE  Sound(r, Stream(r)[i])'
    BY DEF MessagesSound
  <1>1. ASSUME NEW m \in Messages, Sound(r, m) PROVE Sound(r, m)'
    BY <1>1, SoundStays
  <1>2. CASE r # p
    <2>1. Stream(r)' = Stream(r) /\ i \in 1..Len(Stream(r))
      BY <1>2, RestagedStreams
    <2>2. Stream(r)[i] \in Messages /\ Sound(r, Stream(r)[i])
      BY <2>1, StreamType DEF MessagesSound
    <2>3. PICK m \in Messages : m = Stream(r)[i]
      BY <2>2
    <2>4. Sound(r, m)'
      BY <1>1, <2>2, <2>3
    <2> QED
      BY <2>1, <2>3, <2>4 DEF Sound
  <1>3. CASE r = p
    <2> DEFINE n == Len(queue[p])
    <2>0. n \in Nat
      BY StreamType
    <2>1. CASE i <= n
      <3>1. i \in 1..n
        BY <1>3, <2>0, <2>1
      <3>2. i \in 1..Len(Stream(p)) /\ Stream(p)'[i] = Stream(p)[i]
        BY <1>3, <2>1, <3>1, RestagedStreams
      <3>3. Stream(p)[i] \in Messages /\ Sound(p, Stream(p)[i])
        BY <3>2, StreamType DEF MessagesSound
      <3>4. PICK m \in Messages : m = Stream(p)[i]
        BY <3>3
      <3>5. Sound(r, m)'
        BY <1>1, <1>3, <3>3, <3>4
      <3> QED
        BY <1>3, <3>2, <3>4, <3>5 DEF Sound
    <2>2. CASE ~(i <= n)
      <3>0. i \in 1..Len(Stream(p)') /\ i > n
        BY <1>3, <2>0, <2>2
      <3>1. i - n \in 1..Len(t) /\ Stream(p)'[i] = t[i - n]
        BY <2>2, <3>0, RestagedStreams
      <3> QED
        BY <1>3, <3>1 DEF Sound
    <2> QED
      BY <2>1, <2>2
  <1> QED
    BY <1>2, <1>3

\* The batch of p becomes t; the worker's side stands still.
Restages(p, t) == batch' = [batch EXCEPT ![p] = t] /\ UNCHANGED <<eng, queue, left>>

\* G takes the published messages of p as L does, and t to the new books.
Continues(p, t, L, G) ==
    /\ Keeps(G, queue[p] \o t)
    /\ \A x \in Accounts : /\ G[x][Len(queue[p] \o t)] = Book(p, x)'
                           /\ \A i \in 0..Len(queue[p]) : G[x][i] = L[p][x][i]

OthersKeep(p) == \A r \in Producers \ {p} : \A x \in Accounts : Book(r, x)' = Book(r, x)

SameUpToCut(L, M) ==
    \A r \in Producers : \A x \in Accounts : \A i \in 0..left[r] : M[r][x][i] = L[r][x][i]

\* The program reaches nothing more, except objects that did not exist.
ReachesOnly(New) ==
    /\ \A h \in New : ~Valid(pool, h)
    /\ \A h \in Reachable' : h \in Reachable \/ h \in New

\* The new batch of p names what is reachable, what is new, and what it named before.
NamesOnly(p, t, New) ==
    \A k \in 1..Len(t) : \A h \in {t[k].a, t[k].b} :
        \/ h \in Reachable \/ h \in New
        \/ \E j \in 1..Len(batch[p]) : h \in {batch[p][j].a, batch[p][j].b}

\* The accounts after the batch of p has become t: the balances the worker sees and
\* those at the cut are what they were, and so is the heap at the cut.
LEMMA RestagedLedger ==
  ASSUME Safe, PoolGrows, NEW p \in Producers, NEW t \in Seq(Messages),
         Restages(p, t), OthersKeep(p),
         NEW L, Ledger(L), Table(L), NEW G, Continues(p, t, L, G)
  PROVE  \E M : Ledger(M)' /\ Table(M)' /\ SameUpToCut(L, M) /\ AtCut(M)' = AtCut(L)
  <1> USE DEF Restages
  <1>0. PICK M : M = [L EXCEPT ![p] = G]
    OBVIOUS
  <1>1. StateType /\ RoundSound /\ TableSound
    BY DEF Safe
  <1>2. L \in [Producers -> Ledgers] /\ G \in Ledgers
    BY DEF Ledger, Keeps, Continues
  <1>3. M \in [Producers -> Ledgers] /\ M[p] = G /\ \A r \in Producers \ {p} : M[r] = L[r]
    BY <1>0, <1>2
  <1>4. \A r \in Producers : left[r] \in Nat /\ Len(queue[r]) \in Nat /\ left[r] <= Len(queue[r])
    BY <1>1, StreamType DEF StateType, RoundSound
  <1>5. \A r \in Producers : \A x \in Accounts : \A i \in 0..left[r] : M[r][x][i] = L[r][x][i]
    <2>1. \A i \in 0..left[p] : i \in 0..Len(queue[p])
      BY <1>4
    <2> QED
      BY <1>3, <2>1 DEF Continues
  <1>6. \A r \in Producers : 0 \in 0..left[r] /\ left[r] \in 0..left[r]
    BY <1>4
  <1>7. Ledger(M)'
    <2>1. ASSUME NEW r \in Producers
          PROVE  /\ Keeps(M[r], Stream(r)')
                 /\ \A x \in Accounts : M[r][x][Len(Stream(r)')] = Book(r, x)'
      <3>1. CASE r = p
        <4>1. Stream(p)' = queue[p] \o t
          BY <1>1, RestagedStreams
        <4> QED
          BY <1>3, <3>1, <4>1 DEF Continues
      <3>2. CASE r # p
        <4>1. Stream(r)' = Stream(r) /\ M[r] = L[r]
          BY <1>1, <1>3, <3>2, RestagedStreams
        <4>2. Keeps(L[r], Stream(r)) /\ \A x \in Accounts : L[r][x][Len(Stream(r))] = Book(r, x)
          BY DEF Ledger
        <4> QED
          BY <3>2, <4>1, <4>2 DEF OthersKeep
      <3> QED
        BY <3>1, <3>2
    <2> QED
      BY <1>3, <2>1 DEF Ledger
  <1>8. Table(M)'
    <2>1. RootsTold(M) = RootsTold(L)
      <3>1. \A s \in Producers \X Handles :
               M[s[1]][RootAccount(s[2])][0] = L[s[1]][RootAccount(s[2])][0]
        BY <1>5, <1>6 DEF RootAccount, Accounts
      <3> QED
        BY <3>1 DEF RootsTold
    <2>2. ASSUME NEW r \in Producers, NEW q \in Pairs
          PROVE  M[r][EdgeAccount(q)][0] = IF pool'.owner[Index(q[1])] = r THEN eng.out[q] ELSE 0
      <3>1. EdgeAccount(q) \in Accounts /\ q[1] \in Handles /\ Index(q[1]) \in Cells
        BY HandlesFinite DEF EdgeAccount, Accounts, Pairs
      <3>2. M[r][EdgeAccount(q)][0] = IF pool.owner[Index(q[1])] = r THEN eng.out[q] ELSE 0
        BY <1>5, <1>6, <3>1 DEF Table
      <3>3. CASE pool.live[Index(q[1])]
        BY <3>1, <3>2, <3>3 DEF PoolGrows
      <3>4. CASE ~pool.live[Index(q[1])]
        <4>1. ~(eng.out[q] > 0) /\ eng.out[q] \in Nat
          BY <1>1, <3>4 DEF TableSound, RecordsLive, Valid, StateType, EngineType, Engines, Pairs
        <4>2. eng.out[q] = 0
          BY <4>1
        <4> QED
          BY <3>2, <4>2
      <3> QED
        BY <3>3, <3>4
    <2>3. \A c \in Cells : eng.root[c] = Cardinality(Copies(RootSlots(c), RootsTold(M)))
      BY <2>1 DEF Table
    <2> QED
      BY <2>2, <2>3 DEF Table
  <1>9. AtCut(M)' = AtCut(L)
    <2>1. CutRoots(M)' = CutRoots(L)
      <3>1. \A h \in Handles : RootAccount(h) \in Accounts
        BY DEF RootAccount, Accounts
      <3> QED
        BY <1>5, <1>6, <3>1 DEF CutRoots
    <2>2. CutEdges(M)' = CutEdges(L)
      <3>1. \A q \in Pairs : EdgeAccount(q) \in Accounts
        BY DEF EdgeAccount, Accounts, Pairs
      <3> QED
        BY <1>5, <1>6, <3>1 DEF CutEdges
    <2> QED
      BY <2>1, <2>2 DEF AtCut
  <1> QED
    BY <1>5, <1>7, <1>8, <1>9 DEF SameUpToCut

\* The cut survives a step of a mutator that names, in its new messages, only what
\* was reachable, what is new, and what its batch already named.
LEMMA RestagedCut ==
  ASSUME Safe, PoolGrows, NEW p \in Producers, NEW t \in Seq(Messages),
         Restages(p, t), NEW L, NEW M, AtCut(M)' = AtCut(L), SameUpToCut(L, M),
         NEW New, ReachesOnly(New), NamesOnly(p, t, New), NEW K, Cut(L, K)
  PROVE  Cut(M, K)'
  <1> USE DEF Restages
  <1>1. StateType /\ RoundSound
    BY DEF Safe
  <1>2. \A h \in K : h \in Handles /\ Valid(pool, h) /\ Valid(pool', h) /\ h \notin New
    BY SoundStays DEF Cut, ReachesOnly
  <1>3. \A h \in K : h \in Reachable \/ h \in New => h \in AtCut(L)
    BY <1>2 DEF Cut
  <1>4. \A h \in K : h \in Reachable' => h \in AtCut(M)'
    BY <1>3 DEF ReachesOnly
  <1>5. \A c \in eng.zero \cup eng.marks : <<c, pool'.gen[c]>> \in K
    <2>1. \A c \in eng.zero \cup eng.marks : c \in Cells
      BY <1>1 DEF StateType, EngineType, Engines
    <2> QED
      BY <2>1 DEF Cut, PoolGrows
  <1>6. ASSUME NEW r \in Producers, NEW i \in 1..Len(Stream(r)'),
               NEW h \in {Stream(r)'[i].a, Stream(r)'[i].b}
        PROVE  IF i <= left[r] THEN h \in K ELSE h \in K => h \in AtCut(L)
    <2>1. CASE r # p
      <3>1. Stream(r)' = Stream(r)
        BY <1>1, <2>1, RestagedStreams
      <3>2. i \in 1..Len(Stream(r)) /\ h \in {Stream(r)[i].a, Stream(r)[i].b}
        BY <3>1
      <3> QED
        BY <3>2 DEF Cut
    <2>2. CASE r = p
      <3> DEFINE n == Len(queue[p])
      <3>1. n \in Nat /\ left[p] \in Nat /\ left[p] <= n /\ i \in Nat /\ Len(Stream(p)) \in Nat
            /\ Len(Stream(p)) = n + Len(batch[p]) /\ Len(batch[p]) \in Nat
        BY <1>1, <2>2, StreamType DEF RoundSound, StateType
      <3>2. CASE i <= n
        <4>1. i \in 1..n
          BY <2>2, <3>1, <3>2
        <4>2. i \in 1..Len(Stream(p)) /\ Stream(p)'[i] = Stream(p)[i]
          BY <1>1, <2>2, <3>2, <4>1, RestagedStreams
        <4> QED
          BY <2>2, <4>2 DEF Cut
      <3>3. CASE ~(i <= n)
        <4>0. i > n /\ ~(i <= left[p])
          <5> HIDE DEF n
          <5> QED
            BY <3>1, <3>3
        <4>1. PICK k \in 1..Len(t) : Stream(p)'[i] = t[k]
          BY <1>1, <2>2, <3>3, <4>0, RestagedStreams
        <4>2. \/ h \in Reachable \/ h \in New
              \/ \E j \in 1..Len(batch[p]) : h \in {batch[p][j].a, batch[p][j].b}
          BY <2>2, <4>1 DEF NamesOnly
        <4>3. CASE h \in Reachable \/ h \in New
          BY <1>3, <2>2, <4>0, <4>3
        <4>4. CASE \E j \in 1..Len(batch[p]) : h \in {batch[p][j].a, batch[p][j].b}
          <5>1. PICK j \in 1..Len(batch[p]) : h \in {batch[p][j].a, batch[p][j].b}
            BY <4>4
          <5> DEFINE e == n + j
          <5>2. e \in 1..Len(Stream(p)) /\ ~(e <= n) /\ ~(e <= left[p]) /\ e - n = j
            <6> HIDE DEF n
            <6> QED
              BY <3>1, <5>1
          <5> HIDE DEF e
          <5>3. Stream(p)[e] = batch[p][j]
            BY <1>1, <5>2, StreamType
          <5>4. h \in K => h \in AtCut(L)
            BY <5>1, <5>2, <5>3 DEF Cut
          <5> QED
            BY <2>2, <4>0, <5>4
        <4> QED
          BY <4>2, <4>3, <4>4
      <3> QED
        BY <3>2, <3>3
    <2> QED
      BY <2>1, <2>2
  <1>7. \A r \in Producers : \A x \in Accounts : \A i \in 0..left[r] :
           M[r][x][i] > 0 => x[2] \in K /\ x[3] \in K
    BY DEF Cut, SameUpToCut
  <1> QED
    BY <1>2, <1>4, <1>5, <1>6, <1>7 DEF Cut

\* The messages of a staged batch, as part of the stream.
LEMMA BatchSound ==
  ASSUME StateType, MessagesSound, NEW p \in Producers, NEW i \in 1..Len(batch[p])
  PROVE  batch[p][i] \in Messages /\ Sound(p, batch[p][i])
  <1> DEFINE n == Len(queue[p])
             e == n + i
  <1>1. n \in Nat /\ Len(batch[p]) \in Nat /\ Len(Stream(p)) = n + Len(batch[p])
    BY StreamType
  <1>2. e \in 1..Len(Stream(p)) /\ ~(e <= n) /\ e - n = i
    <2> HIDE DEF n
    <2> QED
      BY <1>1
  <1> HIDE DEF e
  <1>3. Stream(p)[e] = batch[p][i] /\ Stream(p)[e] \in Messages
    BY <1>2, StreamType
  <1> QED
    BY <1>2, <1>3 DEF MessagesSound

\* What an operation of p with message m does to the program, beside staging it.
Operates(p, m, New) ==
    /\ m.count = 1 /\ m.op # "RootCheck" /\ Sound(p, m)'
    /\ PoolGrows /\ PoolType(pool', Producers) /\ PoolSound' /\ RefsPresent'
    /\ bag' \in [Producers -> [Handles -> Nat]] /\ fields' \in [Pairs -> 0..MaxFields]
    /\ \A x \in Accounts : Book(p, x)' = Book(p, x) + Effect(m, x) /\ Book(p, x)' \in Nat
    /\ OthersKeep(p) /\ ReachesOnly(New)
    /\ \A h \in {m.a, m.b} : h \in Reachable \/ h \in New

\* submit: one operation of the program and its message.
LEMMA SubmitStep ==
  ASSUME IInv, NEW p \in Producers, NEW m \in Messages, phase[p] = "run", Submit(p, m),
         NEW New, Operates(p, m, New)
  PROVE  IInv'
  <1>0. PoolGrows /\ OthersKeep(p) /\ ReachesOnly(New)
    BY DEF Operates
  <1>1. /\ StateType /\ BatchesKept /\ MessagesSound /\ TableSound /\ SuspectsQueued
        /\ RoundSound /\ Safe
    BY DEF IInv, Safe
  <1>2. PICK s : s = Append(batch[p], m)
    OBVIOUS
  <1>3. PICK t : t = IF BatchFull(s) THEN Outgoing(s) ELSE s
    OBVIOUS
  <1>4. /\ batch' = [batch EXCEPT ![p] = t]
        /\ phase' = [phase EXCEPT ![p] = IF BatchFull(s) THEN "flush" ELSE "run"]
        /\ hot' = IF wpc = "tails" THEN hot \cup {p} ELSE hot
        /\ UNCHANGED <<eng, queue, left, wpc, wi, stable>>
    BY <1>2, <1>3 DEF Submit
  <1>5. /\ batch[p] \in Seq(Messages) /\ queue[p] \in Seq(Messages)
        /\ Staged(batch[p]) /\ Len(batch[p]) < BatchLimit /\ Len(batch[p]) \in Nat
        /\ BatchLimit \in Nat \ {0}
    BY <1>1, RuntimeAssumption, StreamType DEF BatchesKept
  <1>6. /\ s \in Seq(Messages) /\ Len(s) = Len(batch[p]) + 1 /\ s[Len(batch[p]) + 1] = m
        /\ \A i \in 1..Len(batch[p]) : s[i] = batch[p][i]
    BY <1>2, <1>5, AppendProperties
  <1>7. \A i \in 1..Len(s) : i \in 1..Len(batch[p]) \/ i = Len(batch[p]) + 1
    BY <1>5, <1>6
  <1>8. Staged(s) /\ s # <<>> /\ Len(s) <= BatchLimit /\ Len(s) \in Nat
    <2>1. (~IsEdgeOp(m) => m.a = m.b) /\ m.count = 1 /\ m.op # "RootCheck"
      BY DEF Sound, Operates
    <2>2. s # <<>>
      BY <1>5, <1>6, EmptySeq
    <2>3. Staged(s)
      BY <1>5, <1>6, <1>7, <2>1 DEF Staged
    <2> QED
      BY <1>5, <1>6, <2>2, <2>3
  <1>9. /\ t \in Seq(Messages) /\ t # <<>> /\ Len(t) \in Nat /\ Len(t) <= Len(s)
        /\ \A k \in 1..Len(t) : \E i \in 1..Len(s) :
             t[k].a = s[i].a /\ t[k].b = s[i].b /\ (IsEdgeOp(t[k]) <=> IsEdgeOp(s[i]))
    <2>1. CASE BatchFull(s)
      BY <1>3, <1>8, <2>1, OutgoingType, LenProperties
    <2>2. CASE ~BatchFull(s)
      BY <1>3, <1>6, <1>8, <2>2
    <2> QED
      BY <2>1, <2>2
  <1>10. \A i \in 1..Len(s) : Sound(p, s[i])'
    <2> SUFFICES ASSUME NEW i \in 1..Len(s) PROVE Sound(p, s[i])'
      OBVIOUS
    <2>1. CASE i = Len(batch[p]) + 1
      BY <1>6, <2>1 DEF Sound, Operates
    <2>2. CASE i \in 1..Len(batch[p])
      <3>1. s[i] \in Messages /\ Sound(p, s[i])
        BY <1>1, <1>6, <2>2, BatchSound
      <3>2. PICK v \in Messages : v = s[i]
        BY <3>1
      <3>3. Sound(p, v)'
        BY <1>0, <3>1, <3>2, SoundStays
      <3> QED
        BY <3>2, <3>3 DEF Sound
    <2> QED
      BY <1>7, <2>1, <2>2
  <1>11. \A k \in 1..Len(t) : Sound(p, t[k])'
    <2> SUFFICES ASSUME NEW k \in 1..Len(t) PROVE Sound(p, t[k])'
      OBVIOUS
    <2>1. PICK i \in 1..Len(s) : /\ t[k].a = s[i].a /\ t[k].b = s[i].b
                                 /\ IsEdgeOp(t[k]) <=> IsEdgeOp(s[i])
      BY <1>9
    <2>2. Sound(p, s[i])'
      BY <1>10
    <2> QED
      BY <2>1, <2>2 DEF Sound
  <1>12. Safe'
    <2>1. StateType'
      <3>1. batch' \in [Producers -> Seq(Messages)] /\ phase' \in [Producers -> {"run", "flush"}]
        BY <1>1, <1>4, <1>9 DEF StateType
      <3>2. hot' \in SUBSET Producers
        BY <1>1, <1>4 DEF StateType
      <3> QED
        BY <1>1, <1>4, <3>1, <3>2 DEF StateType, Operates
    <2>2. BatchesKept'
      <3> SUFFICES ASSUME NEW r \in Producers
                   PROVE  /\ phase'[r] = "run" => Staged(batch'[r]) /\ Len(batch'[r]) < BatchLimit
                          /\ phase'[r] = "flush" => batch'[r] # <<>>
                          /\ Len(batch'[r]) <= BatchLimit
        BY DEF BatchesKept
      <3>1. CASE r # p
        <4>1. batch'[r] = batch[r] /\ phase'[r] = phase[r]
          BY <1>1, <1>4, <3>1 DEF StateType
        <4> QED
          BY <1>1, <4>1 DEF BatchesKept
      <3>2. CASE r = p
        <4>1. batch'[p] = t /\ phase'[p] = IF BatchFull(s) THEN "flush" ELSE "run"
          BY <1>1, <1>4 DEF StateType
        <4>2. CASE BatchFull(s)
          BY <1>5, <1>8, <1>9, <3>2, <4>1, <4>2
        <4>3. CASE ~BatchFull(s)
          BY <1>3, <1>5, <1>8, <3>2, <4>1, <4>3 DEF BatchFull
        <4> QED
          BY <4>2, <4>3
      <3> QED
        BY <3>1, <3>2
    <2>3. MessagesSound'
      BY <1>0, <1>1, <1>4, <1>9, <1>11, RestagedSound
    <2>4. TableSound'
      <3>1. RecordsLive(eng, pool')
        <4>1. \A q \in Pairs : q[1] \in Handles /\ q[2] \in Handles
          BY DEF Pairs
        <4> QED
          BY <1>0, <1>1, <4>1, SoundStays DEF TableSound, RecordsLive
      <3>2. \A c \in eng.zero \cup eng.marks : pool'.live[c]
        BY <1>0, <1>1 DEF TableSound, StateType, EngineType, Engines, PoolGrows
      <3> QED
        BY <1>1, <1>4, <3>1, <3>2 DEF TableSound
    <2>5. SuspectsQueued'
      BY <1>1, <1>4 DEF SuspectsQueued
    <2>6. RoundSound'
      <3>1. \A r \in Producers \ {p} : batch'[r] = batch[r]
        BY <1>1, <1>4 DEF StateType
      <3>2. wpc = "tails" => p \in hot' /\ hot \subseteq hot'
        BY <1>4
      <3> QED
        BY <1>1, <1>4, <3>1, <3>2 DEF RoundSound
    <2> QED
      BY <2>1, <2>2, <2>3, <2>4, <2>5, <2>6 DEF Safe, Operates
  <1>13. PICK L : Ledger(L) /\ Table(L) /\ (Sweeping => \E K : Cut(L, K))
    BY DEF IInv
  <1>14. \E G : Continues(p, t, L, G)
    <2> DEFINE q == queue[p]
               b == batch[p]
               F == L[p]
    <2>1. Keeps(F, q \o b) /\ \A x \in Accounts : F[x][Len(q \o b)] = Book(p, x)
      BY <1>13 DEF Ledger, Stream
    <2>2. \A x \in Accounts : F[x][Len(q \o b)] + Effect(m, x) \in Nat
      BY <2>1 DEF Operates
    <2> HIDE DEF q, b, F
    <2>3. q \in Seq(Messages) /\ b \in Seq(Messages) /\ s = Append(b, m)
      BY <1>2, <1>5 DEF q, b
    <2>4. PICK G : /\ Keeps(G, q \o s)
                   /\ \A x \in Accounts :
                        /\ G[x][Len(q \o s)] = F[x][Len(q \o b)] + Effect(m, x)
                        /\ \A i \in 0..Len(q) : G[x][i] = F[x][i]
      <3>1. \E G : /\ Keeps(G, q \o Append(b, m))
                   /\ \A x \in Accounts :
                        /\ G[x][Len(q \o Append(b, m))] = F[x][Len(q \o b)] + Effect(m, x)
                        /\ \A i \in 0..Len(q) : G[x][i] = F[x][i]
        BY <2>1, <2>2, <2>3, StageLedger
      <3> QED
        BY <2>3, <3>1
    <2>5. PICK H : /\ Keeps(H, q \o t)
                   /\ \A x \in Accounts :
                        /\ H[x][Len(q \o t)] = G[x][Len(q \o s)]
                        /\ \A i \in 0..Len(q) : H[x][i] = G[x][i]
      <3>1. CASE BatchFull(s)
        <4>1. \E H : /\ Keeps(H, q \o Outgoing(s))
                     /\ \A x \in Accounts :
                          /\ H[x][Len(q \o Outgoing(s))] = G[x][Len(q \o s)]
                          /\ \A i \in 0..Len(q) : H[x][i] = G[x][i]
          <5>1. Staged(s) /\ Keeps(G, q \o s) /\ q \in Seq(Messages)
            BY <1>8, <2>3, <2>4
          <5> QED
            BY <5>1, OutgoingLedger
        <4>2. t = Outgoing(s)
          BY <1>3, <3>1
        <4> QED
          BY <4>1, <4>2
      <3>2. CASE ~BatchFull(s)
        BY <1>3, <2>4, <3>2
      <3> QED
        BY <3>1, <3>2
    <2>6. \A x \in Accounts : /\ H[x][Len(q \o t)] = Book(p, x)'
                              /\ \A i \in 0..Len(q) : H[x][i] = F[x][i]
      BY <2>1, <2>4, <2>5 DEF Operates
    <2> QED
      BY <2>5, <2>6 DEF q, F, Continues
  <1>15. PICK M : Ledger(M)' /\ Table(M)' /\ SameUpToCut(L, M) /\ AtCut(M)' = AtCut(L)
    <2>1. Restages(p, t)
      BY <1>4 DEF Restages
    <2> QED
      BY <1>0, <1>1, <1>9, <1>13, <1>14, <2>1, RestagedLedger
  <1>16. Sweeping' => \E K : Cut(M, K)'
    <2>1. Sweeping' => Sweeping
      BY <1>4 DEF Sweeping
    <2>2. NamesOnly(p, t, New)
      <3> SUFFICES ASSUME NEW k \in 1..Len(t), NEW h \in {t[k].a, t[k].b}
                   PROVE  \/ h \in Reachable \/ h \in New
                          \/ \E j \in 1..Len(batch[p]) : h \in {batch[p][j].a, batch[p][j].b}
        BY DEF NamesOnly
      <3>1. PICK i \in 1..Len(s) : h \in {s[i].a, s[i].b}
        BY <1>9
      <3>2. CASE i = Len(batch[p]) + 1
        BY <1>6, <3>1, <3>2 DEF Operates
      <3>3. CASE i \in 1..Len(batch[p])
        BY <1>6, <3>1, <3>3
      <3> QED
        BY <1>7, <3>2, <3>3
    <2>3. ASSUME NEW K, Cut(L, K) PROVE Cut(M, K)'
      <3>1. Restages(p, t)
        BY <1>4 DEF Restages
      <3> QED
        BY <1>0, <1>1, <1>9, <1>15, <2>2, <2>3, <3>1, RestagedCut
    <2> QED
      BY <1>13, <2>1, <2>3
  <1> QED
    BY <1>12, <1>15, <1>16 DEF IInv

\* flush, willPark, close: the staged batch is folded and waits to be pushed.
LEMMA FlushStep ==
  ASSUME IInv, NEW p \in Producers, Flush(p)
  PROVE  IInv'
  <1>1. /\ StateType /\ BatchesKept /\ MessagesSound /\ TableSound /\ SuspectsQueued
        /\ RoundSound /\ Safe
    BY DEF IInv, Safe
  <1>2. PICK s : s = batch[p]
    OBVIOUS
  <1>3. PICK t : t = Outgoing(s)
    OBVIOUS
  <1>4. /\ batch' = [batch EXCEPT ![p] = t] /\ phase' = [phase EXCEPT ![p] = "flush"]
        /\ UNCHANGED <<eng, pool, bag, fields, queue, wpc, wi, left, hot, stable>>
        /\ phase[p] = "run" /\ s # <<>>
    BY <1>2, <1>3 DEF Flush, roundVars
  <1>5. Staged(s) /\ Len(s) <= BatchLimit /\ Len(s) \in Nat /\ BatchLimit \in Nat
    BY <1>1, <1>2, <1>4, RuntimeAssumption, StreamType DEF BatchesKept
  <1>6. /\ t \in Seq(Messages) /\ t # <<>> /\ Len(t) \in Nat /\ Len(t) <= Len(s)
        /\ \A k \in 1..Len(t) : \E i \in 1..Len(s) :
             t[k].a = s[i].a /\ t[k].b = s[i].b /\ (IsEdgeOp(t[k]) <=> IsEdgeOp(s[i]))
    <2>1. /\ t \in Seq(Messages) /\ t # <<>> /\ Len(t) <= Len(s)
          /\ \A k \in 1..Len(t) : \E i \in 1..Len(s) :
               t[k].a = s[i].a /\ t[k].b = s[i].b /\ (IsEdgeOp(t[k]) <=> IsEdgeOp(s[i]))
      <3>1. s # <<>> /\ Staged(s)
        BY <1>4, <1>5
      <3> QED
        BY <1>3, <3>1, OutgoingType
    <2>2. Len(t) \in Nat
      BY <2>1, LenProperties
    <2> QED
      BY <2>1, <2>2
  <1>7. PoolGrows /\ OthersKeep(p) /\ ReachesOnly({}) /\ Restages(p, t)
        /\ \A x : Book(p, x)' = Book(p, x)
    <2>1. Reachable' = Reachable
      BY <1>4 DEF Reachable, Edges, Held
    <2> QED
      BY <1>4, <2>1 DEF PoolGrows, OthersKeep, ReachesOnly, Restages, Book
  <1>8. \A k \in 1..Len(t) : Sound(p, t[k])'
    <2> SUFFICES ASSUME NEW k \in 1..Len(t) PROVE Sound(p, t[k])'
      OBVIOUS
    <2>1. PICK i \in 1..Len(s) : /\ t[k].a = s[i].a /\ t[k].b = s[i].b
                                 /\ IsEdgeOp(t[k]) <=> IsEdgeOp(s[i])
      BY <1>6
    <2>2. Sound(p, s[i])
      BY <1>1, <1>2, BatchSound
    <2> QED
      BY <1>4, <2>1, <2>2 DEF Sound
  <1>9. Safe'
    <2>1. StateType'
      <3>1. batch' \in [Producers -> Seq(Messages)] /\ phase' \in [Producers -> {"run", "flush"}]
        BY <1>1, <1>4, <1>6 DEF StateType
      <3> QED
        BY <1>1, <1>4, <3>1 DEF StateType
    <2>2. BatchesKept'
      <3> SUFFICES ASSUME NEW r \in Producers
                   PROVE  /\ phase'[r] = "run" => Staged(batch'[r]) /\ Len(batch'[r]) < BatchLimit
                          /\ phase'[r] = "flush" => batch'[r] # <<>>
                          /\ Len(batch'[r]) <= BatchLimit
        BY DEF BatchesKept
      <3>1. CASE r # p
        <4>1. batch'[r] = batch[r] /\ phase'[r] = phase[r]
          BY <1>1, <1>4, <3>1 DEF StateType
        <4> QED
          BY <1>1, <4>1 DEF BatchesKept
      <3>2. CASE r = p
        <4>1. batch'[p] = t /\ phase'[p] = "flush"
          BY <1>1, <1>4 DEF StateType
        <4> QED
          BY <1>5, <1>6, <3>2, <4>1
      <3> QED
        BY <3>1, <3>2
    <2>3. MessagesSound'
      BY <1>1, <1>4, <1>6, <1>7, <1>8, RestagedSound
    <2>4. TableSound' /\ SuspectsQueued' /\ RefsPresent' /\ PoolSound'
      BY <1>1, <1>4 DEF Safe, TableSound, SuspectsQueued, RefsPresent, PoolSound
    <2>5. RoundSound'
      <3>1. \A r \in Producers \ {p} : batch'[r] = batch[r]
        BY <1>1, <1>4 DEF StateType
      <3>2. wpc = "tails" => p \in hot
        BY <1>1, <1>2, <1>4 DEF RoundSound
      <3> QED
        BY <1>1, <1>4, <3>1, <3>2 DEF RoundSound
    <2> QED
      BY <2>1, <2>2, <2>3, <2>4, <2>5 DEF Safe
  <1>10. PICK L : Ledger(L) /\ Table(L) /\ (Sweeping => \E K : Cut(L, K))
    BY DEF IInv
  <1>11. \E G : Continues(p, t, L, G)
    <2> DEFINE q == queue[p]
               F == L[p]
    <2>1. Keeps(F, q \o s) /\ \A x \in Accounts : F[x][Len(q \o s)] = Book(p, x)
      BY <1>2, <1>10 DEF Ledger, Stream
    <2>2. q \in Seq(Messages)
      BY <1>1, StreamType
    <2> HIDE DEF q, F
    <2>3. PICK H : /\ Keeps(H, q \o t)
                   /\ \A x \in Accounts :
                        /\ H[x][Len(q \o t)] = F[x][Len(q \o s)]
                        /\ \A i \in 0..Len(q) : H[x][i] = F[x][i]
      <3>1. \E H : /\ Keeps(H, q \o Outgoing(s))
                   /\ \A x \in Accounts :
                        /\ H[x][Len(q \o Outgoing(s))] = F[x][Len(q \o s)]
                        /\ \A i \in 0..Len(q) : H[x][i] = F[x][i]
        BY <1>5, <2>1, <2>2, OutgoingLedger
      <3> QED
        BY <1>3, <3>1
    <2>4. \A x \in Accounts : H[x][Len(q \o t)] = Book(p, x)'
      BY <1>7, <2>1, <2>3
    <2> QED
      BY <2>3, <2>4 DEF q, F, Continues
  <1>12. PICK M : Ledger(M)' /\ Table(M)' /\ SameUpToCut(L, M) /\ AtCut(M)' = AtCut(L)
    BY <1>1, <1>6, <1>7, <1>10, <1>11, RestagedLedger
  <1>13. Sweeping' => \E K : Cut(M, K)'
    <2>1. Sweeping' => Sweeping
      BY <1>4 DEF Sweeping
    <2>2. NamesOnly(p, t, {})
      BY <1>2, <1>6 DEF NamesOnly
    <2>3. ASSUME NEW K, Cut(L, K) PROVE Cut(M, K)'
      BY <1>1, <1>6, <1>7, <1>12, <2>2, <2>3, RestagedCut
    <2> QED
      BY <1>10, <2>1, <2>3
  <1> QED
    BY <1>9, <1>12, <1>13 DEF IInv

\* Moving the first staged message to the end of the queue leaves the stream as it is.
LEMMA PushConcat ==
  ASSUME NEW q \in Seq(Messages), NEW s \in Seq(Messages), s # <<>>
  PROVE  Append(q, Head(s)) \o Tail(s) = q \o s
  <1> DEFINE m == Head(s)
             t == Tail(s)
             a == Append(q, m)
  <1>1. m \in Messages /\ t \in Seq(Messages) /\ Len(t) = Len(s) - 1
        /\ \A i \in 1..Len(t) : t[i] = s[i + 1]
    BY HeadTailProperties
  <1>2. m = s[1]
    OBVIOUS
  <1>3. Len(q) \in Nat /\ Len(s) \in Nat
    BY LenProperties
  <1> HIDE DEF m, t
  <1>4. a \in Seq(Messages) /\ Len(a) = Len(q) + 1 /\ a[Len(q) + 1] = m
        /\ \A i \in 1..Len(q) : a[i] = q[i]
    BY <1>1, AppendProperties
  <1> HIDE DEF a
  <1> DEFINE u == a \o t
             v == q \o s
             n == Len(q)
             l == Len(s)
  <1>5. /\ u \in Seq(Messages) /\ Len(u) = Len(a) + Len(t)
        /\ \A i \in 1..Len(a) + Len(t) : u[i] = IF i <= Len(a) THEN a[i] ELSE t[i - Len(a)]
    BY <1>1, <1>4, ConcatProperties
  <1>6. /\ v \in Seq(Messages) /\ Len(v) = n + l
        /\ \A i \in 1..n + l : v[i] = IF i <= n THEN q[i] ELSE s[i - n]
    BY ConcatProperties
  <1>7. n \in Nat /\ l \in Nat /\ Len(a) = n + 1 /\ Len(t) = l - 1 /\ Len(a) + Len(t) = n + l
    <2> HIDE DEF n, l
    <2>1. n \in Nat /\ l \in Nat /\ Len(a) = n + 1 /\ Len(t) = l - 1
      BY <1>1, <1>3, <1>4 DEF n, l
    <2> QED
      BY <2>1
  <1> HIDE DEF u, v, n, l
  <1>8. ASSUME NEW i \in 1..n + l PROVE u[i] = v[i]
    <2>1. CASE i <= n
      <3>1. i \in 1..n /\ i <= n + 1
        BY <1>7, <2>1
      <3> QED
        BY <1>4, <1>5, <1>6, <1>7, <2>1, <3>1 DEF n
    <2>2. CASE i = n + 1
      <3>1. ~(i <= n) /\ i - n = 1 /\ i <= n + 1
        BY <1>7, <2>2
      <3> QED
        BY <1>2, <1>4, <1>5, <1>6, <1>7, <2>2, <3>1 DEF n
    <2>3. CASE ~(i <= n + 1)
      <3>1. /\ ~(i <= n) /\ i - (n + 1) \in 1..l - 1
            /\ (i - (n + 1)) + 1 = i - n
        BY <1>7, <2>3
      <3> QED
        BY <1>1, <1>5, <1>6, <1>7, <2>3, <3>1
    <2> QED
      BY <1>7, <2>1, <2>2, <2>3
  <1> QED
    BY <1>5, <1>6, <1>7, <1>8, SeqEqual DEF u, v, a, t, m

\* flushSlot: one message enters the ring.
LEMMA PushStep ==
  ASSUME IInv, NEW p \in Producers, Push(p)
  PROVE  IInv'
  <1>1. /\ StateType /\ BatchesKept /\ MessagesSound /\ TableSound /\ SuspectsQueued
        /\ RoundSound /\ Safe
    BY DEF IInv, Safe
  <1> DEFINE q == queue[p]
             s == batch[p]
  <1>2. /\ queue' = [queue EXCEPT ![p] = Append(q, Head(s))]
        /\ batch' = [batch EXCEPT ![p] = Tail(s)]
        /\ phase' = [phase EXCEPT ![p] = IF Len(s) = 1 THEN "run" ELSE "flush"]
        /\ UNCHANGED <<eng, pool, bag, fields, wpc, wi, left, hot, stable>>
        /\ phase[p] = "flush"
    BY <1>1 DEF Push, roundVars, StateType
  <1>3. /\ q \in Seq(Messages) /\ s \in Seq(Messages) /\ s # <<>> /\ Len(s) <= BatchLimit
        /\ Len(s) \in Nat /\ Len(q) \in Nat /\ BatchLimit \in Nat \ {0}
    BY <1>1, <1>2, RuntimeAssumption, StreamType DEF BatchesKept
  <1>4. /\ queue'[p] = Append(q, Head(s)) /\ batch'[p] = Tail(s)
        /\ phase'[p] = IF Len(s) = 1 THEN "run" ELSE "flush"
        /\ \A r \in Producers \ {p} :
             queue'[r] = queue[r] /\ batch'[r] = batch[r] /\ phase'[r] = phase[r]
    BY <1>1, <1>2 DEF StateType
  <1> HIDE DEF q, s
  <1>5. /\ Head(s) \in Messages /\ Tail(s) \in Seq(Messages) /\ Len(Tail(s)) = Len(s) - 1
        /\ Append(q, Head(s)) \in Seq(Messages) /\ Len(Append(q, Head(s))) = Len(q) + 1
    BY <1>3, HeadTailProperties, AppendProperties
  <1>6. ASSUME NEW r \in Producers PROVE Stream(r)' = Stream(r)
    <2>1. CASE r = p
      <3>1. Append(q, Head(s)) \o Tail(s) = q \o s
        BY <1>3, PushConcat
      <3> QED
        BY <1>4, <2>1, <3>1 DEF Stream, q, s
    <2>2. CASE r # p
      BY <1>4, <2>2 DEF Stream
    <2> QED
      BY <2>1, <2>2
  <1>7. Safe'
    <2>1. StateType'
      <3>1. /\ batch' \in [Producers -> Seq(Messages)] /\ queue' \in [Producers -> Seq(Messages)]
            /\ phase' \in [Producers -> {"run", "flush"}]
        BY <1>1, <1>2, <1>5 DEF StateType
      <3> QED
        BY <1>1, <1>2, <3>1 DEF StateType
    <2>2. BatchesKept'
      <3> SUFFICES ASSUME NEW r \in Producers
                   PROVE  /\ phase'[r] = "run" => Staged(batch'[r]) /\ Len(batch'[r]) < BatchLimit
                          /\ phase'[r] = "flush" => batch'[r] # <<>>
                          /\ Len(batch'[r]) <= BatchLimit
        BY DEF BatchesKept
      <3>1. CASE r # p
        BY <1>1, <1>4, <3>1 DEF BatchesKept
      <3>2. CASE r = p /\ Len(s) = 1
        <4>1. Len(Tail(s)) = 0
          BY <1>5, <3>2
        <4>2. Staged(Tail(s)) /\ Len(Tail(s)) < BatchLimit /\ Len(Tail(s)) <= BatchLimit
          <5> DEFINE u == Tail(s)
          <5>1. u \in Seq(Messages) /\ Len(u) = 0
            BY <1>5, <4>1
          <5> HIDE DEF u
          <5>2. ~\E i \in 1..Len(u) : TRUE
            BY <5>1
          <5>3. Staged(u)
            BY <5>1, <5>2 DEF Staged
          <5>4. Len(u) < BatchLimit /\ Len(u) <= BatchLimit
            BY <1>3, <5>1
          <5> QED
            BY <5>3, <5>4 DEF u
        <4> QED
          BY <1>4, <3>2, <4>2
      <3>3. CASE r = p /\ Len(s) # 1
        <4>1. Len(Tail(s)) # 0 /\ Len(Tail(s)) <= BatchLimit
          BY <1>3, <1>5, <3>3
        <4>2. Tail(s) # <<>>
          BY <1>5, <4>1
        <4> QED
          BY <1>4, <3>3, <4>1, <4>2
      <3> QED
        BY <3>1, <3>2, <3>3
    <2>3. MessagesSound'
      BY <1>1, <1>2, <1>6 DEF MessagesSound, Sound
    <2>4. TableSound' /\ SuspectsQueued' /\ RefsPresent' /\ PoolSound'
      BY <1>1, <1>2 DEF Safe, TableSound, SuspectsQueued, RefsPresent, PoolSound
    <2>5. RoundSound'
      <3>1. \A r \in Producers : left[r] <= Len(queue'[r])
        <4> SUFFICES ASSUME NEW r \in Producers PROVE left[r] <= Len(queue'[r])
          OBVIOUS
        <4>1. left[r] <= Len(queue[r]) /\ left[r] \in Nat
          BY <1>1 DEF RoundSound, StateType
        <4>2. CASE r = p
          <5>1. left[r] <= Len(q) /\ Len(queue'[r]) = Len(q) + 1
            BY <1>4, <1>5, <4>1, <4>2 DEF q
          <5> QED
            BY <1>3, <4>1, <5>1
        <4>3. CASE r # p
          BY <1>4, <4>1, <4>3
        <4> QED
          BY <4>2, <4>3
      <3>2. wpc = "tails" => p \in hot
        BY <1>1, <1>3 DEF RoundSound, s
      <3> QED
        BY <1>1, <1>2, <1>4, <3>1, <3>2 DEF RoundSound
    <2> QED
      BY <2>1, <2>2, <2>3, <2>4, <2>5 DEF Safe
  <1>8. PICK L : Ledger(L) /\ Table(L) /\ (Sweeping => \E K : Cut(L, K))
    BY DEF IInv
  <1>9. Ledger(L)' /\ Table(L)'
    <2>1. \A r, x : Book(r, x)' = Book(r, x)
      BY <1>2 DEF Book
    <2>2. Ledger(L)'
      BY <1>6, <1>8, <2>1 DEF Ledger
    <2> QED
      BY <1>2, <1>8, <2>2 DEF Table
  <1>10. Sweeping' => \E K : Cut(L, K)'
    <2>1. Sweeping' => Sweeping
      BY <1>2 DEF Sweeping
    <2>2. ASSUME NEW K, Cut(L, K) PROVE Cut(L, K)'
      <3>1. AtCut(L)' = AtCut(L)
        BY <1>2 DEF AtCut, CutRoots, CutEdges
      <3>2. Reachable' = Reachable
        BY <1>2 DEF Reachable, Edges, Held
      <3> QED
        BY <1>2, <1>6, <2>2, <3>1, <3>2 DEF Cut
    <2> QED
      BY <1>8, <2>1, <2>2
  <1> QED
    BY <1>7, <1>9, <1>10 DEF IInv

-----------------------------------------------------------------------------
(* The program's operations *)

\* Roots, and the targets of fields of reachable objects, are reachable.
LEMMA ReachableIs ==
  /\ Reachable \subseteq Handles
  /\ \A p \in Producers : Held(p) \subseteq Reachable
  /\ \A q \in Pairs : fields[q] > 0 /\ q[1] \in Reachable => q[2] \in Reachable
  <1> DEFINE S == UNION {Held(p) : p \in Producers}
  <1>1. S \subseteq Handles
    BY HeldHandles
  <1>2. Reachable = ReachIn(Handles, Edges, S)
    BY DEF Reachable
  <1>3. \A p \in Producers : Held(p) \subseteq S
    OBVIOUS
  <1> HIDE DEF S
  <1>4. S \subseteq Reachable /\ Reachable \subseteq Handles /\ ClosedIn(Handles, Edges, Reachable)
    BY <1>1, <1>2, ReachClosed
  <1>5. ASSUME NEW q \in Pairs, fields[q] > 0, q[1] \in Reachable PROVE q[2] \in Reachable
    <2>1. q = <<q[1], q[2]>> /\ q[2] \in Handles /\ q \in Edges
      BY <1>5 DEF Pairs, Edges
    <2>2. \A y \in Handles : <<q[1], y>> \in Edges => y \in Reachable
      BY <1>4, <1>5 DEF ClosedIn
    <2> QED
      BY <2>1, <2>2
  <1> QED
    BY <1>3, <1>4, <1>5

\* A set that holds what is reachable now, and what the next step adds, bounds what
\* is reachable after it.
LEMMA ReachableBound ==
  ASSUME NEW X \in SUBSET Handles,
         \A p \in Producers : \A h \in Handles : bag'[p][h] > 0 => h \in X,
         \A q \in Pairs : fields'[q] > 0 /\ q[1] \in X => q[2] \in X
  PROVE  Reachable' \subseteq X
  <1> DEFINE S == UNION {Held(p)' : p \in Producers}
             E == Edges'
  <1>1. S \subseteq X
    BY DEF Held
  <1>2. ClosedIn(Handles, E, X)
    BY DEF ClosedIn, Edges, Pairs
  <1>3. Reachable' = ReachIn(Handles, E, S)
    BY DEF Reachable
  <1> HIDE DEF S, E
  <1> QED
    BY <1>1, <1>2, <1>3, ReachLeast

\* An operation on a root of p, on a reachable or a new object.
LEMMA RootOperates ==
  ASSUME Safe, NEW p \in Producers, NEW m \in Messages, m.a = m.b, m.count = 1,
         m.op \in {"RootAdd", "RootRemove"},
         fields' = fields, bag' = [bag EXCEPT ![p][m.b] = @ + Change(m)],
         bag[p][m.b] + Change(m) \in Nat,
         PoolGrows, PoolType(pool', Producers), PoolSound',
         NEW New \in SUBSET Handles, \A h \in New : ~Valid(pool, h),
         m.b \in Reachable \/ m.b \in New, Valid(pool', m.b)
  PROVE  Operates(p, m, New)
  <1> DEFINE k == m.b
  <1>1. StateType /\ RefsPresent /\ PoolSound
    BY DEF Safe
  <1>2. k \in Handles /\ ~IsEdgeOp(m) /\ m.op # "RootCheck"
    BY DEF Messages, IsEdgeOp
  <1>3. bag \in [Producers -> [Handles -> Nat]] /\ fields \in [Pairs -> 0..MaxFields]
    BY <1>1 DEF StateType
  <1>4. /\ bag' \in [Producers -> [Handles -> Nat]]
        /\ bag'[p][k] = bag[p][k] + Change(m)
        /\ \A r \in Producers : \A h \in Handles : (r # p \/ h # k) => bag'[r][h] = bag[r][h]
    <2> HIDE DEF k
    <2>1. bag' = [bag EXCEPT ![p][k] = @ + Change(m)] /\ bag[p][k] + Change(m) \in Nat
      BY DEF k
    <2>2. bag'[p] = [bag[p] EXCEPT ![k] = @ + Change(m)] /\ bag[p] \in [Handles -> Nat]
          /\ \A r \in Producers : r # p => bag'[r] = bag[r]
      BY <1>3, <2>1
    <2>3. bag'[p] \in [Handles -> Nat] /\ bag'[p][k] = bag[p][k] + Change(m)
          /\ \A h \in Handles : h # k => bag'[p][h] = bag[p][h]
      BY <1>2, <2>1, <2>2
    <2>4. bag' \in [Producers -> [Handles -> Nat]]
      BY <1>3, <2>1, <2>2, <2>3
    <2> QED
      BY <2>2, <2>3, <2>4
  <1>5. \A h \in Handles : Valid(pool, h) => Valid(pool', h)
    BY SoundStays
  <1>6. Sound(p, m)'
    BY <1>2 DEF Sound
  <1>7. RefsPresent'
    <2>1. ASSUME NEW r \in Producers, NEW h \in Handles, bag'[r][h] > 0 PROVE Valid(pool', h)
      <3>1. CASE r = p /\ h = k
        BY <3>1
      <3>2. CASE r # p \/ h # k
        BY <1>1, <1>4, <1>5, <2>1, <3>2 DEF RefsPresent
      <3> QED
        BY <3>1, <3>2
    <2>2. ASSUME NEW q \in Pairs, fields[q] > 0 PROVE Valid(pool', q[1]) /\ Valid(pool', q[2])
      BY <1>1, <1>5, <2>2 DEF RefsPresent, Pairs
    <2> QED
      BY <2>1, <2>2 DEF RefsPresent
  <1>8. ASSUME NEW r \in Producers, NEW x \in Accounts, x[1] # "root"
        PROVE  Book(r, x)' = Book(r, x) /\ Book(r, x) \in Nat
    <2> DEFINE q == <<x[2], x[3]>>
               c == Index(x[2])
    <2>1. q \in Pairs /\ q[1] = x[2] /\ c \in Cells
      BY HandlesFinite DEF Pairs, Accounts
    <2>2. fields[q] \in Nat
      BY <1>3, <2>1, RuntimeAssumption
    <2>3. CASE pool.live[c]
      <3>1. pool'.owner[c] = pool.owner[c]
        BY <2>1, <2>3 DEF PoolGrows
      <3> QED
        BY <1>8, <2>2, <3>1 DEF Book
    <2>4. CASE ~pool.live[c]
      <3>1. ~(fields[q] > 0)
        BY <1>1, <2>1, <2>4 DEF RefsPresent, Valid
      <3>2. fields[q] = 0
        BY <2>2, <3>1
      <3> QED
        BY <1>8, <3>2 DEF Book
    <2> QED
      BY <2>3, <2>4
  <1>9. ASSUME NEW r \in Producers, NEW x \in Accounts, x[1] = "root", r # p \/ x[2] # k \/ x[3] # k
        PROVE  Book(r, x)' = Book(r, x) /\ Book(r, x) \in Nat
    <2>1. x[2] \in Handles
      BY DEF Accounts
    <2> QED
      BY <1>3, <1>4, <1>9, <2>1 DEF Book
  <1>10. \A x \in Accounts : Book(p, x)' = Book(p, x) + Effect(m, x) /\ Book(p, x)' \in Nat
    <2> SUFFICES ASSUME NEW x \in Accounts
                 PROVE  Book(p, x)' = Book(p, x) + Effect(m, x) /\ Book(p, x)' \in Nat
      OBVIOUS
    <2>1. x[1] \in {"root", "edge"}
      BY DEF Accounts
    <2>2. CASE x[1] = "root" /\ x[2] = k /\ x[3] = k
      <3>1. Effect(m, x) = Change(m)
        BY <1>2, <2>2 DEF Effect, Touches
      <3>2. Book(p, x) = bag[p][k] /\ Book(p, x)' = bag'[p][k]
        BY <2>2 DEF Book
      <3> QED
        BY <1>4, <3>1, <3>2
    <2>3. CASE ~(x[1] = "root" /\ x[2] = k /\ x[3] = k)
      <3>1. Effect(m, x) = 0
        BY <1>2, <2>1, <2>3 DEF Effect, Touches
      <3>2. Book(p, x)' = Book(p, x) /\ Book(p, x) \in Nat
        BY <1>8, <1>9, <2>3
      <3> QED
        BY <3>1, <3>2
    <2> QED
      BY <2>2, <2>3
  <1>11. OthersKeep(p)
    BY <1>8, <1>9 DEF OthersKeep
  <1>12. ReachesOnly(New)
    <2> DEFINE X == Reachable \cup New
    <2>1. \A r \in Producers : \A h \in Handles : bag'[r][h] > 0 => h \in X
      <3> SUFFICES ASSUME NEW r \in Producers, NEW h \in Handles, bag'[r][h] > 0 PROVE h \in X
        OBVIOUS
      <3>1. CASE r = p /\ h = k
        BY <3>1
      <3>2. CASE r # p \/ h # k
        <4>1. h \in Held(r)
          BY <1>4, <3>2 DEF Held
        <4> QED
          BY <4>1, ReachableIs
      <3> QED
        BY <3>1, <3>2
    <2>2. \A q \in Pairs : fields'[q] > 0 /\ q[1] \in X => q[2] \in X
      BY <1>1, ReachableIs DEF RefsPresent
    <2>3. X \in SUBSET Handles
      BY ReachableIs
    <2>4. PICK Y : Y = X
      OBVIOUS
    <2>5. Reachable' \subseteq Y
      <3> HIDE DEF X
      <3> QED
        BY <2>1, <2>2, <2>3, <2>4, ReachableBound
    <2> QED
      BY <2>4, <2>5 DEF ReachesOnly
  <1> QED
    BY <1>2, <1>3, <1>4, <1>6, <1>7, <1>10, <1>11, <1>12 DEF Operates

\* An operation on a field of one of p's own objects.
LEMMA EdgeOperates ==
  ASSUME Safe, NEW p \in Producers, NEW m \in Messages, m.count = 1,
         m.op \in {"EdgeAdd", "EdgeRemove"}, UNCHANGED <<pool, bag>>,
         fields' = [fields EXCEPT ![<<m.a, m.b>>] = @ + Change(m)],
         fields[<<m.a, m.b>>] + Change(m) \in 0..MaxFields,
         m.a \in Reachable, m.b \in Reachable, pool.owner[Index(m.a)] = p
  PROVE  Operates(p, m, {})
  <1> DEFINE e == <<m.a, m.b>>
  <1>1. StateType /\ RefsPresent /\ PoolSound
    BY DEF Safe
  <1>2. e \in Pairs /\ IsEdgeOp(m) /\ m.op # "RootCheck" /\ e[1] = m.a /\ e[2] = m.b
        /\ m.a \in Handles /\ m.b \in Handles
    BY DEF Messages, IsEdgeOp, Pairs
  <1>3. bag \in [Producers -> [Handles -> Nat]] /\ fields \in [Pairs -> 0..MaxFields]
    BY <1>1 DEF StateType
  <1>4. /\ fields' \in [Pairs -> 0..MaxFields] /\ fields'[e] = fields[e] + Change(m)
        /\ \A q \in Pairs : q # e => fields'[q] = fields[q]
    <2> HIDE DEF e
    <2>1. fields' = [fields EXCEPT ![e] = @ + Change(m)] /\ fields[e] + Change(m) \in 0..MaxFields
      BY DEF e
    <2> QED
      BY <1>2, <1>3, <2>1
  <1>5. Valid(pool, m.a) /\ Valid(pool, m.b)
    BY <1>1, ReachablePresent DEF ReachableIsLive
  <1>6. Sound(p, m)' /\ PoolGrows
    BY <1>2, <1>5 DEF Sound, PoolGrows
  <1>7. RefsPresent'
    BY <1>1, <1>2, <1>4, <1>5 DEF RefsPresent
  <1>8. ASSUME NEW r \in Producers, NEW x \in Accounts, x[1] = "root" \/ r # p \/ <<x[2], x[3]>> # e
        PROVE  Book(r, x)' = Book(r, x) /\ Book(r, x) \in Nat
    <2>1. CASE x[1] = "root"
      BY <1>3, <2>1 DEF Book, Accounts
    <2>2. CASE x[1] # "root" /\ <<x[2], x[3]>> # e
      <3>1. <<x[2], x[3]>> \in Pairs
        BY DEF Accounts, Pairs
      <3>2. fields'[<<x[2], x[3]>>] = fields[<<x[2], x[3]>>] /\ fields[<<x[2], x[3]>>] \in Nat
        BY <1>3, <1>4, <2>2, <3>1, RuntimeAssumption
      <3> QED
        BY <2>2, <3>2 DEF Book
    <2>3. CASE x[1] # "root" /\ <<x[2], x[3]>> = e /\ r # p
      BY <2>3 DEF Book
    <2> QED
      BY <1>8, <2>1, <2>2, <2>3
  <1>9. \A x \in Accounts : Book(p, x)' = Book(p, x) + Effect(m, x) /\ Book(p, x)' \in Nat
    <2> SUFFICES ASSUME NEW x \in Accounts
                 PROVE  Book(p, x)' = Book(p, x) + Effect(m, x) /\ Book(p, x)' \in Nat
      OBVIOUS
    <2>1. x[1] \in {"root", "edge"}
      BY DEF Accounts
    <2>2. CASE x[1] = "edge" /\ <<x[2], x[3]>> = e
      <3>1. Effect(m, x) = Change(m)
        BY <1>2, <2>2 DEF Effect, Touches
      <3>2. Book(p, x) = fields[e] /\ Book(p, x)' = fields'[e]
        BY <2>2 DEF Book
      <3>3. fields'[e] \in Nat
        BY <1>2, <1>4, RuntimeAssumption
      <3> QED
        BY <1>4, <3>1, <3>2, <3>3
    <2>3. CASE x[1] = "root" \/ <<x[2], x[3]>> # e
      <3>1. Effect(m, x) = 0
        BY <1>2, <2>1, <2>3 DEF Effect, Touches
      <3>2. Book(p, x)' = Book(p, x) /\ Book(p, x) \in Nat
        BY <1>8, <2>3
      <3> QED
        BY <3>1, <3>2
    <2> QED
      BY <2>1, <2>2, <2>3
  <1>10. OthersKeep(p)
    BY <1>8 DEF OthersKeep
  <1>11. ReachesOnly({})
    <2>1. PICK Y : Y = Reachable
      OBVIOUS
    <2>2. \A r \in Producers : \A h \in Handles : bag'[r][h] > 0 => h \in Y
      BY <2>1, ReachableIs DEF Held
    <2>3. \A q \in Pairs : fields'[q] > 0 /\ q[1] \in Y => q[2] \in Y
      <3> SUFFICES ASSUME NEW q \in Pairs, fields'[q] > 0, q[1] \in Y PROVE q[2] \in Y
        OBVIOUS
      <3>1. CASE q = e
        BY <1>2, <2>1, <3>1
      <3>2. CASE q # e
        BY <1>4, <2>1, <3>2, ReachableIs
      <3> QED
        BY <3>1, <3>2
    <2>4. Y \in SUBSET Handles
      BY <2>1, ReachableIs
    <2>5. Reachable' \subseteq Y
      BY <2>2, <2>3, <2>4, ReachableBound
    <2> QED
      BY <2>1, <2>5 DEF ReachesOnly
  <1> QED
    BY <1>1, <1>2, <1>3, <1>4, <1>6, <1>7, <1>9, <1>10, <1>11 DEF Operates, StateType, PoolSound

\* Mutator::alloc: the new object is held by p alone.
LEMMA AllocStep ==
  ASSUME IInv, NEW p \in Producers, Alloc(p)
  PROVE  IInv'
  <1>1. Safe /\ StateType /\ PoolSound /\ phase[p] = "run" /\ fields' = fields
    BY DEF IInv, Safe, Alloc, CanOperate
  <1>2. PICK c \in pool.avail : LET h == <<c, pool.gen[c]>> IN
          /\ pool' = Activate(pool, c, p) /\ Submit(p, Msg("RootAdd", h, h)) /\ Gain(p, h)
    BY DEF Alloc
  <1>3. PICK h : h = <<c, pool.gen[c]>>
    OBVIOUS
  <1>4. PICK m : m = Msg("RootAdd", h, h)
    OBVIOUS
  <1>5. c \in Cells /\ h \in Handles /\ Index(h) = c /\ Gen(h) = pool.gen[c] /\ ~pool.live[c]
    BY <1>1, <1>2, <1>3 DEF StateType, PoolType, PoolSound, Handles, Index, Gen
  <1>6. /\ m \in Messages /\ m.a = h /\ m.b = h /\ m.count = 1 /\ m.op = "RootAdd"
        /\ Change(m) = 1
    BY <1>4, <1>5 DEF Msg, Messages, Change
  <1>7. Submit(p, m) /\ bag' = [bag EXCEPT ![p][h] = @ + 1]
    BY <1>2, <1>3, <1>4 DEF Gain
  <1>8. /\ pool' = Activate(pool, c, p)
        /\ pool'.live = [pool.live EXCEPT ![c] = TRUE] /\ pool'.gen = pool.gen
        /\ pool'.owner = [pool.owner EXCEPT ![c] = p] /\ pool'.avail = pool.avail \ {c}
        /\ PoolType(pool', Producers)
    BY <1>1, <1>2, <1>5 DEF Activate, StateType, PoolType
  <1>9. PoolGrows /\ PoolSound' /\ Valid(pool', h)
    BY <1>1, <1>5, <1>8 DEF PoolGrows, PoolSound, Valid, StateType, PoolType
  <1>10. bag[p][h] \in Nat
    BY <1>1, <1>5 DEF StateType
  <1>11. Operates(p, m, {h})
    <2>1. \A k \in {h} : ~Valid(pool, k)
      BY <1>5 DEF Valid
    <2>2. /\ m.a = m.b /\ m.op \in {"RootAdd", "RootRemove"}
          /\ bag' = [bag EXCEPT ![p][m.b] = @ + Change(m)] /\ bag[p][m.b] + Change(m) \in Nat
          /\ {h} \in SUBSET Handles /\ (m.b \in Reachable \/ m.b \in {h}) /\ Valid(pool', m.b)
      BY <1>5, <1>6, <1>7, <1>9, <1>10
    <2> QED
      BY <1>1, <1>6, <1>8, <1>9, <2>1, <2>2, RootOperates
  <1> QED
    BY <1>1, <1>6, <1>7, <1>11, SubmitStep

\* A root added, removed or given back on close.
LEMMA RootStep ==
  ASSUME IInv, NEW p \in Producers, NEW h \in Handles,
         AddRoot(p, h) \/ RemoveRoot(p, h) \/ CloseRoot(p, h)
  PROVE  IInv'
  <1>1. Safe /\ StateType /\ RefsPresent /\ PoolSound /\ phase[p] = "run" /\ UNCHANGED <<pool, fields>>
    BY DEF IInv, Safe, AddRoot, RemoveRoot, CloseRoot, CanOperate
  <1>2. \E o \in {"RootAdd", "RootRemove"} :
           /\ Submit(p, Msg(o, h, h)) /\ h \in Reachable
           /\ IF o = "RootAdd" THEN Gain(p, h) ELSE Lose(p, h) /\ bag[p][h] > 0
    <2>1. bag[p][h] > 0 => h \in Reachable
      BY ReachableIs DEF Held
    <2> QED
      BY <2>1 DEF AddRoot, RemoveRoot, CloseRoot
  <1>3. PICK o \in {"RootAdd", "RootRemove"} :
           /\ Submit(p, Msg(o, h, h)) /\ h \in Reachable
           /\ IF o = "RootAdd" THEN Gain(p, h) ELSE Lose(p, h) /\ bag[p][h] > 0
    BY <1>2
  <1>4. PICK m : m = Msg(o, h, h)
    OBVIOUS
  <1>5. /\ m \in Messages /\ m.a = h /\ m.b = h /\ m.count = 1 /\ m.op = o
        /\ Change(m) = IF o = "RootAdd" THEN 1 ELSE -1
    BY <1>4 DEF Msg, Messages, Change
  <1>6. bag[p][h] \in Nat
    BY <1>1 DEF StateType
  <1>7. bag' = [bag EXCEPT ![p][h] = @ + Change(m)] /\ bag[p][h] + Change(m) \in Nat
    <2>1. CASE o = "RootAdd"
      BY <1>3, <1>5, <1>6, <2>1 DEF Gain
    <2>2. CASE o # "RootAdd"
      <3>1. bag' = [bag EXCEPT ![p][h] = @ - 1] /\ bag[p][h] > 0 /\ Change(m) = -1
        BY <1>3, <1>5, <2>2 DEF Lose
      <3>2. bag[p][h] - 1 = bag[p][h] + Change(m) /\ bag[p][h] + Change(m) \in Nat
        BY <1>6, <3>1
      <3> QED
        BY <3>1, <3>2
    <2> QED
      BY <2>1, <2>2
  <1>8. Valid(pool, h)
    BY <1>1, <1>3, ReachablePresent DEF ReachableIsLive
  <1>9. Operates(p, m, {})
    <2>1. PoolGrows /\ PoolType(pool', Producers) /\ PoolSound' /\ Valid(pool', m.b)
      BY <1>1, <1>5, <1>8 DEF PoolGrows, PoolSound, StateType
    <2>2. /\ m.a = m.b /\ m.op \in {"RootAdd", "RootRemove"} /\ fields' = fields
          /\ bag' = [bag EXCEPT ![p][m.b] = @ + Change(m)] /\ bag[p][m.b] + Change(m) \in Nat
          /\ (m.b \in Reachable \/ m.b \in {})
      BY <1>1, <1>3, <1>5, <1>7
    <2>3. {} \in SUBSET Handles /\ \A k \in {} : ~Valid(pool, k)
      OBVIOUS
    <2> QED
      BY <1>1, <1>5, <2>1, <2>2, <2>3, RootOperates
  <1> QED
    BY <1>1, <1>3, <1>4, <1>5, <1>9, SubmitStep

\* A field written or cleared by the thread that allocated its object.
LEMMA EdgeStep ==
  ASSUME IInv, OwnFields, NEW p \in Producers, NEW a \in Handles, NEW b \in Handles,
         AddEdge(p, a, b) \/ RemoveEdge(p, a, b)
  PROVE  IInv'
  <1>1. Safe /\ StateType /\ phase[p] = "run" /\ UNCHANGED <<pool, bag>>
        /\ a \in Held(p) /\ pool.owner[Index(a)] = p
    BY DEF IInv, Safe, AddEdge, RemoveEdge, CanOperate, MayWrite
  <1>2. a \in Reachable
    BY <1>1, ReachableIs
  <1> DEFINE e == <<a, b>>
  <1>3. e \in Pairs /\ e[1] = a /\ e[2] = b
    BY DEF Pairs
  <1>4. fields \in [Pairs -> 0..MaxFields] /\ fields[e] \in 0..MaxFields /\ MaxFields \in Nat
    BY <1>1, <1>3, RuntimeAssumption DEF StateType
  <1>5. PICK o \in {"EdgeAdd", "EdgeRemove"} :
           /\ Submit(p, Msg(o, a, b)) /\ b \in Reachable
           /\ IF o = "EdgeAdd" THEN fields[e] < MaxFields /\ fields' = [fields EXCEPT ![e] = @ + 1]
              ELSE fields[e] > 0 /\ fields' = [fields EXCEPT ![e] = @ - 1]
    <2>1. fields[e] > 0 => b \in Reachable
      BY <1>2, <1>3, ReachableIs
    <2> QED
      BY <2>1 DEF AddEdge, RemoveEdge
  <1>6. PICK m : m = Msg(o, a, b)
    OBVIOUS
  <1>7. /\ m \in Messages /\ m.a = a /\ m.b = b /\ m.count = 1 /\ m.op = o
        /\ Change(m) = IF o = "EdgeAdd" THEN 1 ELSE -1
    BY <1>6 DEF Msg, Messages, Change
  <1>8. fields' = [fields EXCEPT ![e] = @ + Change(m)] /\ fields[e] + Change(m) \in 0..MaxFields
    <2> HIDE DEF e
    <2>1. CASE o = "EdgeAdd"
      BY <1>4, <1>5, <1>7, <2>1
    <2>2. CASE o # "EdgeAdd"
      <3>1. fields' = [fields EXCEPT ![e] = @ - 1] /\ fields[e] > 0 /\ Change(m) = -1
        BY <1>5, <1>7, <2>2
      <3>2. fields[e] - 1 = fields[e] + Change(m) /\ fields[e] + Change(m) \in 0..MaxFields
        BY <1>4, <3>1
      <3> QED
        BY <3>1, <3>2
    <2> QED
      BY <2>1, <2>2
  <1>9. Operates(p, m, {})
    <2>1. /\ m.op \in {"EdgeAdd", "EdgeRemove"} /\ e = <<m.a, m.b>>
          /\ m.a \in Reachable /\ m.b \in Reachable /\ pool.owner[Index(m.a)] = p
      BY <1>1, <1>2, <1>5, <1>7
    <2>2. /\ fields' = [fields EXCEPT ![<<m.a, m.b>>] = @ + Change(m)]
          /\ fields[<<m.a, m.b>>] + Change(m) \in 0..MaxFields
      BY <1>8, <2>1
    <2> QED
      BY <1>1, <1>7, <2>1, <2>2, EdgeOperates
  <1> QED
    BY <1>1, <1>5, <1>6, <1>7, <1>9, SubmitStep

-----------------------------------------------------------------------------
(* Applying a message *)

\* Taking the first published message takes the first of the stream.
LEMMA DrainConcat ==
  ASSUME NEW q \in Seq(Messages), NEW s \in Seq(Messages), q # <<>>
  PROVE  /\ q \o s # <<>> /\ Head(q \o s) = Head(q) /\ Tail(q \o s) = Tail(q) \o s
  <1> DEFINE u == q \o s
             n == Len(q)
             l == Len(s)
             t == Tail(q)
             v == Tail(u)
             w == t \o s
  <1>1. n \in Nat \ {0} /\ l \in Nat
    BY LenProperties, EmptySeq
  <1>2. /\ u \in Seq(Messages) /\ Len(u) = n + l
        /\ \A i \in 1..n + l : u[i] = IF i <= n THEN q[i] ELSE s[i - n]
    BY ConcatProperties
  <1>3. u # <<>>
    <2>1. Len(u) # 0
      <3> HIDE DEF n, l
      <3> QED
        BY <1>1, <1>2
    <2> QED
      BY <2>1
  <1>4. t \in Seq(Messages) /\ Len(t) = n - 1 /\ \A i \in 1..Len(t) : t[i] = q[i + 1]
    BY HeadTailProperties
  <1>5. v \in Seq(Messages) /\ Len(v) = Len(u) - 1 /\ \A i \in 1..Len(v) : v[i] = u[i + 1]
    <2> HIDE DEF u
    <2> QED
      BY <1>2, <1>3, HeadTailProperties
  <1>6. Head(u) = u[1] /\ Head(q) = q[1]
    <2> HIDE DEF u
    <2> QED
      BY <1>2, <1>3
  <1> HIDE DEF t
  <1>7. /\ w \in Seq(Messages) /\ Len(w) = Len(t) + l
        /\ \A i \in 1..Len(t) + l : w[i] = IF i <= Len(t) THEN t[i] ELSE s[i - Len(t)]
    BY <1>4, ConcatProperties
  <1> HIDE DEF u, v, w, n, l
  <1>8. Len(v) = n + l - 1 /\ Len(w) = n + l - 1 /\ Len(t) + l = n + l - 1
    BY <1>1, <1>2, <1>4, <1>5, <1>7
  <1>9. ASSUME NEW i \in 1..n + l - 1 PROVE v[i] = w[i]
    <2>1. /\ i + 1 \in 1..n + l /\ (i <= n - 1 <=> i + 1 <= n) /\ (i + 1) - n = i - (n - 1)
          /\ i <= n - 1 => i \in 1..n - 1
      BY <1>1
    <2>2. v[i] = IF i + 1 <= n THEN q[i + 1] ELSE s[(i + 1) - n]
      <3>1. v[i] = u[i + 1]
        BY <1>5, <1>8
      <3> QED
        BY <1>2, <2>1, <3>1
    <2>3. w[i] = IF i <= n - 1 THEN t[i] ELSE s[i - (n - 1)]
      <3>1. Len(t) = n - 1 /\ i \in 1..Len(t) + l
        BY <1>4, <1>8
      <3> QED
        BY <1>7, <3>1
    <2>4. i <= n - 1 => t[i] = q[i + 1]
      BY <1>4, <2>1
    <2> QED
      BY <2>1, <2>2, <2>3, <2>4
  <1>10. u[1] = q[1]
    BY <1>1, <1>2
  <1>11. v = w
    BY <1>5, <1>7, <1>8, <1>9, SeqEqual
  <1> QED
    BY <1>3, <1>6, <1>10, <1>11 DEF u, v, w, t

\* The worker applies the first message m of p's queue.
Drains(p, m) ==
    /\ wpc = "drain" /\ left[p] > 0 /\ m = Head(queue[p])
    /\ eng' = Process(eng, pool, m)
    /\ queue' = [queue EXCEPT ![p] = Tail(@)] /\ left' = [left EXCEPT ![p] = @ - 1]
    /\ UNCHANGED <<pool, bag, fields, batch, phase, wpc, wi, hot, stable>>

\* The balances after the first message of p has gone.
Shifted(p, L, M) ==
    /\ M \in [Producers -> Ledgers] /\ \A r \in Producers \ {p} : M[r] = L[r]
    /\ \A x \in Accounts : \A i \in Nat : M[p][x][i] = L[p][x][i + 1]

\* The streams after the worker has taken a message of p.
LEMMA DrainStreams ==
  ASSUME Safe, NEW p \in Producers, NEW m, Drains(p, m)
  PROVE  /\ m \in Messages /\ Sound(p, m) /\ m = Stream(p)[1]
         /\ left[p] \in Nat \ {0} /\ left'[p] = left[p] - 1 /\ left'[p] \in Nat
         /\ left' \in [Producers -> Nat] /\ queue' \in [Producers -> Seq(Messages)]
         /\ Stream(p) \in Seq(Messages) /\ Stream(p) # <<>>
         /\ Head(Stream(p)) = m /\ Stream(p)' = Tail(Stream(p))
         /\ Len(Stream(p)) \in Nat \ {0} /\ Len(Stream(p)') = Len(Stream(p)) - 1
         /\ left[p] <= Len(Stream(p))
         /\ \A i \in 1..Len(Stream(p)') :
              i + 1 \in 1..Len(Stream(p)) /\ Stream(p)'[i] = Stream(p)[i + 1]
         /\ \A r \in Producers \ {p} : Stream(r)' = Stream(r) /\ left'[r] = left[r]
         /\ \A r \in Producers : left'[r] <= Len(queue'[r])
  <1> DEFINE q == queue[p]
             s == batch[p]
             u == Stream(p)
             n == left[p]
  <1>1. StateType /\ RoundSound /\ MessagesSound
    BY DEF Safe
  <1>2. /\ q \in Seq(Messages) /\ s \in Seq(Messages) /\ Len(q) \in Nat /\ n \in Nat /\ n <= Len(q)
        /\ u \in Seq(Messages) /\ Len(u) = Len(q) + Len(s) /\ Len(s) \in Nat /\ Len(u) \in Nat
        /\ n > 0
    BY <1>1, StreamType DEF RoundSound, StateType, Drains
  <1>3. u = q \o s
    BY DEF Stream
  <1>4. q # <<>>
    <2>1. Len(q) # 0
      <3> HIDE DEF n, q
      <3> QED
        BY <1>2
    <2> QED
      BY <2>1
  <1>5. queue'[p] = Tail(q) /\ left'[p] = n - 1
        /\ \A r \in Producers \ {p} : queue'[r] = queue[r] /\ left'[r] = left[r]
    BY <1>1 DEF Drains, StateType
  <1>6. batch' = batch /\ m = Head(q)
    BY DEF Drains
  <1>7. Stream(p)' = Tail(q) \o s
    BY <1>5, <1>6 DEF Stream
  <1>8. \A r \in Producers \ {p} : Stream(r)' = Stream(r) /\ left'[r] = left[r]
    BY <1>5, <1>6 DEF Stream
  <1>9. Tail(q) \in Seq(Messages) /\ Len(Tail(q)) = Len(q) - 1 /\ m \in Messages
    BY <1>2, <1>4, <1>6, HeadTailProperties
  <1>10. queue' \in [Producers -> Seq(Messages)]
    BY <1>1, <1>9 DEF Drains, StateType
  <1>11. n \in Nat \ {0} /\ n - 1 \in Nat /\ n - 1 <= Len(Tail(q)) /\ n <= Len(u) /\ Len(u) # 0
    <2> HIDE DEF n, q, s, u
    <2> QED
      BY <1>2, <1>9
  <1>12. left' \in [Producers -> Nat]
    BY <1>1, <1>11 DEF Drains, StateType
  <1>13. \A r \in Producers : left'[r] <= Len(queue'[r])
    BY <1>1, <1>5, <1>11 DEF RoundSound
  <1> HIDE DEF q, s
  <1>14. u # <<>> /\ Head(u) = m /\ Stream(p)' = Tail(u)
    <2>1. q \o s # <<>> /\ Head(q \o s) = Head(q) /\ Tail(q \o s) = Tail(q) \o s
      BY <1>2, <1>4, DrainConcat
    <2> HIDE DEF u
    <2> QED
      BY <1>3, <1>6, <1>7, <2>1
  <1>15. Head(u) = u[1]
    <2> HIDE DEF u
    <2> QED
      BY <1>2, <1>14
  <1>16. 1 \in 1..Len(u)
    <2> HIDE DEF u, n
    <2> QED
      BY <1>2, <1>11
  <1>17. Sound(p, m)
    BY <1>1, <1>14, <1>15, <1>16 DEF MessagesSound
  <1>18. Len(Tail(u)) = Len(u) - 1 /\ \A i \in 1..Len(Tail(u)) : Tail(u)[i] = u[i + 1]
    <2> HIDE DEF u
    <2> QED
      BY <1>2, <1>14, HeadTailProperties
  <1>19. \A i \in 1..Len(Tail(u)) : i + 1 \in 1..Len(u)
    <2> HIDE DEF u
    <2> QED
      BY <1>2, <1>18
  <1> HIDE DEF n, u
  <1>20. Len(u) \in Nat \ {0}
    BY <1>2, <1>11
  <1> QED
    BY <1>2, <1>5, <1>8, <1>9, <1>10, <1>11, <1>12, <1>13, <1>14, <1>15, <1>17, <1>18, <1>19,
       <1>20 DEF n, u

\* The accounts go on from the balance after the message.
LEMMA DrainLedger ==
  ASSUME Safe, NEW p \in Producers, NEW m, Drains(p, m), NEW L, Ledger(L)
  PROVE  /\ \A x \in Accounts : L[p][x][1] = L[p][x][0] + Effect(m, x)
         /\ \E M : Shifted(p, L, M) /\ Ledger(M)'
  <1> DEFINE G == [x \in Accounts |-> [i \in Nat |-> L[p][x][i + 1]]]
  <1>1. L \in [Producers -> Ledgers]
    BY DEF Ledger
  <1>2. PICK M : M = [L EXCEPT ![p] = G]
    OBVIOUS
  <1>3. \A x \in Accounts : L[p][x] \in [Nat -> Nat]
    BY <1>1 DEF Ledgers
  <1>4. G \in Ledgers /\ \A x \in Accounts : /\ G[x] \in [Nat -> Nat]
                                             /\ \A i \in Nat : G[x][i] = L[p][x][i + 1]
    <2>1. \A i \in Nat : i + 1 \in Nat
      OBVIOUS
    <2> QED
      BY <1>3, <2>1 DEF Ledgers
  <1> HIDE DEF G
  <1>5. M \in [Producers -> Ledgers] /\ M[p] = G /\ \A r \in Producers \ {p} : M[r] = L[r]
    BY <1>1, <1>2, <1>4
  <1>6. Shifted(p, L, M)
    BY <1>4, <1>5 DEF Shifted
  <1> DEFINE u == Stream(p)
  <1>7. /\ u \in Seq(Messages) /\ u # <<>> /\ Head(u) = m /\ Stream(p)' = Tail(u)
        /\ Len(u) \in Nat \ {0} /\ Len(Stream(p)') = Len(u) - 1
        /\ \A r \in Producers \ {p} : Stream(r)' = Stream(r)
    BY DrainStreams
  <1>8. Keeps(L[p], u) /\ \A x \in Accounts : L[p][x][Len(u)] = Book(p, x)
    BY DEF Ledger
  <1>9. \A r, x : Book(r, x)' = Book(r, x)
    BY DEF Drains, Book
  <1> HIDE DEF u
  <1>10. ASSUME NEW x \in Accounts
         PROVE  Tally(G[x], Tail(u), x) /\ L[p][x][1] = L[p][x][0] + Effect(m, x)
    <2> DEFINE f == L[p][x]
               g == G[x]
    <2>1. Tally(f, u, x) /\ g \in [Nat -> Nat] /\ \A i \in Nat : g[i] = f[i + 1]
      BY <1>4, <1>8 DEF Keeps
    <2> HIDE DEF f, g
    <2>2. Tally(g, Tail(u), x) /\ f[1] = f[0] + Effect(Head(u), x)
      BY <1>7, <2>1, TallyTail
    <2> QED
      BY <1>7, <2>2 DEF f, g
  <1>11. ASSUME NEW x \in Accounts PROVE G[x][Len(u) - 1] = Book(p, x)
    <2> DEFINE n == Len(u)
    <2>1. n \in Nat \ {0} /\ L[p][x][n] = Book(p, x)
      BY <1>7, <1>8
    <2> HIDE DEF n
    <2>2. n - 1 \in Nat /\ (n - 1) + 1 = n
      BY <2>1
    <2>3. G[x][n - 1] = Book(p, x)
      BY <1>4, <2>1, <2>2
    <2> QED
      BY <2>3 DEF n
  <1>12. Ledger(M)'
    <2>1. ASSUME NEW r \in Producers
          PROVE  /\ Keeps(M[r], Stream(r)')
                 /\ \A x \in Accounts : M[r][x][Len(Stream(r)')] = Book(r, x)'
      <3>1. CASE r = p
        <4>1. Keeps(G, Tail(u))
          BY <1>4, <1>10 DEF Keeps
        <4> QED
          BY <1>5, <1>7, <1>9, <1>11, <3>1, <4>1
      <3>2. CASE r # p
        <4>1. Keeps(L[r], Stream(r)) /\ \A x \in Accounts : L[r][x][Len(Stream(r))] = Book(r, x)
          BY DEF Ledger
        <4>2. M[r] = L[r] /\ Stream(r)' = Stream(r)
          BY <1>5, <1>7, <3>2
        <4> QED
          BY <1>9, <4>1, <4>2
      <3> QED
        BY <3>1, <3>2
    <2> QED
      BY <1>5, <2>1 DEF Ledger
  <1> QED
    BY <1>6, <1>10, <1>12

\* The engine accepts the message: the table has what it takes away.
LEMMA DrainApplies ==
  ASSUME Safe, NEW p \in Producers, NEW m, Drains(p, m), NEW L, Ledger(L), Table(L)
  PROVE  Applied(eng, eng', m)
  <1>1. StateType /\ TableSound
    BY DEF Safe
  <1>2. m \in Messages /\ Sound(p, m)
    BY DrainStreams
  <1>3. /\ m.a \in Handles /\ m.b \in Handles /\ m.count \in Nat /\ Index(m.b) \in Cells
        /\ L \in [Producers -> Ledgers]
    BY <1>2, HandlesFinite DEF Messages, Ledger
  <1>4. Valid(pool, m.a) /\ Valid(pool, m.b)
    BY <1>2 DEF Sound
  <1>5. EngineType(eng) /\ EdgesExact(eng)
    BY <1>1 DEF StateType, TableSound
  <1>6. ASSUME m.op = "RootRemove" PROVE m.count <= eng.root[Index(m.b)]
    <2> DEFINE x == RootAccount(m.b)
               S == RootSlots(Index(m.b))
               f == RootsTold(L)
               t == <<p, m.b>>
    <2>1. x \in Accounts /\ m.a = m.b /\ Effect(m, x) = 0 - m.count
      BY <1>2, <1>3, <1>6 DEF RootAccount, Accounts, Sound, IsEdgeOp, Effect, Touches, Change
    <2>2. L[p][x][1] = L[p][x][0] + Effect(m, x) /\ L[p][x][1] \in Nat /\ L[p][x][0] \in Nat
      BY <1>3, <2>1, DrainLedger DEF Ledgers
    <2>3. m.count <= L[p][x][0]
      BY <1>3, <2>1, <2>2
    <2>4. t \in S /\ f[t] = L[p][x][0] /\ IsFiniteSet(S)
      BY <1>3, RootSlotsFinite DEF RootSlots, RootsTold
    <2>5. \A y \in S : f[y] \in Nat
      BY <1>3 DEF RootSlots, RootsTold, RootAccount, Accounts, Ledgers
    <2>6. eng.root[Index(m.b)] = Cardinality(Copies(S, f))
      BY <1>3 DEF Table
    <2> HIDE DEF S, f, t
    <2>7. f[t] <= Cardinality(Copies(S, f)) /\ Cardinality(Copies(S, f)) \in Nat
      BY <2>4, <2>5, CopiesBound, CopiesFinite
    <2> QED
      BY <1>3, <2>2, <2>3, <2>4, <2>6, <2>7
  <1>7. ASSUME m.op = "EdgeRemove" PROVE eng.out[<<m.a, m.b>>] > 0
    <2> DEFINE q == <<m.a, m.b>>
               x == EdgeAccount(q)
    <2>1. q \in Pairs /\ q[1] = m.a /\ q[2] = m.b
      BY <1>3 DEF Pairs
    <2>2. x \in Accounts /\ Effect(m, x) = -1 /\ pool.owner[Index(m.a)] = p
      BY <1>2, <1>3, <1>7 DEF EdgeAccount, Accounts, Sound, IsEdgeOp, Effect, Touches, Change
    <2>3. L[p][x][1] = L[p][x][0] + Effect(m, x) /\ L[p][x][1] \in Nat /\ L[p][x][0] \in Nat
      BY <1>3, <2>2, DrainLedger DEF Ledgers
    <2>4. L[p][x][0] = eng.out[q]
      BY <2>1, <2>2 DEF Table
    <2> QED
      BY <2>2, <2>3, <2>4
  <1>8. Applied(eng, Process(eng, pool, m), m)
    BY <1>2, <1>4, <1>5, <1>6, <1>7, ProcessApplies
  <1> QED
    BY <1>8 DEF Drains

\* The table holds the balances after the message.
LEMMA DrainTable ==
  ASSUME Safe, NEW p \in Producers, NEW m, Drains(p, m), NEW L, Ledger(L), Table(L),
         NEW M, Shifted(p, L, M), Applied(eng, eng', m)
  PROVE  Table(M)'
  <1>1. StateType /\ m \in Messages /\ Sound(p, m) /\ pool' = pool
    BY DrainStreams DEF Safe, Drains
  <1>2. /\ m.a \in Handles /\ m.b \in Handles /\ Index(m.b) \in Cells
        /\ L \in [Producers -> Ledgers] /\ M \in [Producers -> Ledgers]
    BY <1>1, HandlesFinite DEF Messages, Ledger, Shifted
  <1>3. \A x \in Accounts : L[p][x][1] = L[p][x][0] + Effect(m, x)
    BY DrainLedger
  <1>4. /\ \A x \in Accounts : M[p][x][0] = L[p][x][0] + Effect(m, x)
        /\ \A r \in Producers \ {p} : M[r] = L[r]
    <2>1. \A x \in Accounts : M[p][x][0] = L[p][x][0 + 1]
      BY DEF Shifted
    <2> QED
      BY <1>3, <2>1 DEF Shifted
  <1>5. \A r \in Producers : \A x \in Accounts : L[r][x][0] \in Nat /\ M[r][x][0] \in Nat
    BY <1>2 DEF Ledgers
  <1>6. ASSUME NEW c \in Cells
        PROVE  eng'.root[c] = Cardinality(Copies(RootSlots(c), RootsTold(M)))
    <2> DEFINE S == RootSlots(c)
               f == RootsTold(L)
               g == RootsTold(M)
               t == <<p, m.b>>
    <2>1. /\ IsFiniteSet(S) /\ \A y \in S : f[y] \in Nat /\ g[y] \in Nat
          /\ \A y \in S : f[y] = L[y[1]][RootAccount(y[2])][0] /\ g[y] = M[y[1]][RootAccount(y[2])][0]
          /\ \A y \in S : y = <<y[1], y[2]>> /\ y[1] \in Producers /\ y[2] \in Handles
                          /\ RootAccount(y[2]) \in Accounts
      <3>1. IsFiniteSet(S) /\ S \subseteq Producers \X Handles
        BY RootSlotsFinite
      <3>2. \A y \in S : y = <<y[1], y[2]>> /\ y[1] \in Producers /\ y[2] \in Handles
                         /\ RootAccount(y[2]) \in Accounts
        BY <3>1 DEF RootAccount, Accounts
      <3>3. \A y \in S : f[y] = L[y[1]][RootAccount(y[2])][0] /\ g[y] = M[y[1]][RootAccount(y[2])][0]
        BY <3>1 DEF RootsTold
      <3>4. \A y \in S : f[y] \in Nat /\ g[y] \in Nat
        BY <1>5, <3>2, <3>3
      <3> QED
        BY <3>1, <3>2, <3>3, <3>4
    <2>2. eng.root[c] = Cardinality(Copies(S, f)) /\ eng.root[c] \in Nat
      BY <1>1 DEF Table, StateType, EngineType, Engines
    <2>3. CASE ~IsEdgeOp(m) /\ c = Index(m.b)
      <3>1. t \in S
        BY <1>2, <2>3 DEF RootSlots
      <3>2. \A y \in S \ {t} : g[y] = f[y]
        <4> SUFFICES ASSUME NEW y \in S \ {t} PROVE g[y] = f[y]
          OBVIOUS
        <4>1. CASE y[1] # p
          BY <1>4, <2>1, <4>1
        <4>2. CASE y[1] = p
          <5>1. y[2] # m.b
            BY <2>1, <4>2
          <5>2. Effect(m, RootAccount(y[2])) = 0
            BY <5>1 DEF Effect, Touches, RootAccount
          <5> QED
            BY <1>4, <1>5, <2>1, <4>2, <5>2
        <4> QED
          BY <4>1, <4>2
      <3>3. g[t] = f[t] + Change(m)
        <4>1. Effect(m, RootAccount(m.b)) = Change(m)
          BY <1>1, <2>3 DEF Effect, Touches, RootAccount, Sound
        <4> QED
          BY <1>4, <2>1, <3>1, <4>1
      <3>4. eng'.root[c] = eng.root[c] + Change(m)
        BY <2>3 DEF Applied
      <3>5. f[t] \in Nat /\ g[t] \in Nat /\ Change(m) \in Int
        BY <1>1, <2>1, <3>1 DEF Messages, Change
      <3> HIDE DEF S, f, g, t
      <3>6. Cardinality(Copies(S, g)) = Cardinality(Copies(S, f)) + g[t] - f[t]
        BY <2>1, <3>1, <3>2, CopiesUpdate
      <3>7. eng'.root[c] = Cardinality(Copies(S, g))
        BY <2>2, <3>3, <3>4, <3>5, <3>6
      <3> QED
        BY <3>7 DEF S, g
    <2>4. CASE IsEdgeOp(m) \/ c # Index(m.b)
      <3>1. \A y \in S : f[y] = g[y]
        <4> SUFFICES ASSUME NEW y \in S PROVE f[y] = g[y]
          OBVIOUS
        <4>1. CASE y[1] # p
          BY <1>4, <2>1, <4>1
        <4>2. CASE y[1] = p
          <5>1. IsEdgeOp(m) \/ y[2] # m.b
            BY <2>4 DEF RootSlots
          <5>2. Effect(m, RootAccount(y[2])) = 0
            BY <5>1 DEF Effect, Touches, RootAccount
          <5> QED
            BY <1>4, <1>5, <2>1, <4>2, <5>2
        <4> QED
          BY <4>1, <4>2
      <3>2. eng'.root[c] = eng.root[c]
        BY <2>4 DEF Applied
      <3> HIDE DEF S, f, g, t
      <3>3. Copies(S, f) = Copies(S, g)
        BY <3>1, CopiesSame
      <3> QED
        BY <2>2, <3>2, <3>3 DEF S, g
    <2> QED
      BY <2>3, <2>4
  <1>7. ASSUME NEW r \in Producers, NEW q \in Pairs
        PROVE  M[r][EdgeAccount(q)][0] = IF pool.owner[Index(q[1])] = r THEN eng'.out[q] ELSE 0
    <2> DEFINE x == EdgeAccount(q)
               o == pool.owner[Index(q[1])]
    <2>1. x \in Accounts /\ x[1] = "edge" /\ x[2] = q[1] /\ x[3] = q[2] /\ q = <<q[1], q[2]>>
      BY DEF EdgeAccount, Accounts, Pairs
    <2>2. L[r][x][0] = IF o = r THEN eng.out[q] ELSE 0
      BY DEF Table
    <2>3. eng.out[q] \in Nat /\ L[r][x][0] \in Nat
      BY <1>1, <1>5, <2>1 DEF StateType, EngineType, Engines, Pairs
    <2>4. CASE IsEdgeOp(m) /\ q = <<m.a, m.b>>
      <3>1. o = p /\ Effect(m, x) = Change(m) /\ eng'.out[q] = eng.out[q] + Change(m)
        BY <1>1, <2>1, <2>4 DEF Sound, Effect, Touches, Applied
      <3> QED
        BY <1>4, <2>1, <2>2, <3>1
    <2>5. CASE ~(IsEdgeOp(m) /\ q = <<m.a, m.b>>)
      <3>1. Effect(m, x) = 0 /\ eng'.out[q] = eng.out[q]
        BY <2>1, <2>5 DEF Effect, Touches, Applied
      <3>2. M[r][x][0] = L[r][x][0]
        BY <1>4, <2>1, <2>3, <3>1
      <3> QED
        BY <2>2, <3>1, <3>2
    <2> QED
      BY <2>4, <2>5
  <1> QED
    BY <1>1, <1>6, <1>7 DEF Table

\* The cut stays where it was, one message nearer.
LEMMA DrainCut ==
  ASSUME Safe, NEW p \in Producers, NEW m, Drains(p, m), NEW L, Ledger(L),
         NEW M, Shifted(p, L, M), Applied(eng, eng', m), NEW K, Cut(L, K)
  PROVE  Cut(M, K)'
  <1>1. /\ StateType /\ m \in Messages /\ Sound(p, m)
        /\ UNCHANGED <<pool, bag, fields>>
    BY DrainStreams DEF Safe, Drains
  <1>2. Reachable' = Reachable
    BY <1>1 DEF Reachable, Edges, Held
  <1>3. /\ left[p] \in Nat \ {0} /\ left'[p] = left[p] - 1 /\ left'[p] \in Nat
        /\ \A r \in Producers \ {p} : left'[r] = left[r] /\ Stream(r)' = Stream(r) /\ M[r] = L[r]
    BY DrainStreams DEF Shifted
  <1>4. \A x \in Accounts : M[p][x][left'[p]] = L[p][x][left[p]]
    <2>1. left'[p] + 1 = left[p]
      BY <1>3
    <2> QED
      BY <1>3, <2>1 DEF Shifted
  <1>5. AtCut(M)' = AtCut(L)
    <2>1. \A r \in Producers : \A x \in Accounts : M[r][x][left'[r]] = L[r][x][left[r]]
      BY <1>3, <1>4
    <2>2. \A h \in Handles : RootAccount(h) \in Accounts
      BY DEF RootAccount, Accounts
    <2>3. \A q \in Pairs : EdgeAccount(q) \in Accounts
      BY DEF EdgeAccount, Accounts, Pairs
    <2>4. CutRoots(M)' = CutRoots(L)
      BY <2>1, <2>2 DEF CutRoots
    <2>5. CutEdges(M)' = CutEdges(L)
      BY <2>1, <2>3 DEF CutEdges
    <2> QED
      BY <2>4, <2>5 DEF AtCut
  <1>6. ASSUME NEW r \in Producers, NEW i \in 1..Len(Stream(r)'),
               NEW h \in {Stream(r)'[i].a, Stream(r)'[i].b}
        PROVE  IF i <= left'[r] THEN h \in K ELSE h \in K => h \in AtCut(L)
    <2>1. CASE r # p
      BY <1>3, <2>1 DEF Cut
    <2>2. CASE r = p
      <3>1. i + 1 \in 1..Len(Stream(p)) /\ Stream(p)'[i] = Stream(p)[i + 1]
        BY <2>2, DrainStreams
      <3>2. i + 1 <= left[p] <=> i <= left'[p]
        BY <1>3, <3>1
      <3>3. IF i + 1 <= left[p] THEN h \in K ELSE h \in K => h \in AtCut(L)
        BY <2>2, <3>1 DEF Cut
      <3> QED
        BY <2>2, <3>2, <3>3
    <2> QED
      BY <2>1, <2>2
  <1>7. \A c \in eng'.zero \cup eng'.marks : <<c, pool.gen[c]>> \in K
    <2>1. m.b \in K
      <3>1. m = Stream(p)[1] /\ 1 \in 1..Len(Stream(p)) /\ 1 <= left[p]
        <4>1. m = Stream(p)[1] /\ Len(Stream(p)) \in Nat \ {0}
          BY DrainStreams
        <4> QED
          BY <1>3, <4>1
      <3> QED
        BY <3>1 DEF Cut
    <2>2. m.b = <<Index(m.b), pool.gen[Index(m.b)]>>
      BY <1>1, HandlesFinite DEF Sound, Valid, Messages
    <2>3. \A c \in eng'.zero \cup eng'.marks : c \in eng.zero \cup eng.marks \/ c = Index(m.b)
      BY DEF Applied
    <2> QED
      BY <2>1, <2>2, <2>3 DEF Cut
  <1>8. ASSUME NEW r \in Producers, NEW x \in Accounts, NEW i \in 0..left'[r], M[r][x][i] > 0
        PROVE  x[2] \in K /\ x[3] \in K
    <2>1. CASE r # p
      BY <1>3, <1>8, <2>1 DEF Cut
    <2>2. CASE r = p
      <3>1. i \in Nat /\ i + 1 \in 0..left[p]
        BY <1>3, <2>2
      <3>2. L[p][x][i + 1] > 0
        BY <1>8, <2>2, <3>1 DEF Shifted
      <3> QED
        BY <3>1, <3>2 DEF Cut
    <2> QED
      BY <2>1, <2>2
  <1>9. \A h \in K : h \in Handles /\ Valid(pool', h) /\ (h \in Reachable' => h \in AtCut(M)')
    BY <1>1, <1>2, <1>5 DEF Cut
  <1> QED
    BY <1>1, <1>5, <1>6, <1>7, <1>8, <1>9 DEF Cut

\* The worker applies one published message.
LEMMA DrainStep ==
  ASSUME IInv, Drain
  PROVE  IInv'
  <1>1. PICK p \in Producers : Drains(p, Head(queue[p]))
    BY DEF Drain, Drains, ToDrain
  <1>2. PICK m : m = Head(queue[p])
    OBVIOUS
  <1>3. Drains(p, m)
    BY <1>1, <1>2
  <1>4. Safe /\ StateType /\ BatchesKept /\ MessagesSound /\ TableSound /\ SuspectsQueued
    BY DEF IInv, Safe
  <1>5. PICK L : Ledger(L) /\ Table(L) /\ (Sweeping => \E K : Cut(L, K))
    BY DEF IInv
  <1>6. PICK M : Shifted(p, L, M) /\ Ledger(M)'
    BY <1>3, <1>4, <1>5, DrainLedger
  <1>7. Applied(eng, eng', m)
    BY <1>3, <1>4, <1>5, DrainApplies
  <1>8. Table(M)'
    BY <1>3, <1>4, <1>5, <1>6, <1>7, DrainTable
  <1>9. Sweeping' => \E K : Cut(M, K)'
    <2>1. Sweeping' => Sweeping
      BY <1>3 DEF Drains, Sweeping
    <2> QED
      BY <1>3, <1>4, <1>5, <1>6, <1>7, <2>1, DrainCut
  <1>10. /\ m \in Messages /\ Sound(p, m) /\ Index(m.b) \in Cells
         /\ Valid(pool, m.a) /\ Valid(pool, m.b)
    <2>1. m \in Messages /\ Sound(p, m)
      BY <1>3, <1>4, DrainStreams
    <2> QED
      BY <2>1, HandlesFinite DEF Messages, Sound
  <1>11. Safe'
    <2>1. StateType'
      <3>1. left' \in [Producers -> Nat] /\ queue' \in [Producers -> Seq(Messages)]
        BY <1>3, <1>4, DrainStreams
      <3> QED
        BY <1>3, <1>4, <1>7, <3>1 DEF StateType, Drains, Applied
    <2>2. BatchesKept' /\ RefsPresent' /\ PoolSound'
      BY <1>3, <1>4 DEF Safe, Drains, BatchesKept, RefsPresent, PoolSound
    <2>3. MessagesSound'
      <3> SUFFICES ASSUME NEW r \in Producers, NEW i \in 1..Len(Stream(r)')
                   PROVE  Sound(r, Stream(r)[i])'
        BY DEF MessagesSound
      <3>1. pool' = pool
        BY <1>3 DEF Drains
      <3>2. \E j \in 1..Len(Stream(r)) : Stream(r)'[i] = Stream(r)[j]
        <4>1. CASE r = p
          <5>1. \A k \in 1..Len(Stream(p)') :
                  k + 1 \in 1..Len(Stream(p)) /\ Stream(p)'[k] = Stream(p)[k + 1]
            BY <1>3, <1>4, DrainStreams
          <5> QED
            BY <4>1, <5>1
        <4>2. CASE r # p
          <5>1. Stream(r)' = Stream(r)
            BY <1>3, <1>4, <4>2, DrainStreams
          <5> QED
            BY <5>1
        <4> QED
          BY <4>1, <4>2
      <3> QED
        BY <1>4, <3>1, <3>2 DEF MessagesSound, Sound
    <2>4. TableSound'
      <3>1. RecordsLive(eng', pool)
        <4> SUFFICES ASSUME NEW q \in Pairs, eng'.out[q] > 0
                     PROVE  Valid(pool, q[1]) /\ Valid(pool, q[2])
          BY DEF RecordsLive
        <4>1. CASE q = <<m.a, m.b>>
          BY <1>10, <4>1
        <4>2. CASE q # <<m.a, m.b>>
          BY <1>4, <1>7, <4>2 DEF Applied, TableSound, RecordsLive
        <4> QED
          BY <4>1, <4>2
      <3>2. \A c \in eng'.zero \cup eng'.marks : pool.live[c]
        BY <1>4, <1>7, <1>10 DEF Applied, TableSound, Valid
      <3> QED
        BY <1>3, <1>4, <1>7, <3>1, <3>2 DEF TableSound, Applied, Drains
    <2>5. SuspectsQueued'
      <3>1. wpc = "drain" /\ wpc' = "drain"
        BY <1>3 DEF Drains
      <3> SUFFICES ASSUME NEW c \in eng'.marks
                   PROVE  (Total(eng', c) = 0 => c \in eng'.zero) /\ c \in eng'.stack
        BY <3>1 DEF SuspectsQueued
      <3>2. c \in Cells
        BY <1>7 DEF Applied, EngineType, Engines
      <3>3. CASE c = Index(m.b)
        BY <1>4, <1>7, <3>1, <3>3 DEF Applied, SuspectsQueued
      <3>4. CASE c # Index(m.b)
        <4>1. c \in eng.marks /\ Total(eng', c) = Total(eng, c)
          BY <1>7, <3>2, <3>4 DEF Applied
        <4> QED
          BY <1>4, <1>7, <3>1, <4>1 DEF Applied, SuspectsQueued
      <3> QED
        BY <3>3, <3>4
    <2>6. RoundSound'
      <3>1. wpc' = "drain" /\ \A r \in Producers : left'[r] <= Len(queue'[r])
        BY <1>3, <1>4, DrainStreams DEF Drains
      <3> QED
        BY <3>1 DEF RoundSound
    <2> QED
      BY <2>1, <2>2, <2>3, <2>4, <2>5, <2>6 DEF Safe
  <1> QED
    BY <1>6, <1>8, <1>9, <1>11 DEF IInv

-----------------------------------------------------------------------------
(* Reclaiming *)

\* The objects in the cells of G.
Dead(G) == {h \in Handles : Index(h) \in G /\ Valid(pool, h)}

\* Live cells without a root, and without an edge record from any other cell.
Condemned(G) ==
    /\ G \subseteq Cells /\ NoRecordInto(eng, G)
    /\ \A c \in G : pool.live[c] /\ eng.root[c] = 0

\* Nobody can get at the objects in G: neither the program nor a message of it.
Unused(G, L) ==
    /\ \A h \in Dead(G) : h \notin AtCut(L) /\ h \notin Reachable
    /\ \A p \in Producers : \A i \in 1..Len(Stream(p)) :
         Stream(p)[i].a \notin Dead(G) /\ Stream(p)[i].b \notin Dead(G)
    /\ \A p \in Producers : \A h \in Dead(G) : ~(bag[p][h] > 0)
    /\ \A q \in Pairs : q[2] \in Dead(G) /\ fields[q] > 0 => q[1] \in Dead(G)

\* What the table says of an account at the cut: a root or an edge record.
LEMMA TableAtCut ==
  ASSUME Safe, NEW L, Ledger(L), Table(L), NEW p \in Producers
  PROVE  /\ \A h \in Handles : L[p][RootAccount(h)][0] > 0 => eng.root[Index(h)] # 0
         /\ \A q \in Pairs : L[p][EdgeAccount(q)][0] > 0 => eng.out[q] > 0
         /\ \A x \in Accounts : L[p][x][0] \in Nat
  <1>1. L \in [Producers -> Ledgers]
    BY DEF Ledger
  <1>2. \A r \in Producers : \A x \in Accounts : L[r][x][0] \in Nat
    BY <1>1 DEF Ledgers
  <1>3. ASSUME NEW h \in Handles, L[p][RootAccount(h)][0] > 0 PROVE eng.root[Index(h)] # 0
    <2> DEFINE c == Index(h)
               S == RootSlots(c)
               f == RootsTold(L)
               t == <<p, h>>
    <2>1. c \in Cells /\ t \in S /\ f[t] = L[p][RootAccount(h)][0]
      BY HandlesFinite DEF RootSlots, RootsTold
    <2>2. IsFiniteSet(S) /\ S \subseteq Producers \X Handles
      BY RootSlotsFinite
    <2>3. \A y \in S : f[y] \in Nat
      BY <1>2, <2>2 DEF RootsTold, RootAccount, Accounts
    <2>4. eng.root[c] = Cardinality(Copies(S, f))
      BY <2>1 DEF Table
    <2> HIDE DEF S, f, t, c
    <2>5. f[t] <= Cardinality(Copies(S, f)) /\ f[t] \in Nat
      BY <2>1, <2>2, <2>3, CopiesBound
    <2>6. eng.root[c] # 0
      BY <1>3, <2>1, <2>4, <2>5
    <2> QED
      BY <2>6 DEF c
  <1>4. ASSUME NEW q \in Pairs, L[p][EdgeAccount(q)][0] > 0 PROVE eng.out[q] > 0
    <2>1. L[p][EdgeAccount(q)][0] = IF pool.owner[Index(q[1])] = p THEN eng.out[q] ELSE 0
      BY DEF Table
    <2> QED
      BY <1>4, <2>1
  <1> QED
    BY <1>2, <1>3, <1>4

\* An edge record is in its owner's account.
LEMMA RecordInLedger ==
  ASSUME Safe, NEW L, Table(L), NEW q \in Pairs, eng.out[q] > 0
  PROVE  \E p \in Producers : L[p][EdgeAccount(q)][0] > 0
  <1> DEFINE o == pool.owner[Index(q[1])]
  <1>1. Valid(pool, q[1]) /\ Index(q[1]) \in Cells
    BY HandlesFinite DEF Safe, TableSound, RecordsLive, Pairs
  <1>2. o \in Producers
    BY <1>1 DEF Safe, PoolSound, Valid
  <1>3. L[o][EdgeAccount(q)][0] = eng.out[q]
    BY <1>2 DEF Table
  <1> QED
    BY <1>2, <1>3

\* Condemned cells that existed at the cut are out of everybody's reach.
LEMMA CondemnedIsUnused ==
  ASSUME Safe, \A p \in Producers : left[p] = 0, NEW L, Ledger(L), Table(L),
         NEW K, Cut(L, K), NEW G, Condemned(G), \A h \in Dead(G) : h \in K
  PROVE  Unused(G, L)
  <1> DEFINE X == Dead(G)
  <1>1. StateType /\ RefsPresent /\ PoolSound /\ TableSound /\ X \subseteq Handles
    BY DEF Safe, Dead
  <1>2. ASSUME NEW q \in Pairs, eng.out[q] > 0, q[2] \in X PROVE q[1] \in X
    <2>1. Index(q[1]) \in G /\ Valid(pool, q[1]) /\ q[1] \in Handles
      BY <1>1, <1>2 DEF Condemned, NoRecordInto, Dead, TableSound, RecordsLive, Pairs
    <2> QED
      BY <2>1 DEF Dead
  <1>3. X \cap AtCut(L) = {}
    <2> DEFINE R == CutEdges(L)
               S == CutRoots(L)
    <2>1. S \subseteq Handles
      BY DEF CutRoots
    <2>2. S \cap X = {}
      <3> SUFFICES ASSUME NEW h \in S, h \in X PROVE FALSE
        OBVIOUS
      <3>1. PICK p \in Producers : L[p][RootAccount(h)][0] > 0
        BY DEF CutRoots
      <3>2. eng.root[Index(h)] # 0
        BY <1>1, <3>1, TableAtCut
      <3> QED
        BY <3>2 DEF Condemned, Dead
    <2>3. \A x \in Handles \ X : \A y \in X : <<x, y>> \notin R
      <3> SUFFICES ASSUME NEW x \in Handles \ X, NEW y \in X, <<x, y>> \in R PROVE FALSE
        OBVIOUS
      <3> DEFINE q == <<x, y>>
      <3>1. q \in Pairs /\ q[1] = x /\ q[2] = y
        BY <1>1 DEF Pairs
      <3>2. PICK p \in Producers : L[p][EdgeAccount(q)][0] > 0
        BY <3>1 DEF CutEdges
      <3>3. eng.out[q] > 0
        BY <3>1, <3>2, TableAtCut
      <3> QED
        BY <1>2, <3>1, <3>3
    <2>4. AtCut(L) = ReachIn(Handles, R, S)
      BY DEF AtCut
    <2> HIDE DEF R, S, X
    <2>5. ReachIn(Handles, R, S) \cap X = {}
      BY <1>1, <2>1, <2>2, <2>3, ReachAvoids
    <2> QED
      BY <2>4, <2>5
  <1>4. \A h \in X : h \notin AtCut(L) /\ h \notin Reachable /\ h \in K
    BY <1>3 DEF Cut
  <1>5. \A p \in Producers : \A i \in 1..Len(Stream(p)) :
           Stream(p)[i].a \notin X /\ Stream(p)[i].b \notin X
    <2> SUFFICES ASSUME NEW p \in Producers, NEW i \in 1..Len(Stream(p)),
                        NEW h \in {Stream(p)[i].a, Stream(p)[i].b}, h \in X
                 PROVE  FALSE
      OBVIOUS
    <2>1. ~(i <= left[p])
      OBVIOUS
    <2>2. h \in K => h \in AtCut(L)
      BY <2>1 DEF Cut
    <2> QED
      BY <1>4, <2>2
  <1>6. \A p \in Producers : \A h \in X : ~(bag[p][h] > 0)
    BY <1>1, <1>4, ReachableIs DEF Held
  <1>7. ASSUME NEW q \in Pairs, q[2] \in X, fields[q] > 0 PROVE q[1] \in X
    <2> DEFINE x == EdgeAccount(q)
               o == pool.owner[Index(q[1])]
               s == Stream(o)
               f == L[o][x]
    <2>1. /\ x \in Accounts /\ x[1] = "edge" /\ x[2] = q[1] /\ x[3] = q[2] /\ q = <<q[1], q[2]>>
          /\ q[1] \in Handles /\ Index(q[1]) \in Cells
      BY HandlesFinite DEF EdgeAccount, Accounts, Pairs
    <2>2. o \in Producers
      BY <1>1, <1>7, <2>1 DEF RefsPresent, PoolSound, Valid
    <2>3. Tally(f, s, x) /\ f[Len(s)] = Book(o, x) /\ Len(s) \in Nat
      BY <1>1, <2>1, <2>2, StreamType DEF Ledger, Keeps
    <2>4. Book(o, x) = fields[q]
      BY <2>1 DEF Book
    <2>5. \A k \in 1..Len(s) : Effect(s[k], x) = 0
      BY <1>5, <1>7, <2>1, <2>2 DEF Effect, Touches
    <2>6. f[Len(s)] = f[0]
      <3> HIDE DEF f, s, x
      <3>1. \A k \in (0 + 1)..Len(s) : Effect(s[k], x) = 0
        BY <2>5
      <3>2. 0 \in Nat /\ 0 <= Len(s) /\ Len(s) <= Len(s)
        BY <2>3
      <3> QED
        BY <2>3, <3>1, <3>2, TallyGap
    <2>7. eng.out[q] > 0
      BY <1>7, <2>2, <2>3, <2>4, <2>6, TableAtCut
    <2> QED
      BY <1>2, <1>7, <2>7
  <1> QED
    BY <1>4, <1>5, <1>6, <1>7 DEF Unused

\* A sweep reclaims the cells of G; b is the table after the candidates were taken.
Reclaims(G, b) ==
    /\ pool' = FreeSlots(pool, G) /\ DropFields(G) /\ Reclaimed(b, eng', G)
    /\ b.root = eng.root /\ b.edge = eng.edge /\ b.out = eng.out /\ b.errors = eng.errors
    /\ b.zero \subseteq eng.zero \ G /\ b.marks \subseteq eng.marks \ G
    /\ \A d \in b.marks : /\ d \notin b.stack => Total(eng, d) = 0
                          /\ Total(eng, d) = 0 => d \in b.zero
    /\ wpc \in {"zero", "cycle"} /\ wpc' \in {"zero", "cycle"}
    /\ wpc' = "cycle" => \A d \in b.zero : Total(eng, d) = 0
    /\ UNCHANGED <<bag, batch, queue, phase, wi, left, hot, stable>>

\* CellPool::free: the objects in G are gone, all others stay.
LEMMA FreedPool ==
  ASSUME StateType, PoolSound, NEW G, G \subseteq Cells, pool' = FreeSlots(pool, G)
  PROVE  /\ PoolType(pool', Producers) /\ PoolSound' /\ pool'.owner = pool.owner
         /\ \A c \in Cells \ G : pool'.live[c] = pool.live[c] /\ pool'.gen[c] = pool.gen[c]
         /\ \A h \in Handles : Valid(pool', h) <=> Valid(pool, h) /\ h \notin Dead(G)
  <1> DEFINE lv == [c \in Cells |-> IF c \in G THEN FALSE ELSE pool.live[c]]
             gn == [c \in Cells |-> IF c \in G /\ pool.gen[c] < MaxGen THEN pool.gen[c] + 1
                                    ELSE pool.gen[c]]
             av == pool.avail \cup {c \in G : pool.gen[c] < MaxGen}
  <1>1. /\ pool.live \in [Cells -> BOOLEAN] /\ pool.gen \in [Cells -> 0..MaxGen]
        /\ pool.avail \in SUBSET Cells /\ PoolType(pool, Producers) /\ MaxGen \in Nat
    BY EngineAssumption DEF StateType, PoolType
  <1>2. lv \in [Cells -> BOOLEAN] /\ gn \in [Cells -> 0..MaxGen] /\ av \in SUBSET Cells
    <2>1. lv \in [Cells -> BOOLEAN] /\ av \in SUBSET Cells
      BY <1>1
    <2>2. \A c \in Cells : gn[c] \in 0..MaxGen
      BY <1>1
    <2> QED
      BY <2>1, <2>2
  <1>3. pool' = [pool EXCEPT !.live = lv, !.gen = gn, !.avail = av]
    BY DEF FreeSlots
  <1>4. \A c \in Cells : /\ lv[c] = IF c \in G THEN FALSE ELSE pool.live[c]
                         /\ c \notin G => gn[c] = pool.gen[c]
    OBVIOUS
  <1>5. \A c \in av : c \in pool.avail \/ c \in G
    OBVIOUS
  <1> HIDE DEF lv, gn, av
  <1>6. /\ PoolType(pool', Producers) /\ pool'.owner = pool.owner
        /\ pool'.live = lv /\ pool'.gen = gn /\ pool'.avail = av
    BY <1>1, <1>2, <1>3 DEF PoolType
  <1>7. PoolSound'
    <2> SUFFICES ASSUME NEW c \in Cells
                 PROVE  /\ lv[c] => pool.owner[c] \in Producers
                        /\ c \in av => ~lv[c]
      BY <1>6 DEF PoolSound
    <2> QED
      BY <1>4, <1>5 DEF PoolSound
  <1>8. ASSUME NEW h \in Handles PROVE Valid(pool', h) <=> Valid(pool, h) /\ h \notin Dead(G)
    <2>1. Index(h) \in Cells
      BY HandlesFinite
    <2> QED
      BY <1>4, <1>6, <2>1 DEF Valid, Dead
  <1> QED
    BY <1>4, <1>6, <1>7, <1>8

\* Reclaiming what nobody uses keeps the program, its messages and the table sound.
LEMMA FreeSafe ==
  ASSUME Safe, NEW G, NEW b, Reclaims(G, b), Condemned(G), NEW L, Unused(G, L)
  PROVE  Safe'
  <1>1. /\ StateType /\ BatchesKept /\ MessagesSound /\ RefsPresent /\ PoolSound /\ TableSound
        /\ SuspectsQueued /\ RoundSound /\ G \subseteq Cells
    BY DEF Safe, Condemned
  <1>2. /\ PoolType(pool', Producers) /\ PoolSound' /\ pool'.owner = pool.owner
        /\ \A c \in Cells \ G : pool'.live[c] = pool.live[c] /\ pool'.gen[c] = pool.gen[c]
        /\ \A h \in Handles : Valid(pool', h) <=> Valid(pool, h) /\ h \notin Dead(G)
    BY <1>1, FreedPool DEF Reclaims
  <1>3. /\ EngineType(eng') /\ EdgesExact(eng') /\ eng'.errors = eng.errors
        /\ \A q \in Pairs : eng'.out[q] = IF Index(q[1]) \in G THEN 0 ELSE eng.out[q]
        /\ \A c \in Cells \ G : Total(eng', c) <= Total(eng, c)
    BY DEF Reclaims, Reclaimed, Total
  <1>4. PICK hit \in SUBSET (Cells \ G) : \E M \in SUBSET hit :
        /\ \A c \in (Cells \ G) \ hit : Total(eng', c) = Total(b, c)
        /\ \A c \in hit : \E q \in Pairs : b.out[q] > 0 /\ Index(q[1]) \in G /\ Index(q[2]) = c
        /\ eng'.zero = b.zero \cup {c \in hit : Total(eng', c) = 0}
        /\ eng'.marks = b.marks \cup M /\ eng'.stack = b.stack \cup M
    BY DEF Reclaims, Reclaimed
  <1>5. PICK M \in SUBSET hit :
        /\ \A c \in (Cells \ G) \ hit : Total(eng', c) = Total(eng, c)
        /\ \A c \in hit : \E q \in Pairs : eng.out[q] > 0 /\ Index(q[1]) \in G /\ Index(q[2]) = c
        /\ eng'.zero = b.zero \cup {c \in hit : Total(eng', c) = 0}
        /\ eng'.marks = b.marks \cup M /\ eng'.stack = b.stack \cup M
    <2>1. b.out = eng.out /\ \A c : Total(b, c) = Total(eng, c)
      BY DEF Reclaims, Total
    <2> QED
      BY <1>4, <2>1
  <1>6. fields' = [q \in Pairs |-> IF q[1] \in Dead(G) THEN 0 ELSE fields[q]]
    <2>1. fields' = [q \in Pairs |-> IF Index(q[1]) \in G /\ Valid(pool, q[1]) THEN 0 ELSE fields[q]]
      BY DEF Reclaims, DropFields, Pairs
    <2>2. \A q \in Pairs : q[1] \in Dead(G) <=> Index(q[1]) \in G /\ Valid(pool, q[1])
      BY DEF Dead, Pairs
    <2> QED
      BY <2>1, <2>2
  <1>7. StateType'
    <2>1. fields' \in [Pairs -> 0..MaxFields]
      <3>1. fields \in [Pairs -> 0..MaxFields] /\ 0 \in 0..MaxFields
        BY <1>1, RuntimeAssumption DEF StateType
      <3> QED
        BY <1>6, <3>1
    <2> QED
      BY <1>1, <1>2, <1>3, <2>1 DEF StateType, Reclaims
  <1>8. BatchesKept'
    BY <1>1 DEF BatchesKept, Reclaims
  <1>9. MessagesSound'
    <2> SUFFICES ASSUME NEW p \in Producers, NEW i \in 1..Len(Stream(p)')
                 PROVE  Sound(p, Stream(p)[i])'
      BY DEF MessagesSound
    <2>1. Stream(p)' = Stream(p)
      BY DEF Reclaims, Stream
    <2>2. PICK m : m = Stream(p)[i]
      OBVIOUS
    <2>3. /\ m \in Messages /\ Sound(p, m) /\ m.a \notin Dead(G) /\ m.b \notin Dead(G)
      BY <1>1, <2>1, <2>2, StreamType DEF MessagesSound, Unused
    <2>4. m.a \in Handles /\ m.b \in Handles
      BY <2>3 DEF Messages
    <2>5. Sound(p, m)'
      BY <1>2, <2>3, <2>4 DEF Sound
    <2> QED
      BY <2>1, <2>2, <2>5 DEF Sound
  <1>10. RefsPresent'
    <2>1. ASSUME NEW p \in Producers, NEW h \in Handles, bag'[p][h] > 0 PROVE Valid(pool', h)
      BY <1>1, <1>2, <2>1 DEF RefsPresent, Unused, Reclaims
    <2>2. ASSUME NEW q \in Pairs, fields'[q] > 0 PROVE Valid(pool', q[1]) /\ Valid(pool', q[2])
      <3>1. q[1] \notin Dead(G) /\ fields[q] > 0 /\ q[1] \in Handles /\ q[2] \in Handles
        BY <1>6, <2>2 DEF Pairs
      <3>2. q[2] \notin Dead(G)
        BY <3>1 DEF Unused
      <3> QED
        BY <1>1, <1>2, <3>1, <3>2 DEF RefsPresent
    <2> QED
      BY <2>1, <2>2 DEF RefsPresent
  <1>11. TableSound'
    <2>1. RecordsLive(eng', pool')
      <3> SUFFICES ASSUME NEW q \in Pairs, eng'.out[q] > 0
                   PROVE  Valid(pool', q[1]) /\ Valid(pool', q[2])
        BY DEF RecordsLive
      <3>1. Index(q[1]) \notin G /\ eng.out[q] > 0 /\ q[1] \in Handles /\ q[2] \in Handles
        BY <1>3 DEF Pairs
      <3>2. Index(q[2]) \notin G
        BY <3>1 DEF Condemned, NoRecordInto
      <3>3. Valid(pool, q[1]) /\ Valid(pool, q[2])
        BY <1>1, <3>1 DEF TableSound, RecordsLive
      <3> QED
        BY <1>2, <3>1, <3>2, <3>3 DEF Dead
    <2>2. ASSUME NEW c \in eng'.zero \cup eng'.marks PROVE pool'.live[c]
      <3>1. c \in Cells \ G /\ pool.live[c]
        <4>1. CASE c \in hit
          <5>1. PICK q \in Pairs : eng.out[q] > 0 /\ Index(q[2]) = c
            BY <1>5, <4>1
          <5> QED
            BY <1>1, <4>1, <5>1 DEF TableSound, RecordsLive, Valid
        <4>2. CASE c \in b.zero \cup b.marks
          BY <1>1, <4>2 DEF Reclaims, TableSound, StateType, EngineType, Engines
        <4> QED
          BY <1>5, <4>1, <4>2
      <3> QED
        BY <1>2, <3>1
    <2> QED
      BY <1>1, <1>3, <2>1, <2>2 DEF TableSound
  <1>12. SuspectsQueued'
    <2>1. \A c \in Cells : Total(eng, c) \in Nat /\ Total(eng', c) \in Nat
      BY <1>1, <1>3 DEF StateType, EngineType, Engines, Total
    <2>2. ASSUME NEW d \in eng'.marks
          PROVE  /\ Total(eng', d) = 0 => d \in eng'.zero
                 /\ d \notin eng'.stack => Total(eng', d) = 0
      <3>1. CASE d \in M
        BY <1>5, <3>1
      <3>2. CASE d \notin M
        <4>1. d \in b.marks /\ d \in Cells \ G
          BY <1>1, <1>5, <3>2 DEF Reclaims, StateType, EngineType, Engines
        <4>2. /\ d \notin b.stack => Total(eng, d) = 0
              /\ Total(eng, d) = 0 => d \in b.zero
          BY <4>1 DEF Reclaims
        <4>3. Total(eng', d) <= Total(eng, d)
          BY <1>3, <4>1
        <4>4. d \notin eng'.stack => Total(eng', d) = 0
          BY <1>5, <2>1, <4>1, <4>2, <4>3
        <4>5. Total(eng', d) = 0 => d \in eng'.zero
          <5>1. CASE d \in hit
            BY <1>5, <5>1
          <5>2. CASE d \notin hit
            <6>1. Total(eng', d) = Total(eng, d)
              BY <1>5, <4>1, <5>2
            <6> QED
              BY <1>5, <4>2, <6>1
          <5> QED
            BY <5>1, <5>2
        <4> QED
          BY <4>4, <4>5
      <3> QED
        BY <3>1, <3>2
    <2>3. ASSUME wpc' = "cycle", NEW d \in eng'.zero PROVE Total(eng', d) = 0
      <3>1. CASE d \in b.zero
        <4>1. d \in Cells \ G /\ Total(eng, d) = 0
          BY <1>1, <2>3, <3>1 DEF Reclaims, StateType, EngineType, Engines
        <4>2. Total(eng', d) <= Total(eng, d)
          BY <1>3, <4>1
        <4> QED
          BY <2>1, <4>1, <4>2
      <3>2. CASE d \notin b.zero
        BY <1>5, <3>2
      <3> QED
        BY <3>1, <3>2
    <2> QED
      BY <2>2, <2>3 DEF SuspectsQueued, Reclaims
  <1>13. RoundSound'
    BY <1>1 DEF RoundSound, Reclaims
  <1> QED
    BY <1>2, <1>7, <1>8, <1>9, <1>10, <1>11, <1>12, <1>13 DEF Safe

\* The balances after the objects in G have gone: their fields are nobody's.
Written(G, L, M) ==
    /\ M \in [Producers -> Ledgers]
    /\ \A p \in Producers : \A x \in Accounts :
         M[p][x] = IF x[1] = "edge" /\ x[2] \in Dead(G) THEN [i \in Nat |-> 0] ELSE L[p][x]

\* The accounts of reclaimed objects are closed; all others go on as they were.
LEMMA FreeLedger ==
  ASSUME Safe, NEW G, NEW b, Reclaims(G, b), Condemned(G), NEW L, Ledger(L), Table(L), Unused(G, L)
  PROVE  \E M : Written(G, L, M) /\ Ledger(M)' /\ Table(M)'
  <1> DEFINE z == [i \in Nat |-> 0]
  <1>0. PICK M : M = [p \in Producers |-> [x \in Accounts |->
                        IF x[1] = "edge" /\ x[2] \in Dead(G) THEN z ELSE L[p][x]]]
    OBVIOUS
  <1>1. StateType /\ RefsPresent /\ PoolSound /\ TableSound /\ L \in [Producers -> Ledgers]
        /\ G \subseteq Cells
    BY DEF Safe, Ledger, Condemned
  <1>2. z \in [Nat -> Nat] /\ z[0] = 0 /\ \A i \in Nat : z[i] = 0
    OBVIOUS
  <1> HIDE DEF z
  <1>3. \A p \in Producers : \A x \in Accounts :
           M[p][x] = IF x[1] = "edge" /\ x[2] \in Dead(G) THEN z ELSE L[p][x]
    BY <1>0
  <1>4. M \in [Producers -> Ledgers]
    <2>1. ASSUME NEW p \in Producers PROVE M[p] \in Ledgers
      <3>1. L[p] \in [Accounts -> [Nat -> Nat]]
        BY <1>1 DEF Ledgers
      <3>2. M[p] = [x \in Accounts |-> IF x[1] = "edge" /\ x[2] \in Dead(G) THEN z ELSE L[p][x]]
        BY <1>0
      <3> QED
        BY <1>2, <3>1, <3>2 DEF Ledgers
    <2> QED
      BY <1>0, <2>1
  <1>5. Written(G, L, M)
    BY <1>3, <1>4 DEF Written, z
  <1>6. /\ pool'.owner = pool.owner /\ bag' = bag /\ \A p : Stream(p)' = Stream(p)
    BY <1>1, FreedPool DEF Reclaims, Stream
  <1>7. \A q \in Pairs : fields'[q] = IF q[1] \in Dead(G) THEN 0 ELSE fields[q]
    BY DEF Reclaims, DropFields, Pairs, Dead
  <1>8. Ledger(M)'
    <2>1. ASSUME NEW p \in Producers, NEW x \in Accounts
          PROVE  Tally(M[p][x], Stream(p), x) /\ M[p][x][Len(Stream(p))] = Book(p, x)'
      <3>1. Tally(L[p][x], Stream(p), x) /\ L[p][x][Len(Stream(p))] = Book(p, x)
            /\ Len(Stream(p)) \in Nat
        BY <1>1, StreamType DEF Ledger, Keeps
      <3>2. x[2] \in Handles /\ x[3] \in Handles /\ <<x[2], x[3]>> \in Pairs /\ x[1] \in {"root", "edge"}
        BY DEF Accounts, Pairs
      <3>3. CASE x[1] = "edge" /\ x[2] \in Dead(G)
        <4>1. \A k \in 1..Len(Stream(p)) : Effect(Stream(p)[k], x) = 0
          BY <3>3 DEF Unused, Effect, Touches
        <4>2. Tally(z, Stream(p), x)
          BY <4>1, TallyIdle DEF z
        <4>3. Book(p, x)' = 0
          BY <1>7, <3>2, <3>3 DEF Book
        <4> QED
          BY <1>2, <1>3, <3>1, <3>3, <4>2, <4>3
      <3>4. CASE ~(x[1] = "edge" /\ x[2] \in Dead(G))
        <4>1. Book(p, x)' = Book(p, x)
          BY <1>6, <1>7, <3>2, <3>4 DEF Book
        <4> QED
          BY <1>3, <3>1, <3>4, <4>1
      <3> QED
        BY <3>3, <3>4
    <2> QED
      BY <1>4, <1>6, <2>1 DEF Ledger, Keeps
  <1>9. Table(M)'
    <2>1. RootsTold(M) = RootsTold(L)
      <3>1. \A t \in Producers \X Handles : M[t[1]][RootAccount(t[2])] = L[t[1]][RootAccount(t[2])]
        BY <1>3 DEF RootAccount, Accounts
      <3> QED
        BY <3>1 DEF RootsTold
    <2>2. ASSUME NEW c \in Cells PROVE eng'.root[c] = eng.root[c]
      BY DEF Reclaims, Reclaimed, Condemned
    <2>3. ASSUME NEW p \in Producers, NEW q \in Pairs
          PROVE  M[p][EdgeAccount(q)][0] = IF pool.owner[Index(q[1])] = p THEN eng'.out[q] ELSE 0
      <3> DEFINE x == EdgeAccount(q)
      <3>1. x \in Accounts /\ x[1] = "edge" /\ x[2] = q[1] /\ q[1] \in Handles
        BY DEF EdgeAccount, Accounts, Pairs
      <3>2. L[p][x][0] = IF pool.owner[Index(q[1])] = p THEN eng.out[q] ELSE 0
        BY DEF Table
      <3>3. eng'.out[q] = IF Index(q[1]) \in G THEN 0 ELSE eng.out[q]
        BY DEF Reclaims, Reclaimed
      <3>4. CASE q[1] \in Dead(G)
        BY <1>2, <1>3, <3>1, <3>3, <3>4 DEF Dead
      <3>5. CASE q[1] \notin Dead(G)
        <4>1. M[p][x] = L[p][x]
          BY <1>3, <3>1, <3>5
        <4>2. CASE Index(q[1]) \in G
          <5>1. ~Valid(pool, q[1])
            BY <3>1, <3>5, <4>2 DEF Dead
          <5>2. ~(eng.out[q] > 0) /\ eng.out[q] \in Nat
            BY <1>1, <5>1 DEF TableSound, RecordsLive, StateType, EngineType, Engines, Pairs
          <5>3. eng.out[q] = 0
            BY <5>2
          <5> QED
            BY <3>2, <3>3, <4>1, <4>2, <5>3
        <4>3. CASE Index(q[1]) \notin G
          BY <3>2, <3>3, <4>1, <4>3
        <4> QED
          BY <4>2, <4>3
      <3> QED
        BY <3>4, <3>5
    <2>4. \A c \in Cells : eng'.root[c] = Cardinality(Copies(RootSlots(c), RootsTold(M)))
      BY <2>1, <2>2 DEF Table
    <2> QED
      BY <1>6, <2>3, <2>4 DEF Table
  <1> QED
    BY <1>5, <1>8, <1>9

\* Root messages name one object, so the accounts of two stay empty.
LEMMA RootsAreSimple ==
  ASSUME Safe, NEW L, Ledger(L), NEW p \in Producers, NEW x \in Accounts, x[1] = "root",
         L[p][x][0] > 0
  PROVE  x[2] = x[3]
  <1> SUFFICES ASSUME x[2] # x[3] PROVE FALSE
    OBVIOUS
  <1> DEFINE s == Stream(p)
             f == L[p][x]
  <1>1. Tally(f, s, x) /\ f[Len(s)] = Book(p, x) /\ Len(s) \in Nat
    BY StreamType DEF Ledger, Keeps, Safe
  <1>2. \A k \in 1..Len(s) : Effect(s[k], x) = 0
    BY DEF Safe, MessagesSound, Sound, Effect, Touches
  <1>3. f[Len(s)] = f[0]
    <2> HIDE DEF f, s
    <2>1. \A k \in (0 + 1)..Len(s) : Effect(s[k], x) = 0
      BY <1>2
    <2>2. 0 \in Nat /\ 0 <= Len(s) /\ Len(s) <= Len(s)
      BY <1>1
    <2> QED
      BY <1>1, <2>1, <2>2, TallyGap
  <1>4. Book(p, x) = 0
    BY DEF Book
  <1>5. f[0] = 0 /\ f[0] > 0
    BY <1>1, <1>3, <1>4
  <1> HIDE DEF f
  <1> QED
    BY <1>5

\* What is left of the cut after a reclamation.
LEMMA FreeCut ==
  ASSUME Safe, NEW G, NEW b, Reclaims(G, b), Condemned(G), \A p \in Producers : left[p] = 0,
         NEW L, Ledger(L), Table(L), Unused(G, L), NEW M, Written(G, L, M), NEW K, Cut(L, K)
  PROVE  \E J : Cut(M, J)'
  <1>0. PICK J : J = K \ Dead(G)
    OBVIOUS
  <1>1. StateType /\ RefsPresent /\ PoolSound /\ TableSound /\ G \subseteq Cells
    BY DEF Safe, Condemned
  <1>2. /\ \A c \in Cells \ G : pool'.gen[c] = pool.gen[c]
        /\ \A h \in Handles : Valid(pool', h) <=> Valid(pool, h) /\ h \notin Dead(G)
    BY <1>1, FreedPool DEF Reclaims
  <1>3. left' = left /\ bag' = bag /\ \A p : Stream(p)' = Stream(p)
    BY DEF Reclaims, Stream
  <1>4. \A q \in Pairs : fields'[q] = IF q[1] \in Dead(G) THEN 0 ELSE fields[q]
    BY DEF Reclaims, DropFields, Pairs, Dead
  <1>5. ASSUME NEW p \in Producers, NEW x \in Accounts, M[p][x][0] > 0
        PROVE  M[p][x] = L[p][x] /\ ~(x[1] = "edge" /\ x[2] \in Dead(G))
    <2>1. PICK z : z = [i \in Nat |-> 0]
      OBVIOUS
    <2>2. ~(z[0] > 0)
      BY <2>1
    <2>3. M[p][x] = IF x[1] = "edge" /\ x[2] \in Dead(G) THEN z ELSE L[p][x]
      BY <2>1 DEF Written
    <2> QED
      BY <1>5, <2>2, <2>3
  <1>6. AtCut(M)' = AtCut(L)
    <2>1. CutRoots(M)' = CutRoots(L)
      <3>1. \A p \in Producers : \A h \in Handles : M[p][RootAccount(h)] = L[p][RootAccount(h)]
        BY DEF Written, RootAccount, Accounts
      <3> QED
        BY <1>3, <3>1 DEF CutRoots
    <2>2. ASSUME NEW x \in AtCut(L), NEW y \in Handles
          PROVE  <<x, y>> \in CutEdges(M)' <=> <<x, y>> \in CutEdges(L)
      <3>1. x \in Handles /\ x \notin Dead(G)
        BY <2>2 DEF AtCut, ReachIn, Unused
      <3>2. <<x, y>> \in Pairs /\ EdgeAccount(<<x, y>>) \in Accounts
            /\ EdgeAccount(<<x, y>>)[2] = x
        BY <3>1 DEF Pairs, EdgeAccount, Accounts
      <3>3. \A p \in Producers : M[p][EdgeAccount(<<x, y>>)] = L[p][EdgeAccount(<<x, y>>)]
        BY <3>1, <3>2 DEF Written
      <3> QED
        BY <1>3, <3>2, <3>3 DEF CutEdges
    <2> DEFINE R == CutEdges(L)
               R2 == CutEdges(M)'
               S == CutRoots(L)
    <2>3. S \subseteq Handles
      BY DEF CutRoots
    <2>4. AtCut(L) = ReachIn(Handles, R, S) /\ AtCut(M)' = ReachIn(Handles, R2, S)
      BY <2>1 DEF AtCut
    <2>5. \A x \in AtCut(L) : \A y \in Handles : <<x, y>> \in R2 <=> <<x, y>> \in R
      BY <2>2
    <2> HIDE DEF R, R2, S
    <2>6. ReachIn(Handles, R2, S) = ReachIn(Handles, R, S)
      BY <2>3, <2>4, <2>5, ReachSame
    <2> QED
      BY <2>4, <2>6
  <1>7. Reachable' \subseteq Reachable
    <2>1. PICK Y : Y = Reachable
      OBVIOUS
    <2>2. \A p \in Producers : \A h \in Handles : bag'[p][h] > 0 => h \in Y
      BY <1>3, <2>1, ReachableIs DEF Held
    <2>3. \A q \in Pairs : fields'[q] > 0 /\ q[1] \in Y => q[2] \in Y
      BY <1>4, <2>1, ReachableIs
    <2>4. Y \in SUBSET Handles
      BY <2>1, ReachableIs
    <2>5. Reachable' \subseteq Y
      BY <2>2, <2>3, <2>4, ReachableBound
    <2> QED
      BY <2>1, <2>5
  <1>8. \A h \in J : h \in Handles /\ Valid(pool', h) /\ (h \in Reachable' => h \in AtCut(M)')
    BY <1>0, <1>2, <1>6, <1>7 DEF Cut
  <1>9. ASSUME NEW p \in Producers, NEW i \in 1..Len(Stream(p)'),
               NEW h \in {Stream(p)'[i].a, Stream(p)'[i].b}
        PROVE  IF i <= left'[p] THEN h \in J ELSE h \in J => h \in AtCut(M)'
    <2>1. ~(i <= left'[p]) /\ ~(i <= left[p])
      BY <1>3
    <2>2. h \in K => h \in AtCut(L)
      BY <1>3, <2>1 DEF Cut
    <2> QED
      BY <1>0, <1>6, <2>1, <2>2
  <1>10. ASSUME NEW p \in Producers, NEW x \in Accounts, NEW i \in 0..left'[p], M[p][x][i] > 0
         PROVE  x[2] \in J /\ x[3] \in J
    <2>1. i = 0 /\ 0 \in 0..left[p]
      BY <1>3
    <2>2. L[p][x][0] > 0 /\ ~(x[1] = "edge" /\ x[2] \in Dead(G))
      BY <1>5, <1>10, <2>1
    <2>3. x[2] \in K /\ x[3] \in K
      BY <2>1, <2>2 DEF Cut
    <2>4. x[1] \in {"root", "edge"} /\ x[2] \in Handles /\ x[3] \in Handles /\ x = <<x[1], x[2], x[3]>>
      BY DEF Accounts
    <2>5. CASE x[1] = "edge"
      <3> DEFINE q == <<x[2], x[3]>>
      <3>1. q \in Pairs /\ EdgeAccount(q) = x /\ q[1] = x[2] /\ q[2] = x[3]
        BY <2>4, <2>5 DEF Pairs, EdgeAccount
      <3>2. eng.out[q] > 0
        BY <2>2, <3>1, TableAtCut
      <3>3. x[2] \notin Dead(G)
        BY <2>2, <2>5
      <3>4. Valid(pool, x[2])
        BY <1>1, <3>1, <3>2 DEF TableSound, RecordsLive
      <3>5. Index(x[2]) \notin G
        BY <2>4, <3>3, <3>4 DEF Dead
      <3>6. x[3] \notin Dead(G)
        BY <3>1, <3>2, <3>5 DEF Condemned, NoRecordInto, Dead
      <3> QED
        BY <1>0, <2>3, <3>3, <3>6
    <2>6. CASE x[1] = "root"
      <3>1. x[2] = x[3]
        BY <2>2, <2>6, RootsAreSimple
      <3>2. x = RootAccount(x[2])
        BY <2>4, <2>6, <3>1 DEF RootAccount
      <3>3. eng.root[Index(x[2])] # 0
        BY <2>2, <2>4, <3>2, TableAtCut
      <3>4. x[2] \notin Dead(G)
        BY <3>3 DEF Condemned, Dead
      <3> QED
        BY <1>0, <2>3, <3>1, <3>4
    <2> QED
      BY <2>4, <2>5, <2>6
  <1>11. ASSUME NEW c \in eng'.zero \cup eng'.marks PROVE <<c, pool'.gen[c]>> \in J
    <2>1. \/ c \in b.zero \cup b.marks
          \/ \E q \in Pairs : c \in Cells \ G /\ b.out[q] > 0 /\ Index(q[2]) = c
      BY <1>11 DEF Reclaims, Reclaimed
    <2>2. c \in Cells \ G /\ <<c, pool.gen[c]>> \in K
      <3>1. CASE c \in b.zero \cup b.marks
        BY <1>1, <3>1 DEF Reclaims, StateType, EngineType, Engines, Cut
      <3>2. CASE \E q \in Pairs : c \in Cells \ G /\ b.out[q] > 0 /\ Index(q[2]) = c
        <4>1. PICK q \in Pairs : c \in Cells \ G /\ eng.out[q] > 0 /\ Index(q[2]) = c
          BY <3>2 DEF Reclaims
        <4>2. PICK p \in Producers : L[p][EdgeAccount(q)][0] > 0
          BY <4>1, RecordInLedger
        <4>3. EdgeAccount(q) \in Accounts /\ EdgeAccount(q)[3] = q[2] /\ q[2] \in Handles
          BY DEF EdgeAccount, Accounts, Pairs
        <4>4. q[2] \in K
          <5>1. 0 \in 0..left[p]
            OBVIOUS
          <5> QED
            BY <4>2, <4>3, <5>1 DEF Cut
        <4>5. q[2] = <<c, pool.gen[c]>>
          BY <1>1, <4>1, <4>3, HandlesFinite DEF TableSound, RecordsLive, Valid
        <4> QED
          BY <4>1, <4>4, <4>5
      <3> QED
        BY <2>1, <3>1, <3>2
    <2>3. <<c, pool.gen[c]>> \notin Dead(G)
      BY <2>2 DEF Dead, Index
    <2> QED
      BY <1>0, <1>2, <2>2, <2>3
  <1>12. Cut(M, J)'
    BY <1>8, <1>9, <1>10, <1>11 DEF Cut
  <1> QED
    BY <1>12

\* What a sweep does to the heap: nothing, or it removes objects nobody can reach.
Sweeps ==
    \/ UNCHANGED <<pool, fields>>
    \/ \E G \in SUBSET Cells : /\ pool' = FreeSlots(pool, G) /\ DropFields(G)
                              /\ \A h \in Dead(G) : h \notin Reachable

\* A sweep keeps the invariant when what it reclaims was condemned at the cut.
LEMMA FreeStep ==
  ASSUME Safe, NEW G, NEW b, Reclaims(G, b), Condemned(G), NEW L, Ledger(L), Table(L),
         NEW K, Cut(L, K), \A h \in Dead(G) : h \in K
  PROVE  IInv' /\ Sweeps
  <1>1. \A p \in Producers : left[p] = 0
    BY DEF Safe, RoundSound, Reclaims
  <1>2. Unused(G, L)
    BY <1>1, CondemnedIsUnused
  <1>3. Safe'
    BY <1>2, FreeSafe
  <1>4. PICK M : Written(G, L, M) /\ Ledger(M)' /\ Table(M)'
    BY <1>2, FreeLedger
  <1>5. \E J : Cut(M, J)'
    BY <1>1, <1>2, <1>4, FreeCut
  <1>6. Sweeps
    BY <1>2 DEF Sweeps, Reclaims, Condemned, Unused
  <1> QED
    BY <1>3, <1>4, <1>5, <1>6 DEF IInv

\* The cells a round may look at all existed at its cut: edge records lead from the
\* objects of K to objects of K.
LEMMA RecordsInCut ==
  ASSUME Safe, NEW L, Table(L), NEW K, Cut(L, K), NEW q \in Pairs, eng.out[q] > 0
  PROVE  q[2] \in K /\ q[2] = <<Index(q[2]), pool.gen[Index(q[2])]>>
  <1>1. PICK p \in Producers : L[p][EdgeAccount(q)][0] > 0
    BY RecordInLedger
  <1>2. EdgeAccount(q) \in Accounts /\ EdgeAccount(q)[3] = q[2] /\ q[2] \in Handles
    BY DEF EdgeAccount, Accounts, Pairs
  <1>3. 0 \in 0..left[p]
    BY DEF Safe, StateType
  <1>4. q[2] \in K
    BY <1>1, <1>2, <1>3 DEF Cut
  <1>5. Valid(pool, q[2])
    BY DEF Safe, TableSound, RecordsLive
  <1> QED
    BY <1>2, <1>4, <1>5, HandlesFinite DEF Valid

\* A live cell has one object in it.
LEMMA DeadIs ==
  ASSUME StateType, NEW G, G \subseteq Cells, NEW K, \A c \in G : <<c, pool.gen[c]>> \in K
  PROVE  \A h \in Dead(G) : h \in K
  <1> SUFFICES ASSUME NEW h \in Dead(G) PROVE h \in K
    OBVIOUS
  <1>1. h \in Handles /\ Index(h) \in G /\ Valid(pool, h)
    BY DEF Dead
  <1>2. h = <<Index(h), pool.gen[Index(h)]>>
    BY <1>1, HandlesFinite DEF Valid
  <1> QED
    BY <1>1, <1>2

\* sweepZero: a candidate is reclaimed when nothing refers to it, else dropped.
LEMMA SweepZeroStep ==
  ASSUME IInv, SweepZero
  PROVE  IInv' /\ Sweeps
  <1>1. Safe /\ StateType /\ TableSound /\ SuspectsQueued /\ Sweeping /\ wpc = "zero"
    BY DEF IInv, Safe, SweepZero, Sweeping
  <1>2. PICK L : Ledger(L) /\ Table(L) /\ \E K : Cut(L, K)
    BY <1>1 DEF IInv
  <1>3. PICK K : Cut(L, K)
    BY <1>2
  <1>4. PICK c \in eng.zero :
          LET popped == [eng EXCEPT !.zero = @ \ {c}] IN
          IF IsZeroGarbage(popped, pool, c)
          THEN /\ eng' = ReclaimCell(popped, pool, c)
               /\ pool' = FreeSlots(pool, {c}) /\ DropFields({c})
          ELSE eng' = popped /\ UNCHANGED <<pool, fields>>
    BY DEF SweepZero
  <1>5. PICK e : e = [eng EXCEPT !.zero = @ \ {c}]
    OBVIOUS
  <1>6. /\ c \in Cells /\ pool.live[c] /\ EngineType(eng) /\ EngineType(e)
        /\ e.root = eng.root /\ e.edge = eng.edge /\ e.out = eng.out /\ e.errors = eng.errors
        /\ e.zero = eng.zero \ {c} /\ e.marks = eng.marks /\ e.stack = eng.stack
    <2>1. EngineType(eng) /\ c \in Cells /\ pool.live[c]
      BY <1>1 DEF StateType, EngineType, Engines, TableSound
    <2> QED
      BY <1>5, <2>1 DEF EngineType, Engines
  <1>7. \A d : Total(e, d) = Total(eng, d)
    BY <1>6 DEF Total
  <1>8. UNCHANGED <<bag, batch, queue, phase, wpc, wi, left, hot, stable>>
    BY DEF SweepZero, roundVars
  <1>9. CASE IsZeroGarbage(e, pool, c)
    <2>1. eng' = ReclaimCell(e, pool, c) /\ pool' = FreeSlots(pool, {c}) /\ DropFields({c})
      BY <1>4, <1>5, <1>9
    <2>2. eng.root[c] = 0 /\ eng.edge[c] = 0
      <3>1. eng.root[c] + eng.edge[c] = 0 /\ eng.root[c] \in Nat /\ eng.edge[c] \in Nat
        BY <1>6, <1>7, <1>9 DEF IsZeroGarbage, Total, EngineType, Engines
      <3> QED
        BY <3>1
    <2>3. EdgesExact(e) /\ RecordsLive(e, pool)
      BY <1>1, <1>6 DEF TableSound, EdgesExact, RecordsLive
    <2>4. Reclaimed(ClearSuspects(e, {c}), ReclaimCell(e, pool, c), {c}) /\ NoRecordInto(e, {c})
      BY <1>6, <2>2, <2>3, ReclaimCellExact
    <2>5. PICK b : b = ClearSuspects(e, {c})
      OBVIOUS
    <2>6. /\ b.root = eng.root /\ b.edge = eng.edge /\ b.out = eng.out /\ b.errors = eng.errors
          /\ b.zero = eng.zero \ {c} /\ b.marks = eng.marks \ {c} /\ b.stack = eng.stack
      BY <1>6, <2>5 DEF ClearSuspects, EngineType, Engines
    <2>7. Condemned({c})
      BY <1>6, <2>2, <2>4 DEF Condemned, NoRecordInto
    <2>8. Reclaims({c}, b)
      <3>1. Reclaimed(b, eng', {c})
        BY <2>1, <2>4, <2>5
      <3>2. \A d \in b.marks : /\ d \notin b.stack => Total(eng, d) = 0
                               /\ Total(eng, d) = 0 => d \in b.zero
        BY <1>1, <2>6 DEF SuspectsQueued
      <3> QED
        BY <1>1, <1>8, <2>1, <2>6, <3>1, <3>2 DEF Reclaims
    <2>9. \A h \in Dead({c}) : h \in K
      <3>1. \A d \in {c} : <<d, pool.gen[d]>> \in K
        BY <1>3 DEF Cut
      <3> QED
        BY <1>1, <1>6, <3>1, DeadIs
    <2> QED
      BY <1>1, <1>2, <1>3, <2>7, <2>8, <2>9, FreeStep
  <1>10. CASE ~IsZeroGarbage(e, pool, c)
    <2>1. eng' = e /\ UNCHANGED <<pool, fields>>
      BY <1>4, <1>5, <1>10
    <2>2. Total(eng, c) # 0
      BY <1>6, <1>7, <1>10 DEF IsZeroGarbage
    <2>3. \A p : Stream(p)' = Stream(p)
      BY <1>8 DEF Stream
    <2>4. Safe'
      <3>1. StateType'
        BY <1>1, <1>6, <1>8, <2>1 DEF StateType
      <3>2. BatchesKept' /\ RefsPresent' /\ PoolSound' /\ RoundSound'
        BY <1>1, <1>8, <2>1 DEF Safe, BatchesKept, RefsPresent, PoolSound, RoundSound
      <3>3. MessagesSound'
        BY <1>1, <2>1, <2>3 DEF Safe, MessagesSound, Sound
      <3>4. TableSound'
        BY <1>1, <1>6, <2>1 DEF TableSound, EdgesExact, RecordsLive
      <3>5. SuspectsQueued'
        <4>1. \A d : Total(eng', d) = Total(eng, d)
          BY <1>7, <2>1
        <4> QED
          BY <1>1, <1>6, <1>8, <2>1, <2>2, <4>1 DEF SuspectsQueued
      <3> QED
        BY <3>1, <3>2, <3>3, <3>4, <3>5 DEF Safe
    <2>5. Ledger(L)' /\ Table(L)'
      <3>1. \A p, x : Book(p, x)' = Book(p, x)
        BY <1>8, <2>1 DEF Book
      <3>2. Ledger(L)'
        BY <1>2, <2>3, <3>1 DEF Ledger
      <3> QED
        BY <1>2, <1>6, <2>1, <3>2 DEF Table
    <2>6. Cut(L, K)'
      <3>1. AtCut(L)' = AtCut(L) /\ Reachable' = Reachable
        BY <1>8, <2>1 DEF AtCut, CutRoots, CutEdges, Reachable, Edges, Held
      <3> QED
        BY <1>3, <1>6, <1>8, <2>1, <2>3, <3>1 DEF Cut
    <2>7. Sweeps
      BY <2>1 DEF Sweeps
    <2> QED
      BY <2>4, <2>5, <2>6, <2>7 DEF IInv
  <1> QED
    BY <1>9, <1>10

\* collectCyclePass: what the scan visits existed at the cut, so the components it
\* condemns are garbage.
LEMMA CyclePassStep ==
  ASSUME IInv, CyclePass
  PROVE  IInv' /\ Sweeps
  <1>1. Safe /\ StateType /\ TableSound /\ SuspectsQueued /\ Sweeping /\ wpc = "cycle"
    BY DEF IInv, Safe, CyclePass, Sweeping
  <1>2. PICK L : Ledger(L) /\ Table(L) /\ \E K : Cut(L, K)
    BY <1>1 DEF IInv
  <1>3. PICK K : Cut(L, K)
    BY <1>2
  <1>4. PICK G : G = GarbageIn(eng, pool)
    OBVIOUS
  <1>5. PICK b : b = Scanned(eng, pool)
    OBVIOUS
  <1>6. PICK V : V = Visited(eng, pool)
    OBVIOUS
  <1>7. /\ eng' = ReclaimCycles(eng, pool, G) /\ pool' = FreeSlots(pool, G) /\ DropFields(G)
        /\ wpc' = IF G = {} THEN "zero" ELSE "cycle"
        /\ UNCHANGED <<bag, batch, queue, phase, wi, left, hot, stable>>
    BY <1>4 DEF CyclePass, roundVars
  <1>8. EngineType(eng) /\ EdgesExact(eng) /\ RecordsLive(eng, pool)
    BY <1>1 DEF StateType, TableSound
  <1>9. /\ G \subseteq V /\ G \subseteq Cells /\ NoRecordInto(eng, G)
        /\ \A c \in G : pool.live[c] /\ Total(eng, c) > 0 /\ eng.root[c] = 0
    BY <1>4, <1>6, <1>8, GarbageIsClosed
  <1>10. ScanRoots(eng, pool) \subseteq V
    BY <1>6, <1>8, VisitedIsCounted
  <1>11. /\ b.root = eng.root /\ b.edge = eng.edge /\ b.out = eng.out /\ b.errors = eng.errors
         /\ b.zero = eng.zero /\ b.marks = eng.marks \ V /\ b.stack = {}
    BY <1>5, <1>6, <1>8 DEF Scanned, ClearSuspects, EngineType, Engines
  <1>12. Condemned(G)
    BY <1>9 DEF Condemned
  <1>13. Reclaims(G, b)
    <2>1. Reclaimed(b, eng', G)
      BY <1>4, <1>5, <1>7, <1>8, ReclaimCyclesExact
    <2>2. \A d \in eng.zero : Total(eng, d) = 0
      BY <1>1 DEF SuspectsQueued
    <2>3. b.zero \subseteq eng.zero \ G
      <3> SUFFICES ASSUME NEW d \in eng.zero, d \in G PROVE FALSE
        BY <1>11
      <3>1. Total(eng, d) = 0 /\ Total(eng, d) > 0
        BY <1>9, <2>2
      <3> QED
        BY <3>1
    <2>4. b.marks \subseteq eng.marks \ G
      BY <1>9, <1>11
    <2>5. ASSUME NEW d \in b.marks
          PROVE  Total(eng, d) = 0 /\ (Total(eng, d) = 0 => d \in b.zero)
      <3>1. d \in eng.marks /\ d \notin V /\ d \in Cells /\ pool.live[d]
        BY <1>1, <1>8, <1>11 DEF EngineType, Engines, TableSound
      <3>2. Total(eng, d) \in Nat
        BY <1>8, <3>1 DEF EngineType, Engines, Total
      <3>3. d \in eng.stack => ~(Total(eng, d) > 0)
        BY <1>10, <3>1 DEF ScanRoots
      <3>4. Total(eng, d) = 0
        BY <1>1, <3>1, <3>2, <3>3 DEF SuspectsQueued
      <3> QED
        BY <1>1, <1>11, <3>1, <3>4 DEF SuspectsQueued
    <2>6. \A d \in b.zero : Total(eng, d) = 0
      BY <1>11, <2>2
    <2> QED
      BY <1>1, <1>7, <1>11, <2>1, <2>3, <2>4, <2>5, <2>6 DEF Reclaims
  <1>14. \A h \in Dead(G) : h \in K
    <2> DEFINE X == {c \in Cells : <<c, pool.gen[c]>> \in K}
               R == GraphOf(eng, pool)
               S == ScanRoots(eng, pool)
    <2>1. S \subseteq X
      BY <1>3, <1>8 DEF ScanRoots, EngineType, Engines, Cut
    <2>2. ClosedIn(Cells, R, X)
      <3> SUFFICES ASSUME NEW x \in X, NEW y \in Cells, <<x, y>> \in R PROVE y \in X
        BY DEF ClosedIn
      <3>1. PICK q \in Pairs : eng.out[q] > 0 /\ <<x, y>> = <<Index(q[1]), Index(q[2])>>
        BY DEF GraphOf, Pairs
      <3>2. q[2] \in K /\ q[2] = <<y, pool.gen[y]>>
        BY <1>1, <1>2, <1>3, <3>1, RecordsInCut
      <3> QED
        BY <3>2
    <2>3. X \subseteq Cells /\ V = ReachIn(Cells, R, S)
      BY <1>6 DEF Visited
    <2> HIDE DEF R, S
    <2>4. V \subseteq X
      <3> HIDE DEF X
      <3> QED
        BY <2>1, <2>2, <2>3, ReachLeast
    <2>5. \A c \in G : <<c, pool.gen[c]>> \in K
      BY <1>9, <2>4
    <2> QED
      BY <1>1, <1>9, <2>5, DeadIs
  <1> QED
    BY <1>1, <1>2, <1>3, <1>12, <1>13, <1>14, FreeStep


-----------------------------------------------------------------------------
(* The theorems *)

\* Every step of mutators and worker keeps the invariant.
LEMMA NextInv ==
  ASSUME OwnFields, IInv, [Next]_vars
  PROVE  IInv'
  <1>1. CASE BeginRound
    BY <1>1, BeginRoundStep
  <1>2. CASE ReadTail
    BY <1>2, ReadTailStep
  <1>3. CASE Drain
    BY <1>3, DrainStep
  <1>4. CASE EndDrain \/ SweepZeroDone
    BY <1>4, PhaseStep
  <1>5. CASE SweepZero
    BY <1>5, SweepZeroStep
  <1>6. CASE CyclePass
    BY <1>6, CyclePassStep
  <1>7. ASSUME NEW p \in Producers, MutatorStep(p) PROVE IInv'
    <2>1. CASE Alloc(p)
      BY <2>1, AllocStep
    <2>2. CASE Flush(p)
      BY <2>2, FlushStep
    <2>3. CASE Push(p)
      BY <2>3, PushStep
    <2>4. CASE Close(p)
      BY <2>4, CloseStep
    <2>5. ASSUME NEW h \in Handles, AddRoot(p, h) \/ RemoveRoot(p, h) \/ CloseRoot(p, h)
          PROVE  IInv'
      BY <2>5, RootStep
    <2>6. ASSUME NEW a \in Handles, NEW b \in Handles, AddEdge(p, a, b) \/ RemoveEdge(p, a, b)
          PROVE  IInv'
      BY <2>6, EdgeStep
    <2> QED
      BY <1>7, <2>1, <2>2, <2>3, <2>4, <2>5, <2>6 DEF MutatorStep
  <1>8. CASE UNCHANGED vars
    BY <1>8, StutterStep DEF vars, mutVars, roundVars, heapVars
  <1> QED
    BY <1>1, <1>2, <1>3, <1>4, <1>5, <1>6, <1>7, <1>8 DEF Next, WorkerStep

\* The invariant holds in every reachable state: for any number of mutators, cells,
\* generations, operations and batch sizes, folded or not.
THEOREM RuntimeInvariant ==
  ASSUME OwnFields
  PROVE  Spec => []IInv
  <1>1. Init => IInv
    BY InitInv
  <1>2. IInv /\ [Next]_vars => IInv'
    BY NextInv
  <1> QED
    BY <1>1, <1>2, PTL DEF Spec

\* The tables, bags, fields, batches and the round keep their types (TypeOK); a
\* published batch never exceeds batchLimit.
THEOREM RuntimeTypes ==
  ASSUME OwnFields
  PROVE  Spec => []TypeOK
  <1>1. IInv => TypeOK
    BY DEF IInv, Safe, StateType, BatchesKept, TypeOK, Pairs
  <1> QED
    BY <1>1, RuntimeInvariant, PTL

\* The worker never reclaims an object some mutator can still reach (ReachableIsLive),
\* whatever is staged, queued or half drained when it sweeps.
THEOREM CollectorIsSafe ==
  ASSUME OwnFields
  PROVE  Spec => []ReachableIsLive
  <1>1. IInv => ReachableIsLive
    BY ReachablePresent DEF IInv, Safe
  <1> QED
    BY <1>1, RuntimeInvariant, PTL

\* No message is refused, and when nothing is in flight the counts and edge records
\* are exactly the program's roots and fields (TableIsExact).
THEOREM TableAgrees ==
  ASSUME OwnFields
  PROVE  Spec => []TableIsExact
  <1>1. IInv => TableIsExact
    BY QuietTable
  <1> QED
    BY <1>1, RuntimeInvariant, PTL

\* markPossibleCycle never leaves a cell marked that no later sweep will look at
\* (SuspectIsQueued).
THEOREM MarksAreQueued ==
  ASSUME OwnFields
  PROVE  Spec => []SuspectIsQueued
  <1>1. IInv => SuspectIsQueued
    BY SuspectsAreQueued DEF IInv, Safe
  <1> QED
    BY <1>1, RuntimeInvariant, PTL


-----------------------------------------------------------------------------
(* The refinement *)

\* What the abstract heap calls accessible is what the program can reach.
LEMMA AccessibleIs == Heap!Accessible = Reachable
  <1>1. Heap!HeldByAny = UNION {Held(p) : p \in Producers}
    BY DEF Heap!HeldByAny, Held
  <1>2. Heap!References = Edges
    BY DEF Heap!References, Edges
  <1>3. \A N, R, S : Heap!ReachIn(N, R, S) = ReachIn(N, R, S)
    BY DEF Heap!ReachIn, ReachIn, Heap!ClosedIn, ClosedIn
  <1> QED
    BY <1>1, <1>2, <1>3 DEF Heap!Accessible, Reachable

\* The empty runtime is the empty heap.
LEMMA HeapStarts == Init => Heap!Init
  <1> SUFFICES ASSUME Init PROVE Heap!Init
    OBVIOUS
  <1>1. ASSUME NEW h \in Handles PROVE ~Valid(pool, h)
    <2>1. Index(h) \in Cells
      BY HandlesFinite
    <2> QED
      BY <2>1 DEF Init, EmptyPool, Valid
  <1> QED
    BY <1>1 DEF Init, NothingInFlight, Heap!Init

\* A step that leaves the pool, the bags and the fields alone is invisible.
LEMMA Invisible ==
  ASSUME UNCHANGED <<pool, bag, fields>>
  PROVE  UNCHANGED Heap!vars
  BY DEF Heap!vars

\* Mutator::alloc allocates; the name of the new object was not in use.
LEMMA AllocRefines ==
  ASSUME IInv, NEW p \in Producers, Alloc(p)
  PROVE  Heap!Next
  <1>1. StateType /\ PoolSound
    BY DEF IInv, Safe
  <1>2. PICK c \in pool.avail : pool' = Activate(pool, c, p) /\ Gain(p, <<c, pool.gen[c]>>)
    BY DEF Alloc
  <1>3. PICK h : h = <<c, pool.gen[c]>>
    OBVIOUS
  <1>4. /\ c \in Cells /\ ~pool.live[c] /\ pool.gen[c] \in 0..MaxGen
        /\ pool.live \in [Cells -> BOOLEAN]
    BY <1>1 DEF StateType, PoolType, PoolSound
  <1>5. h \in Handles /\ Index(h) = c /\ ~Valid(pool, h)
    BY <1>3, <1>4 DEF Handles, Index, Valid
  <1>6. ASSUME NEW g \in Handles PROVE Valid(pool', g) <=> Valid(pool, g) \/ g = h
    <2>1. Index(g) \in Cells /\ g = <<Index(g), Gen(g)>>
      BY HandlesFinite DEF Handles, Index, Gen
    <2> QED
      BY <1>1, <1>2, <1>3, <1>4, <2>1 DEF Activate, Valid, Index, Gen, StateType, PoolType
  <1>7. Heap!Allocate(p, h)
    BY <1>2, <1>3, <1>5, <1>6 DEF Heap!Allocate, Alloc, Gain
  <1> QED
    BY <1>5, <1>7 DEF Heap!Next

\* rootAdd acquires, rootRemove and close release.
LEMMA RootRefines ==
  ASSUME NEW p \in Producers, NEW h \in Handles,
         AddRoot(p, h) \/ RemoveRoot(p, h) \/ CloseRoot(p, h)
  PROVE  Heap!Next
  <1>1. UNCHANGED <<pool, fields>>
    BY DEF AddRoot, RemoveRoot, CloseRoot
  <1>2. Heap!Acquire(p, h) \/ Heap!Release(p, h)
    BY <1>1, AccessibleIs
       DEF AddRoot, RemoveRoot, CloseRoot, Gain, Lose, Heap!Acquire, Heap!Release
  <1> QED
    BY <1>2 DEF Heap!Next

\* edgeAdd stores, edgeRemove clears.
LEMMA EdgeRefines ==
  ASSUME NEW p \in Producers, NEW a \in Handles, NEW b \in Handles,
         AddEdge(p, a, b) \/ RemoveEdge(p, a, b)
  PROVE  Heap!Next
  <1>1. UNCHANGED <<pool, bag>> /\ a \in Reachable
    BY ReachableIs DEF AddEdge, RemoveEdge, MayWrite
  <1>2. Heap!Store(a, b) \/ Heap!Clear(a, b)
    BY <1>1, AccessibleIs DEF AddEdge, RemoveEdge, Heap!Store, Heap!Clear
  <1> QED
    BY <1>2 DEF Heap!Next

\* A sweep collects objects nobody can reach, or is invisible.
LEMMA SweepRefines ==
  ASSUME IInv, Sweeps, UNCHANGED bag
  PROVE  Heap!Next \/ UNCHANGED Heap!vars
  <1>1. StateType /\ PoolSound
    BY DEF IInv, Safe
  <1>2. CASE UNCHANGED <<pool, fields>>
    BY <1>2, Invisible
  <1>3. ASSUME NEW G \in SUBSET Cells, pool' = FreeSlots(pool, G), DropFields(G),
               \A h \in Dead(G) : h \notin Reachable
        PROVE  Heap!Next \/ UNCHANGED Heap!vars
    <2>1. \A h \in Handles : Valid(pool', h) <=> Valid(pool, h) /\ h \notin Dead(G)
      BY <1>1, <1>3, FreedPool
    <2>2. PICK S : S = Dead(G)
      OBVIOUS
    <2>3. \A h : h \in S <=> h \in Handles /\ Index(h) \in G /\ Valid(pool, h)
      BY <2>2 DEF Dead
    <2>4. fields' = [q \in Handles \X Handles |-> IF q[1] \in S THEN 0 ELSE fields[q]]
      BY <1>3, <2>3 DEF DropFields
    <2>5. {h \in Handles : Valid(pool', h)} = {h \in Handles : Valid(pool, h)} \ S
      BY <2>1, <2>2
    <2>6. CASE S = {}
      <3>1. fields' = fields
        BY <1>1, <2>4, <2>6 DEF StateType, Pairs
      <3> QED
        BY <2>5, <2>6, <3>1 DEF Heap!vars
    <2>7. CASE S # {}
      <3>1. S \in SUBSET ({h \in Handles : Valid(pool, h)} \ Heap!Accessible)
        BY <1>3, <2>2, <2>3, AccessibleIs
      <3>2. Heap!Collect
        BY <2>4, <2>5, <2>7, <3>1 DEF Heap!Collect
      <3> QED
        BY <3>2 DEF Heap!Next
    <2> QED
      BY <2>6, <2>7
  <1> QED
    BY <1>2, <1>3 DEF Sweeps

\* Every step of the runtime is a step of the abstract heap or leaves it alone.
LEMMA NextRefines ==
  ASSUME IInv, [Next]_vars
  PROVE  [Heap!Next]_(Heap!vars)
  <1>1. CASE BeginRound \/ ReadTail \/ Drain \/ EndDrain \/ SweepZeroDone \/ UNCHANGED vars
    <2>1. UNCHANGED <<pool, bag, fields>>
      BY <1>1 DEF BeginRound, ReadTail, Drain, EndDrain, SweepZeroDone, vars, mutVars
    <2> QED
      BY <2>1, Invisible
  <1>2. CASE SweepZero
    <2>1. Sweeps /\ UNCHANGED bag
      BY <1>2, SweepZeroStep DEF SweepZero
    <2> QED
      BY <2>1, SweepRefines
  <1>3. CASE CyclePass
    <2>1. Sweeps /\ UNCHANGED bag
      BY <1>3, CyclePassStep DEF CyclePass
    <2> QED
      BY <2>1, SweepRefines
  <1>4. ASSUME NEW p \in Producers, MutatorStep(p) PROVE [Heap!Next]_(Heap!vars)
    <2>1. CASE Alloc(p)
      BY <2>1, AllocRefines
    <2>2. CASE Flush(p) \/ Push(p) \/ Close(p)
      <3>1. UNCHANGED <<pool, bag, fields>>
        BY <2>2 DEF Flush, Push, Close
      <3> QED
        BY <3>1, Invisible
    <2>3. ASSUME NEW h \in Handles, AddRoot(p, h) \/ RemoveRoot(p, h) \/ CloseRoot(p, h)
          PROVE  Heap!Next
      BY <2>3, RootRefines
    <2>4. ASSUME NEW a \in Handles, NEW b \in Handles, AddEdge(p, a, b) \/ RemoveEdge(p, a, b)
          PROVE  Heap!Next
      BY <2>4, EdgeRefines
    <2> QED
      BY <1>4, <2>1, <2>2, <2>3, <2>4 DEF MutatorStep
  <1> QED
    BY <1>1, <1>2, <1>3, <1>4 DEF Next, WorkerStep

\* The asynchronous runtime implements the abstract heap (ImplementsHeap): with counts,
\* messages, folding, rounds and sweeps hidden, a program sees operations take effect
\* when it calls them and only objects nobody can reach disappear.
THEOREM RuntimeRefinesHeap ==
  ASSUME OwnFields
  PROVE  Spec => ImplementsHeap
  <1>1. Init => Heap!Init
    BY HeapStarts
  <1>2. IInv /\ [Next]_vars => [Heap!Next]_(Heap!vars)
    BY NextRefines
  <1> QED
    BY <1>1, <1>2, RuntimeInvariant, PTL DEF Spec, ImplementsHeap, Heap!Spec
=============================================================================
