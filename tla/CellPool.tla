------------------------------ MODULE CellPool ------------------------------
(***************************************************************************)
(* Where the slots of the pool are (core/cell.hpp).  A slot that is not    *)
(* live lies in the private cache of one owner, in the recycle ring the    *)
(* collector fills for one owner, or on one of the sharded free lists.     *)
(* An owner thread allocates; the worker frees shared cells and an owner   *)
(* its own local ones.  A step is what happens under one shard's lock, or  *)
(* between two accesses to a ring.                                         *)
(***************************************************************************)
EXTENDS Integers, Sequences, FiniteSets, Functions

CONSTANTS
    Capacity,     \* slots of the pool
    PoolOwners,   \* producers, each named by its thread's hash: it starts at that shard
    NShards,      \* kShards
    Refill,       \* kRefill
    RecycleCap,   \* kRecycleCap: handles a recycle ring can hold
    LastGen,      \* the generation at which a slot is retired
    CacheModes    \* the values useLocalCache_ is switched between

ASSUME PoolAssumption ==
    /\ Capacity \in Nat \ {0} /\ NShards \in Nat \ {0} /\ Refill \in Nat \ {0}
    /\ RecycleCap \in Nat /\ LastGen \in Nat /\ CacheModes \subseteq BOOLEAN
    /\ PoolOwners \subseteq Nat

Slots == 0..Capacity - 1

VARIABLES
    live, gen,    \* the meta word of each slot
    birth,        \* owner and regime of a live slot
    heads,        \* free list of each shard
    recycle,      \* ring of each owner: handles
    cache,        \* private cache of each owner: handles
    step,         \* where each owner is in allocInto: [at, shard]
    due,          \* history: slots on the free lists since the call began
    retired,      \* history: slots freed at their last generation
    freed         \* history: the handles freed

poolVars == <<live, gen, birth, heads, recycle, cache, step, due, retired, freed>>

Handle(i, g) == [index |-> i, gen |-> g]

Shards == 0..NShards - 1
PerShard == (Capacity + NShards - 1) \div NShards
ShardOf(i) == i \div PerShard

\* The slots of shard s are the Share(s) ones from First(s) on.
First(s) == s * PerShard
Share(s) ==
    IF First(s) >= Capacity THEN 0
    ELSE IF First(s) + PerShard <= Capacity THEN PerShard
    ELSE Capacity - First(s)

Resting == [at |-> "idle", shard |-> 0]

PoolInit ==
    /\ live = [i \in Slots |-> FALSE] /\ gen = [i \in Slots |-> 0]
    /\ birth = [i \in Slots |-> [owner |-> -1, regime |-> "shared"]]
    /\ heads = [s \in Shards |-> [k \in 1..Share(s) |-> First(s) + k - 1]]
    /\ recycle = [o \in PoolOwners |-> <<>>] /\ cache = [o \in PoolOwners |-> <<>>]
    /\ step = [o \in PoolOwners |-> Resting]
    /\ due = [o \in PoolOwners |-> {}] /\ retired = {} /\ freed = {}

OnLists == UNION {Range(heads[s]) : s \in Shards}

\* Slots taken from a free list no longer count for anyone's call.
Taken(S) == due' = [o \in PoolOwners |-> due[o] \ S]

At(o, place) == step[o].at = place
Goto(o, place, s) == step' = [step EXCEPT ![o] = [at |-> place, shard |-> s]]

\* allocInto: an owner with an empty cache refills it first.
BeginAlloc(o) ==
    /\ At(o, "idle") /\ due' = [due EXCEPT ![o] = OnLists]
    /\ \E cached \in CacheModes :
          Goto(o, IF ~cached THEN "steal" ELSE IF cache[o] = <<>> THEN "recycle" ELSE "take", 0)
    /\ UNCHANGED <<live, gen, birth, heads, recycle, cache, retired, freed>>

Moved(s, n) == SubSeq(s, 1, IF Len(s) < n THEN Len(s) ELSE n)
Rest(s, n) == SubSeq(s, Len(Moved(s, n)) + 1, Len(s))

\* refillLocal: from the owner's ring, oldest first ...
RefillFromRing(o) ==
    LET room == Refill - Len(cache[o]) IN
    /\ At(o, "recycle")
    /\ cache' = [cache EXCEPT ![o] = @ \o Moved(recycle[o], room)]
    /\ recycle' = [recycle EXCEPT ![o] = Rest(@, room)]
    /\ Goto(o, IF Len(recycle[o]) >= room THEN "take" ELSE "refill", 0)
    /\ UNCHANGED <<live, gen, birth, heads, due, retired, freed>>

\* ... then from the shards, starting at the thread's own.
RefillFromShard(o) ==
    LET s == (o + step[o].shard) % NShards
        room == Refill - Len(cache[o])
        moved == Moved(heads[s], room) IN
    /\ At(o, "refill")
    /\ cache' = [cache EXCEPT ![o] = @ \o [k \in 1..Len(moved) |-> Handle(moved[k], gen[moved[k]])]]
    /\ heads' = [heads EXCEPT ![s] = Rest(@, room)]
    /\ Taken(Range(moved))
    /\ IF step[o].shard + 1 < NShards /\ Len(moved) < room
       THEN Goto(o, "refill", step[o].shard + 1)
       ELSE Goto(o, IF cache'[o] = <<>> THEN "steal" ELSE "take", 0)
    /\ UNCHANGED <<live, gen, birth, recycle, retired, freed>>

\* activate: the slot becomes live under the generation its handle carries.
Claim(o, h) ==
    /\ live' = [live EXCEPT ![h.index] = TRUE]
    /\ gen' = [gen EXCEPT ![h.index] = h.gen]
    /\ \E r \in {"local", "shared"} : birth' = [birth EXCEPT ![h.index] = [owner |-> o, regime |-> r]]

TakeCached(o) ==
    LET n == Len(cache[o]) IN
    /\ At(o, "take")
    /\ Claim(o, cache[o][n])
    /\ cache' = [cache EXCEPT ![o] = SubSeq(@, 1, n - 1)]
    /\ Goto(o, "idle", 0) /\ due' = [due EXCEPT ![o] = {}]
    /\ UNCHANGED <<heads, recycle, retired, freed>>

\* The shard a steal gives up after.
LastSteal == NShards

\* popFrom: one shard after the other; the call fails when all were found empty.
Steal(o) ==
    LET s == (o + step[o].shard) % NShards IN
    /\ At(o, "steal") /\ UNCHANGED <<recycle, cache, retired, freed>>
    /\ IF heads[s] # <<>>
       THEN /\ Claim(o, Handle(Head(heads[s]), gen[Head(heads[s])]))
            /\ heads' = [heads EXCEPT ![s] = Tail(@)]
            /\ due' = [p \in PoolOwners |-> IF p = o THEN {} ELSE due[p] \ {Head(heads[s])}]
            /\ Goto(o, "idle", 0)
       ELSE /\ IF step[o].shard + 1 < LastSteal THEN Goto(o, "steal", step[o].shard + 1)
               ELSE Goto(o, "failed", 0)
            /\ UNCHANGED <<live, gen, birth, heads, due>>

\* The caller sees kNullHandle.
Failed(o) ==
    /\ At(o, "failed") /\ Goto(o, "idle", 0) /\ due' = [due EXCEPT ![o] = {}]
    /\ UNCHANGED <<live, gen, birth, heads, recycle, cache, retired, freed>>

\* free: the generation a freed slot waits under.
RecycledAs(i) == gen[i] + 1

SpillNowhere(i) == UNCHANGED heads

Spill(i) == heads' = [heads EXCEPT ![ShardOf(i)] = <<i>> \o @]

\* free: a stale or repeated handle is refused; the last generation is retired; a
\* shared cell goes back to the owner it was born with if that ring has room.
Free(h) ==
    LET i == h.index
        o == birth[i].owner IN
    /\ live[i] /\ gen[i] = h.gen
    /\ birth[i].regime = "local" => At(o, "idle")
    /\ live' = [live EXCEPT ![i] = FALSE]
    /\ IF h.gen = LastGen THEN retired' = retired \cup {i} /\ UNCHANGED <<gen, heads, recycle>>
       ELSE /\ gen' = [gen EXCEPT ![i] = h.gen + 1] /\ UNCHANGED retired
            /\ IF birth[i].regime = "shared" /\ Len(recycle[o]) < RecycleCap
               THEN /\ recycle' = [recycle EXCEPT ![o] = Append(@, Handle(i, RecycledAs(i)))]
                    /\ UNCHANGED heads
               ELSE Spill(i) /\ UNCHANGED recycle
    /\ freed' = freed \cup {h}
    /\ UNCHANGED <<birth, cache, step, due>>

\* drainRecycleAll at teardown.
DrainRecycle(o) ==
    /\ \A i \in Slots : ~live[i] /\ \A p \in PoolOwners : At(p, "idle")
    /\ recycle[o] # <<>>
    /\ recycle' = [recycle EXCEPT ![o] = Tail(@)]
    /\ Spill(Head(recycle[o]).index)
    /\ UNCHANGED <<live, gen, birth, cache, step, due, retired, freed>>

PoolNext ==
    \/ \E o \in PoolOwners :
        \/ BeginAlloc(o) \/ RefillFromRing(o) \/ RefillFromShard(o) \/ TakeCached(o)
        \/ Steal(o) \/ Failed(o) \/ DrainRecycle(o)
    \/ \E i \in Slots : Free(Handle(i, gen[i]))

PoolSpec == PoolInit /\ [][PoolNext]_poolVars

-----------------------------------------------------------------------------

\* The places where a slot waits, and the slots in each, in order.
PoolLists == ({"shard"} \X Shards) \cup ({"cache", "ring"} \X PoolOwners)
Indices(s) == [k \in 1..Len(s) |-> s[k].index]
SlotsIn(l) ==
    IF l[1] = "shard" THEN heads[l[2]]
    ELSE Indices(IF l[1] = "cache" THEN cache[l[2]] ELSE recycle[l[2]])

Places(i) == UNION {{l} \X {k \in 1..Len(SlotsIn(l)) : SlotsIn(l)[k] = i} : l \in PoolLists}

\* Slots are never lost and never in two places: a slot is live, or retired, or in
\* exactly one place of one cache, ring or free list (nothing is ever lost when a
\* full ring spills, a refill stops half way, or a stale handle is freed again).
SlotsAccounted ==
    \A i \in Slots : Cardinality(Places(i)) = IF live[i] \/ i \in retired THEN 0 ELSE 1

\* A handle waiting for reuse carries the generation its slot has now: an allocation
\* never revives a generation that stale handles still name.
CachedIsFresh ==
    \A o \in PoolOwners : \A h \in Range(cache[o]) \cup Range(recycle[o]) :
        gen[h.index] = h.gen /\ ~live[h.index]

\* An allocation fails only when every slot that was on a free list when it began
\* has been taken by another thread since: slots other owners hold in their caches
\* and rings can make it fail, an unvisited shard cannot.
FailsOnlyWhenTaken == \A o \in PoolOwners : At(o, "failed") => due[o] = {}

\* A handle that was freed never names a live cell again, not even when its slot has
\* been through every generation.
FreedForGood == \A h \in freed : ~(live[h.index] /\ gen[h.index] = h.gen)

\* The pool keeps its books whatever two owners and the worker do between each other's
\* steps: no slot is lost or in two places, no cached handle is stale, no
\* allocation fails while a slot it could have found lay on a free list, and no freed
\* handle becomes valid again.
PoolIsSound == SlotsAccounted /\ CachedIsFresh /\ FailsOnlyWhenTaken /\ FreedForGood
=============================================================================
