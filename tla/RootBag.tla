------------------------------- MODULE RootBag -------------------------------
(***************************************************************************)
(* The root multiset of a mutator (core/root_bag.hpp): open addressing     *)
(* with linear probing in a table whose size is a power of two.  A removed *)
(* key leaves a tombstone; add rehashes when live keys or tombstones fill  *)
(* half of the table.                                                      *)
(***************************************************************************)
EXTENDS Integers, FiniteSets, FiniteSetsExt

CONSTANTS
    Keys,          \* handles a mutator roots
    Mix,           \* the hash of each key
    MinCapacity,   \* kMinCapacity
    MaxCount,      \* bound: how often one key is added
    Empty, Tombstone

ASSUME BagAssumption ==
    /\ Mix \in [Keys -> Nat] /\ MinCapacity \in Nat \ {0} /\ MaxCount \in Nat
    /\ Empty \notin Keys /\ Tombstone \notin Keys /\ Empty # Tombstone

VARIABLES
    keys, vals,        \* the table, both indexed 0..capacity-1
    size, tombstones,
    held               \* history: the multiset add and removeOne stand for

bagVars == <<keys, vals, size, tombstones, held>>

CapacityOf(table) == Cardinality(DOMAIN table)

\* nextPow2: 1, doubled until it is n or more.
NextPow2(n) ==
    LET Doubled[e \in 0..n] == IF e = 0 THEN 1 ELSE 2 * Doubled[e - 1] IN
    Doubled[Min({e \in 0..n : Doubled[e] >= n})]

BagInit ==
    /\ keys = << >> /\ vals = << >> /\ size = 0 /\ tombstones = 0
    /\ held = [k \in Keys |-> 0]

\* The k-th slot that a probe for key looks at.
Probed(table, key, k) == (Mix[key] + k) % CapacityOf(table)

\* Where a probe stops: at the key or at the first empty slot.
ProbeLength(table, key) ==
    Min({k \in 0..CapacityOf(table) - 1 : table[Probed(table, key, k)] \in {key, Empty}})

ProbeEnd(table, key) == Probed(table, key, ProbeLength(table, key))

\* The tombstones a probe steps over.
Passed(table, key) ==
    {k \in 0..ProbeLength(table, key) - 1 : table[Probed(table, key, k)] = Tombstone}

\* probeInsert gives an absent key the earliest tombstone.
Reclaims(table, key) == table[ProbeEnd(table, key)] = Empty /\ Passed(table, key) # {}

ProbeInsert(table, key) ==
    IF Reclaims(table, key) THEN Probed(table, key, Min(Passed(table, key))) ELSE ProbeEnd(table, key)

NeedsGrowLive(cap) == cap = 0 \/ (size + 1) * 2 >= cap

\* needsGrow: live keys or tombstones are half of the table.
NeedsGrow(cap) == cap = 0 \/ (size + 1) * 2 >= cap \/ tombstones * 2 >= cap

GrownCapacity ==
    LET need == (size + 1) * 2 + 1 IN NextPow2(IF need < MinCapacity THEN MinCapacity ELSE need)

CountOf(key) == vals[CHOOSE i \in DOMAIN keys : keys[i] = key]

\* grow: the live keys of the old table, inserted in its order into an empty one.
Rehashed ==
    LET Moved[n \in 0..CapacityOf(keys)] ==
            IF n = 0 THEN [i \in 0..GrownCapacity - 1 |-> Empty]
            ELSE LET table == Moved[n - 1]
                     key == keys[n - 1]
                 IN IF key \in Keys THEN [table EXCEPT ![ProbeInsert(table, key)] = key] ELSE table
    IN Moved[CapacityOf(keys)]

CountsFor(table) == [i \in DOMAIN table |-> IF table[i] \in Keys THEN CountOf(table[i]) ELSE 0]

\* add, into the table as needsGrow left it.
Insert(table, counts, tombs, key) ==
    LET slot == ProbeInsert(table, key) IN
    /\ keys' = [table EXCEPT ![slot] = key]
    /\ vals' = [counts EXCEPT ![slot] = IF table[slot] = key THEN @ + 1 ELSE 1]
    /\ size' = IF table[slot] = key THEN size ELSE size + 1
    /\ tombstones' = IF Reclaims(table, key) THEN tombs - 1 ELSE tombs

Add(key) ==
    /\ held[key] < MaxCount
    /\ IF NeedsGrow(CapacityOf(keys))
       THEN LET table == Rehashed IN Insert(table, CountsFor(table), 0, key)
       ELSE Insert(keys, vals, tombstones, key)
    /\ held' = [held EXCEPT ![key] = @ + 1]

\* removeOne of a key the mutator holds; another key changes nothing.
RemoveOne(key) ==
    LET slot == ProbeEnd(keys, key)
        last == vals[slot] = 1 IN
    /\ CapacityOf(keys) > 0 /\ keys[slot] = key
    /\ vals' = [vals EXCEPT ![slot] = @ - 1]
    /\ keys' = IF last THEN [keys EXCEPT ![slot] = Tombstone] ELSE keys
    /\ tombstones' = IF last THEN tombstones + 1 ELSE tombstones
    /\ size' = IF last THEN size - 1 ELSE size
    /\ held' = [held EXCEPT ![key] = IF @ > 0 THEN @ - 1 ELSE 0]

\* reset at close, after each() gave every root back.
Reset ==
    /\ keys # << >>
    /\ keys' = << >> /\ vals' = << >> /\ size' = 0 /\ tombstones' = 0
    /\ held' = [k \in Keys |-> 0]

BagNext == Reset \/ \E key \in Keys : Add(key) \/ RemoveOne(key)

BagSpec == BagInit /\ [][BagNext]_bagVars

-----------------------------------------------------------------------------

\* Every probe ends: probeInsert and probeFind loop until they meet the key or an
\* empty slot, so a table that churn filled with live keys and tombstones would hang
\* the mutator.
ProbesEnd == keys # << >> => \E i \in DOMAIN keys : keys[i] = Empty

\* The bag is the multiset of the roots added and not removed: every key has one
\* slot, which a probe reaches across the tombstones, with its exact count, and size
\* and tombstones count the slots (each() at close drops exactly the roots held).
BagIsExact ==
    /\ \A k \in Keys :
          IF held[k] = 0 THEN \A i \in DOMAIN keys : keys[i] # k
          ELSE /\ Cardinality({i \in DOMAIN keys : keys[i] = k}) = 1
               /\ CountOf(k) = held[k] /\ keys[ProbeEnd(keys, k)] = k
    /\ size = Cardinality({k \in Keys : held[k] > 0})
    /\ tombstones = Cardinality({i \in DOMAIN keys : keys[i] = Tombstone})

\* The open-addressing table counts exactly and never probes for ever, however roots
\* come and go (RootBag::add, sub, grow).
BagIsSound == ProbesEnd /\ BagIsExact
=============================================================================
