------------------------------ MODULE HeapStore ------------------------------
(***************************************************************************)
(* The VM's object heap (vm/Heap.hpp): a table of object slots over one    *)
(* byte array cut into cells, with a free list of payloads per size class  *)
(* and a free list of handles.  A cell holds a value; Zero is what         *)
(* std::fill and resize leave.                                             *)
(***************************************************************************)
EXTENDS Integers, Sequences, FiniteSets, Functions

CONSTANTS
    MaxCells,   \* bound: cells of the largest request
    MaxMemory,  \* bound: cells ever committed
    SlotCap,    \* slotCap_, 0 when the table grows on demand
    MaxSlots,   \* bound: object slots ever made
    MaxReuse,   \* bound: generation of a slot
    CellValues, Zero

ASSUME HeapAssumption ==
    /\ MaxCells \in Nat \ {0} /\ MaxMemory \in Nat /\ SlotCap \in Nat /\ MaxSlots \in Nat
    /\ MaxReuse \in Nat /\ Zero \notin CellValues

VARIABLES
    memory,      \* contents of the committed cells
    slots,       \* ObjectSlot by handle
    freeHandles, freeOf,   \* free handles; free payloads by size
    written      \* history: what the program stored in each live object

heapVars == <<memory, slots, freeHandles, freeOf, written>>

\* sizeBytes is given in cells and the bytes left over: a request of <<n, TRUE>>
\* asks for fewer bytes than n whole cells.
Requests == (0..MaxCells) \X BOOLEAN

\* Cells of a request: rounded up, at least one.
CellsOf(req) == IF req[1] = 0 THEN 1 ELSE req[1]

\* Whole cells inside logicalSize.
Logical(req) == IF req[1] = 0 THEN 0 ELSE IF req[2] THEN req[1] - 1 ELSE req[1]

DeadSlot(gen) == [offset |-> -1, cells |-> 0, logical |-> 0, live |-> FALSE, generation |-> gen]

HeapInit ==
    /\ memory = <<>> /\ slots = <<>> /\ freeHandles = <<>>
    /\ freeOf = [n \in 1..MaxCells |-> <<>>] /\ written = <<>>

\* back and pop_back of a free list.
Popped(s) == SubSeq(s, 1, Len(s) - 1)
Back(s) == s[Len(s)]

KeptDirty(off, n) == memory

\* A reused payload is filled with zeros.
Cleared(off, n) == [k \in 1..Len(memory) |-> IF k \in off + 1..off + n THEN Zero ELSE memory[k]]

\* alloc: the payload first, from the exact size class or the end of memory ...
TakePayload(n) ==
    IF freeOf[n] # <<>>
    THEN /\ memory' = Cleared(Back(freeOf[n]), n)
         /\ freeOf' = [freeOf EXCEPT ![n] = Popped(@)]
    ELSE memory' = memory \o [k \in 1..n |-> Zero] /\ UNCHANGED freeOf

PayloadOffset(n) == IF freeOf[n] # <<>> THEN Back(freeOf[n]) ELSE Len(memory)

\* ... then the handle; at the slot limit the payload is not given back.
Alloc(req) ==
    LET n == CellsOf(req)
        h == IF freeHandles # <<>> THEN Back(freeHandles) ELSE Len(slots) + 1
        gen == IF h <= Len(slots) THEN slots[h].generation ELSE 0
        full == freeHandles = <<>> /\ SlotCap # 0 /\ Len(slots) >= SlotCap IN
    /\ (freeOf[n] = <<>> => Len(memory) + n <= MaxMemory) /\ h <= MaxSlots + 1
    /\ TakePayload(n)
    /\ IF full THEN UNCHANGED <<slots, freeHandles, written>>
       ELSE /\ h <= MaxSlots
            /\ freeHandles' = IF freeHandles # <<>> THEN Popped(freeHandles) ELSE freeHandles
            /\ slots' = [k \in 1..(IF h > Len(slots) THEN h ELSE Len(slots)) |->
                  IF k # h THEN slots[k]
                  ELSE [offset |-> PayloadOffset(n), cells |-> n, logical |-> Logical(req),
                        live |-> TRUE, generation |-> gen]]
            /\ written' = [k \in DOMAIN slots' |->
                  IF k = h THEN [c \in 0..Logical(req) - 1 |-> Zero] ELSE written[k]]

\* freePayload
FreePayload(h) ==
    /\ h <= Len(slots) /\ slots[h].live /\ slots[h].generation < MaxReuse
    /\ freeOf' = [freeOf EXCEPT ![slots[h].cells] = Append(@, slots[h].offset)]
    /\ slots' = [slots EXCEPT ![h] = DeadSlot(@.generation + 1)]
    /\ freeHandles' = Append(freeHandles, h)
    /\ written' = [written EXCEPT ![h] = << >>]
    /\ UNCHANGED memory

\* storeCell and loadCell: a live handle, within what was asked for.
InBounds(h, c) == h <= Len(slots) /\ slots[h].live /\ c < slots[h].logical

\* storeCell; out of bounds it changes nothing.
StoreCell(h, c, v) ==
    /\ InBounds(h, c)
    /\ memory' = [memory EXCEPT ![slots[h].offset + c + 1] = v]
    /\ written' = [written EXCEPT ![h] = [k \in DOMAIN @ \cup {c} |-> IF k = c THEN v ELSE @[k]]]
    /\ UNCHANGED <<slots, freeHandles, freeOf>>

LoadCell(h, c) == memory[slots[h].offset + c + 1]

HeapNext ==
    \/ \E req \in Requests : Alloc(req)
    \/ \E h \in 1..MaxSlots :
        \/ FreePayload(h)
        \/ \E c \in 0..MaxCells - 1, v \in CellValues : StoreCell(h, c, v)

HeapSpec == HeapInit /\ [][HeapNext]_heapVars

-----------------------------------------------------------------------------

LiveHandles == {h \in 1..Len(slots) : slots[h].live}

\* An object reads back what the program wrote into that object, and zero where it
\* wrote nothing, whatever earlier objects left in the payload and whatever is
\* stored through other handles.
ReadsOwnWrites ==
    \A h \in LiveHandles :
        /\ DOMAIN written[h] = 0..slots[h].logical - 1
        /\ \A c \in DOMAIN written[h] : LoadCell(h, c) = written[h][c]

Extent(off, n) == off..off + n - 1

\* Payloads never overlap: no cell belongs to two live objects, or to a live object
\* and a free list, and no free payload is listed twice.
PayloadsDisjoint ==
    /\ \A g, h \in LiveHandles : g # h =>
          Extent(slots[g].offset, slots[g].cells) \cap Extent(slots[h].offset, slots[h].cells) = {}
    /\ \A n \in 1..MaxCells :
        /\ \A k, l \in 1..Len(freeOf[n]) : freeOf[n][k] = freeOf[n][l] => k = l
        /\ \A off \in Range(freeOf[n]) : \A h \in LiveHandles :
              Extent(off, n) \cap Extent(slots[h].offset, slots[h].cells) = {}

\* Recycled payloads and handles never let one object see another's cells (Heap::alloc
\* and Heap::free).
ObjectsAreApart == ReadsOwnWrites /\ PayloadsDisjoint
=============================================================================
