----------------------------- MODULE Components ------------------------------
(***************************************************************************)
(* The may-connected components of the conservative scheme                 *)
(* (arc/local_components.hpp, with the forward table of                    *)
(* ref_table_forward.hpp).  One owner's slots are kept in doubly linked    *)
(* lists, one per component; an edge merges two lists, a removed edge does *)
(* not split one, and a promotion takes a whole list.                      *)
(***************************************************************************)
EXTENDS Integers, Sequences, FiniteSets, Functions

CONSTANTS
    Cslots,    \* the slots of one owner
    MaxOuts,   \* bound: live edges
    NoComp     \* kNoComp

ASSUME ComponentsAssumption == IsFiniteSet(Cslots) /\ NoComp \notin Cslots /\ MaxOuts \in Nat

VARIABLES
    compOf, prev, next,   \* membership and list links of each slot
    headers, freeHeaders, \* OwnerStore
    outs,                 \* forward table: the outgoing multiset of each slot
    alive                 \* LOCAL cells of this owner

compVars == <<compOf, prev, next, headers, freeHeaders, outs, alive>>

BlankHeader == [owned |-> FALSE, head |-> NoComp, tail |-> NoComp, live |-> 0]

ComponentsInit ==
    /\ compOf = [s \in Cslots |-> NoComp]
    /\ prev = [s \in Cslots |-> NoComp] /\ next = [s \in Cslots |-> NoComp]
    /\ headers = <<>> /\ freeHeaders = <<>>
    /\ outs = [s \in Cslots |-> <<>>] /\ alive = {}

\* newHeader: the last freed header first, else one more.
NewHeader == IF freeHeaders # <<>> THEN freeHeaders[Len(freeHeaders)] ELSE Len(headers) + 1

SetHeader(c, hdr) ==
    [k \in 1..(IF c > Len(headers) THEN c ELSE Len(headers)) |-> IF k = c THEN hdr ELSE headers[k]]

\* addLocal
AddLocal(s) ==
    /\ s \notin alive /\ alive' = alive \cup {s}
    /\ headers' = SetHeader(NewHeader, [owned |-> TRUE, head |-> s, tail |-> s, live |-> 1])
    /\ freeHeaders' = SubSeq(freeHeaders, 1, Len(freeHeaders) - (IF freeHeaders = <<>> THEN 0 ELSE 1))
    /\ compOf' = [compOf EXCEPT ![s] = NewHeader]
    /\ prev' = [prev EXCEPT ![s] = NoComp] /\ next' = [next EXCEPT ![s] = NoComp]
    /\ UNCHANGED outs

\* The slots of the list of component c, from its head on.
MembersOf(c) ==
    LET at[n \in 0..Cardinality(Cslots)] ==
            IF n = 0 THEN headers[c].head
            ELSE IF at[n - 1] = NoComp THEN NoComp ELSE next[at[n - 1]]
        length == Cardinality({n \in 0..Cardinality(Cslots) : at[n] # NoComp})
    IN [n \in 1..length |-> at[n - 1]]

\* merge: every member of the absorbed list belongs to ca.
Relabel(ca, cb) == [m \in Cslots |-> IF m \in Range(MembersOf(cb)) THEN ca ELSE compOf[m]]

\* merge: cb's list goes behind ca's, and cb's header is freed.
Merge(a, b) ==
    LET ca == compOf[a]
        cb == compOf[b] IN
    IF ca = cb THEN UNCHANGED <<compOf, prev, next, headers, freeHeaders>>
    ELSE /\ next' = [next EXCEPT ![headers[ca].tail] = headers[cb].head]
         /\ prev' = [prev EXCEPT ![headers[cb].head] = headers[ca].tail]
         /\ headers' = [headers EXCEPT ![ca].tail = headers[cb].tail,
                                       ![ca].live = @ + headers[cb].live, ![cb] = BlankHeader]
         /\ compOf' = Relabel(ca, cb)
         /\ freeHeaders' = Append(freeHeaders, cb)

\* A LOCAL edge: addOut, and the two components become one.
AddEdge(s, d) ==
    /\ {s, d} \subseteq alive /\ FoldFunction(LAMBDA l, n : Len(l) + n, 0, outs) < MaxOuts
    /\ outs' = [outs EXCEPT ![s] = Append(@, d)]
    /\ Merge(s, d) /\ UNCHANGED alive

\* removeOut erases the first occurrence; the component stays whole.
RemoveEdge(s, d) ==
    LET k == CHOOSE j \in 1..Len(outs[s]) : outs[s][j] = d IN
    /\ s \in alive /\ d \in Range(outs[s])
    /\ outs' = [outs EXCEPT ![s] = SubSeq(@, 1, k - 1) \o SubSeq(@, k + 1, Len(@))]
    /\ UNCHANGED <<compOf, prev, next, headers, freeHeaders, alive>>

UnlinkedTail(hdr, p, n) ==
    [hdr EXCEPT !.head = IF p = NoComp THEN n ELSE @, !.live = @ - 1]

\* unlink: the header without a slot whose neighbours are p and n.
UnlinkedFrom(hdr, p, n) ==
    [hdr EXCEPT !.head = IF p = NoComp THEN n ELSE @, !.tail = IF n = NoComp THEN p ELSE @,
                !.live = @ - 1]

\* unlink, when the engine frees a LOCAL cell that nothing refers to, and resetSlot.
Unlink(s) ==
    LET c == compOf[s]
        p == prev[s]
        n == next[s]
        hdr == UnlinkedFrom(headers[c], p, n) IN
    /\ s \in alive /\ \A q \in alive \ {s} : s \notin Range(outs[q])
    /\ next' = [m \in Cslots |-> IF m = s THEN NoComp ELSE IF m = p THEN n ELSE next[m]]
    /\ prev' = [m \in Cslots |-> IF m = s THEN NoComp ELSE IF m = n THEN p ELSE prev[m]]
    /\ compOf' = [compOf EXCEPT ![s] = NoComp]
    /\ headers' = [headers EXCEPT ![c] = IF hdr.live = 0 THEN BlankHeader ELSE hdr]
    /\ freeHeaders' = IF hdr.live = 0 THEN Append(freeHeaders, c) ELSE freeHeaders
    /\ outs' = [outs EXCEPT ![s] = <<>>] /\ alive' = alive \ {s}

\* The members promoteComponent visits.
Promoted(seed) == Range(MembersOf(compOf[seed]))

\* promoteComponent: the members leave the component system and the LOCAL regime.
PromoteComponent(seed) ==
    LET c == compOf[seed]
        gone == Promoted(seed) IN
    /\ seed \in alive
    /\ compOf' = [m \in Cslots |-> IF m \in gone THEN NoComp ELSE compOf[m]]
    /\ prev' = [m \in Cslots |-> IF m \in gone THEN NoComp ELSE prev[m]]
    /\ next' = [m \in Cslots |-> IF m \in gone THEN NoComp ELSE next[m]]
    /\ headers' = [headers EXCEPT ![c] = BlankHeader] /\ freeHeaders' = Append(freeHeaders, c)
    /\ outs' = [m \in Cslots |-> IF m \in gone THEN <<>> ELSE outs[m]]
    /\ alive' = alive \ gone

ComponentsNext ==
    \E s \in Cslots :
        \/ AddLocal(s) \/ Unlink(s) \/ PromoteComponent(s)
        \/ \E d \in Cslots : AddEdge(s, d) \/ RemoveEdge(s, d)

ComponentsSpec == ComponentsInit /\ [][ComponentsNext]_compVars

-----------------------------------------------------------------------------

\* The component lists are exact: the list of every owned header visits, once and in
\* both directions, the slots labelled with it, and counts them; free headers are
\* blank and listed once.
ListsExact ==
    /\ \A c \in 1..Len(headers) :
        IF headers[c].owned
        THEN LET list == MembersOf(c) IN
             /\ Range(list) = {s \in alive : compOf[s] = c}
             /\ Len(list) = headers[c].live /\ list[Len(list)] = headers[c].tail
             /\ \A k \in 2..Len(list) : prev[list[k]] = list[k - 1]
        ELSE Cardinality({k \in 1..Len(freeHeaders) : freeHeaders[k] = c}) = 1
    /\ \A s \in Cslots \ alive : compOf[s] = NoComp

\* Promotion never leaves an edge between the regimes: a component is closed under
\* the live edges in both directions, however edges came and went before.
ClosedUnderEdges ==
    \A s \in alive : \A d \in Range(outs[s]) : d \in alive /\ compOf[s] = compOf[d]

\* The component lists stay whole under merges, unlinks and promotions, and what is
\* promoted together is closed under the edges.
ComponentsAreSound == ListsExact /\ ClosedUnderEdges
=============================================================================
