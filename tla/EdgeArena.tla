----------------------------- MODULE EdgeArena ------------------------------
(***************************************************************************)
(* The edge records of the reference table (arc/ref_table_reverse.hpp).    *)
(* Every edge is a record linked into the outgoing list of its source and  *)
(* the incoming list of its target.  Several engines use one arena: each   *)
(* links only rows of its own, but all take records from one lock-free     *)
(* free list whose head carries a tag.  A step is one atomic access of the *)
(* list; linking and unlinking touch the engine's own rows only and are    *)
(* one step.                                                               *)
(***************************************************************************)
EXTENDS Integers, Sequences, FiniteSets

CONSTANTS
    Engines,      \* authorities that share the arena
    Rows,         \* Rows[t]: the rows only engine t writes
    MaxEdges,     \* bound: edge ids ever taken from nextId_
    MaxTag,       \* bound: tag of the list head (32 bits in the code)
    NoEdge        \* kNoEdge

ASSUME ArenaAssumption == MaxEdges \in Nat \ {0} /\ MaxTag \in Nat /\ NoEdge \notin 1..MaxEdges

EdgeIds == 1..MaxEdges
AllRows == UNION {Rows[t] : t \in Engines}

VARIABLES
    recs,      \* the records
    row,       \* outHead, inHead, outCount, inCount of each row
    freeHead,  \* head of the free list and its tag
    nextId,    \* ids never used before start here
    eat,       \* where each engine is: [at, op, src, dst, id, head, next]
    edges      \* history: for each (src, dst) the number of edges added and not removed

arenaVars == <<recs, row, freeHead, nextId, eat, edges>>

BlankRec ==
    [src |-> NoEdge, dst |-> NoEdge, prevOut |-> NoEdge, nextOut |-> NoEdge,
     prevIn |-> NoEdge, nextIn |-> NoEdge, nextFree |-> NoEdge, live |-> FALSE]

PackFree(id, tag) == [id |-> id, tag |-> tag]

Waiting == [at |-> "idle", src |-> NoEdge, dst |-> NoEdge, id |-> NoEdge,
            head |-> PackFree(NoEdge, 0), next |-> NoEdge]

ArenaInit ==
    /\ recs = [i \in EdgeIds |-> BlankRec]
    /\ row = [r \in AllRows |-> [outHead |-> NoEdge, inHead |-> NoEdge, outCount |-> 0, inCount |-> 0]]
    /\ freeHead = PackFree(NoEdge, 0) /\ nextId = 1
    /\ eat = [t \in Engines |-> Waiting]
    /\ edges = [q \in AllRows \X AllRows |-> 0]

\* addOut: the record comes from the free list if there is one.
BeginAdd(t, s, d) ==
    /\ eat[t].at = "idle" /\ freeHead.tag < MaxTag
    /\ eat' = [eat EXCEPT ![t] = [Waiting EXCEPT !.at = "pop", !.src = s, !.dst = d, !.head = freeHead]]
    /\ UNCHANGED <<recs, row, freeHead, nextId, edges>>

\* popFree: nextFree of the head it has read, whoever owns that record by now.
ReadNext(t) ==
    /\ eat[t].at = "pop" /\ eat[t].head.id # NoEdge
    /\ eat' = [eat EXCEPT ![t].at = "popcas", ![t].next = recs[eat[t].head.id].nextFree]
    /\ UNCHANGED <<recs, row, freeHead, nextId, edges>>

\* Every exchange of the head advances its tag.
Bumped(tag) == tag + 1

PopCas(t) ==
    /\ eat[t].at = "popcas"
    /\ IF freeHead = eat[t].head
       THEN /\ freeHead' = PackFree(eat[t].next, Bumped(freeHead.tag))
            /\ eat' = [eat EXCEPT ![t].at = "link", ![t].id = eat[t].head.id]
       ELSE /\ eat' = [eat EXCEPT ![t].at = "pop", ![t].head = freeHead]
            /\ UNCHANGED freeHead
    /\ UNCHANGED <<recs, row, nextId, edges>>

\* allocateEdge: nothing free, a new id; its block is installed by one exchange.
FreshId(t) ==
    /\ eat[t].at = "pop" /\ eat[t].head.id = NoEdge /\ nextId <= MaxEdges
    /\ nextId' = nextId + 1
    /\ eat' = [eat EXCEPT ![t].at = "link", ![t].id = nextId]
    /\ UNCHANGED <<recs, row, freeHead, edges>>

\* The record is reset and becomes the head of both lists.
Link(t) ==
    LET i == eat[t].id
        s == eat[t].src
        d == eat[t].dst
        fresh == [BlankRec EXCEPT !.src = s, !.dst = d, !.live = TRUE,
                                  !.nextOut = row[s].outHead, !.nextIn = row[d].inHead] IN
    /\ eat[t].at = "link"
    /\ recs' = [j \in EdgeIds |->
          IF j = i THEN fresh
          ELSE [recs[j] EXCEPT !.prevOut = IF j = row[s].outHead THEN i ELSE @,
                               !.prevIn = IF j = row[d].inHead THEN i ELSE @]]
    /\ row' = [r \in AllRows |->
          [row[r] EXCEPT !.outHead = IF r = s THEN i ELSE @, !.outCount = IF r = s THEN @ + 1 ELSE @,
                         !.inHead = IF r = d THEN i ELSE @, !.inCount = IF r = d THEN @ + 1 ELSE @]]
    /\ edges' = [edges EXCEPT ![<<s, d>>] = @ + 1]
    /\ eat' = [eat EXCEPT ![t] = Waiting]
    /\ UNCHANGED <<freeHead, nextId>>

\* The links of the three kinds of list.
NextOut == [i \in EdgeIds |-> recs[i].nextOut]
NextIn == [i \in EdgeIds |-> recs[i].nextIn]
NextFree == [i \in EdgeIds |-> recs[i].nextFree]

\* The records of a list from its head, at most one more than there are ids.
Walk(head, next) ==
    LET at[n \in 0..MaxEdges] ==
            IF n = 0 THEN head ELSE IF at[n - 1] = NoEdge THEN NoEdge ELSE next[at[n - 1]]
    IN  [n \in 1..Cardinality({m \in 0..MaxEdges : at[m] # NoEdge}) |-> at[n - 1]]

Outs(r) == Walk(row[r].outHead, NextOut)
Ins(r) == Walk(row[r].inHead, NextIn)

\* Where the source's list has records that lead to the target.
Matching(s, d) == {k \in DOMAIN Outs(s) : recs[Outs(s)[k]].dst = d}

UnlinkedForward(i, e) ==
    [j \in EdgeIds |->
        [recs[j] EXCEPT !.nextOut = IF j = e.prevOut THEN e.nextOut ELSE @,
                        !.nextIn = IF j = e.prevIn THEN e.nextIn ELSE @,
                        !.live = IF j = i THEN FALSE ELSE @]]

\* unlink: the neighbours of record i, with fields e, close the gap in both lists.
Unlinked(i, e) ==
    [j \in EdgeIds |->
        [recs[j] EXCEPT !.nextOut = IF j = e.prevOut THEN e.nextOut ELSE @,
                        !.prevOut = IF j = e.nextOut THEN e.prevOut ELSE @,
                        !.nextIn = IF j = e.prevIn THEN e.nextIn ELSE @,
                        !.prevIn = IF j = e.nextIn THEN e.prevIn ELSE @,
                        !.live = IF j = i THEN FALSE ELSE @]]

\* removeOut, clearOuts: unlink the first record that matches, then push it on the free list.
BeginRemove(t, s, d) ==
    \E k \in Matching(s, d) :
        LET i == Outs(s)[k]
            e == recs[i] IN
        /\ \A j \in Matching(s, d) : k <= j
        /\ eat[t].at = "idle" /\ freeHead.tag < MaxTag
        /\ recs' = Unlinked(i, e)
        /\ row' = [r \in AllRows |->
              [row[r] EXCEPT !.outHead = IF r = s /\ e.prevOut = NoEdge THEN e.nextOut ELSE @,
                             !.outCount = IF r = s THEN @ - 1 ELSE @,
                             !.inHead = IF r = d /\ e.prevIn = NoEdge THEN e.nextIn ELSE @,
                             !.inCount = IF r = d THEN @ - 1 ELSE @]]
        /\ edges' = [edges EXCEPT ![<<s, d>>] = @ - 1]
        /\ eat' = [eat EXCEPT ![t] = [Waiting EXCEPT !.at = "push", !.id = i, !.head = freeHead]]
        /\ UNCHANGED <<freeHead, nextId>>

\* pushFree: point the record at the head it has read ...
WriteNext(t) ==
    /\ eat[t].at = "push"
    /\ recs' = [recs EXCEPT ![eat[t].id].nextFree = eat[t].head.id]
    /\ eat' = [eat EXCEPT ![t].at = "pushcas"]
    /\ UNCHANGED <<row, freeHead, nextId, edges>>

\* ... and make it the head if that has not changed.
PushCas(t) ==
    /\ eat[t].at = "pushcas"
    /\ IF freeHead = eat[t].head
       THEN /\ freeHead' = PackFree(eat[t].id, Bumped(freeHead.tag))
            /\ eat' = [eat EXCEPT ![t] = Waiting]
       ELSE /\ eat' = [eat EXCEPT ![t].at = "push", ![t].head = freeHead]
            /\ UNCHANGED freeHead
    /\ UNCHANGED <<recs, row, nextId, edges>>

ArenaNext ==
    \E t \in Engines :
        \/ ReadNext(t) \/ PopCas(t) \/ FreshId(t) \/ Link(t) \/ WriteNext(t) \/ PushCas(t)
        \/ \E s, d \in Rows[t] : BeginAdd(t, s, d) \/ BeginRemove(t, s, d)

ArenaSpec == ArenaInit /\ [][ArenaNext]_arenaVars

-----------------------------------------------------------------------------

FreeList == Walk(freeHead.id, NextFree)

\* Records an engine has taken off the list or not yet put back.
InHand(t) == IF eat[t].at \in {"link", "push", "pushcas"} THEN {eat[t].id} ELSE {}

Elems(s) == {s[k] : k \in 1..Len(s)}

\* No record is handed out twice or lost, whatever two engines do to the list at the
\* same time: the used ids are the live ones, the free list (which ends, and lists
\* nothing twice) and those in the hands of one engine, without overlap.
RecordsAccounted ==
    LET linked == {i \in EdgeIds : recs[i].live} IN
    /\ Len(FreeList) = Cardinality(Elems(FreeList)) /\ Elems(FreeList) \cap linked = {}
    /\ \A t \in Engines :
        /\ InHand(t) \cap (linked \cup Elems(FreeList)) = {}
        /\ \A u \in Engines \ {t} : InHand(t) \cap InHand(u) = {}
    /\ linked \cup Elems(FreeList) \cup UNION {InHand(t) : t \in Engines} = 1..nextId - 1

\* Both adjacency lists of every row hold exactly the edges added and not removed,
\* with matching back links and counts: a closure that walks reverse edges and a
\* sweep that walks forward edges see the same graph.
AdjacencyExact ==
    \A r \in AllRows :
        /\ Len(Outs(r)) = row[r].outCount /\ Cardinality(Elems(Outs(r))) = row[r].outCount
        /\ Len(Ins(r)) = row[r].inCount /\ Cardinality(Elems(Ins(r))) = row[r].inCount
        /\ \A d \in AllRows :
            /\ edges[<<r, d>>] = Cardinality({i \in Elems(Outs(r)) : recs[i].dst = d /\ recs[i].src = r})
            /\ edges[<<d, r>>] = Cardinality({i \in Elems(Ins(r)) : recs[i].src = d /\ recs[i].dst = r})
        /\ \A i \in Elems(Outs(r)) :
              recs[i].nextOut # NoEdge => recs[recs[i].nextOut].prevOut = i
        /\ \A i \in Elems(Ins(r)) :
              recs[i].nextIn # NoEdge => recs[recs[i].nextIn].prevIn = i

\* The lock-free arena under two engines: records are neither lost nor handed out
\* twice, and the two adjacency lists hold the same edges.
ArenaIsSound == RecordsAccounted /\ AdjacencyExact
=============================================================================
