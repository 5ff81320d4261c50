------------------------------ MODULE BaseList ------------------------------
(***************************************************************************)
(* CBaseList (wxlist.cpp, wxlist.h): doubly linked lists of objects, each  *)
(* with a cache of nodes.  The output queue, the pin enumerators and the   *)
(* command queues keep their objects in such lists.                        *)
(*                                                                         *)
(* heap is the memory: the anchors of the lists and the nodes.  An         *)
(* operation is a function from heaps to heaps.  contents is what a list   *)
(* stands for, a sequence of objects, updated beside it by what the        *)
(* comment over the operation promises.                                    *)
(***************************************************************************)
EXTENDS Integers, FiniteSets, SequencesExt

CONSTANTS
    Lists,
    Nodes,       \* memory for this many CNode objects
    Data,        \* the objects pointed to
    Null,
    iCacheSize   \* of every list

ListAssumption ==
    /\ Lists # {} /\ IsFiniteSet(Nodes)
    /\ Null \notin Nodes \cup Data
    /\ iCacheSize \in Nat

VARIABLES heap, contents

vars == <<heap, contents>>

Pointer == Nodes \cup {Null}

-----------------------------------------------------------------------------
(* Nodes and their links. *)

SetNext(h, p, n) == IF p = Null THEN h ELSE [h EXCEPT !.next[p] = n]
SetPrev(h, p, n) == IF p = Null THEN h ELSE [h EXCEPT !.prev[p] = n]

\* The nodes from start along the links.
Walk(link, start) ==
    LET from[k \in 0..Cardinality(Nodes)] ==
            [p \in Pointer |-> IF p = Null \/ k = 0 THEN <<>> ELSE <<p>> \o from[k - 1][link[p]]]
    IN from[Cardinality(Nodes)][start]

Chain(h, l) == Walk(h.next, h.first[l])

\* delete: nothing can be read from the node any more.
Free(h, N) ==
    [h EXCEPT !.free = @ \cup N,
              !.next = [n \in Nodes |-> IF n \in N THEN Null ELSE @[n]],
              !.prev = [n \in Nodes |-> IF n \in N THEN Null ELSE @[n]],
              !.data = [n \in Nodes |-> IF n \in N THEN Null ELSE @[n]]]

\* The node an addition will use: from the list's cache or from memory.
NewNode(h, l) ==
    IF h.cache[l] # <<>> THEN Head(h.cache[l])
    ELSE IF h.free # {} THEN CHOOSE n \in h.free : TRUE
    ELSE Null

RemoveFromCache(h, l) ==
    IF h.cache[l] # <<>> THEN [h EXCEPT !.cache[l] = Tail(@)]
    ELSE [h EXCEPT !.free = @ \ {NewNode(h, l)}]

AddToCache_Unbounded(h, l, n) ==    \* mutated form: m_iCacheSize is not looked at
    [h EXCEPT !.cache[l] = <<n>> \o @, !.next[n] = IF h.cache[l] = <<>> THEN Null ELSE Head(h.cache[l])]

AddToCache(h, l, n) ==
    IF Len(h.cache[l]) < iCacheSize
    THEN [h EXCEPT !.cache[l] = <<n>> \o @, !.next[n] = IF h.cache[l] = <<>> THEN Null ELSE Head(h.cache[l])]
    ELSE Free(h, {n})

\* A node for x between two neighbours, either of which may be missing.
Link(h, l, x, before, after) ==
    LET n == NewNode(h, l)
        g == RemoveFromCache(h, l)
        f == [g EXCEPT !.data[n] = x, !.prev[n] = before, !.next[n] = after,
                       !.first[l] = IF before = Null THEN n ELSE @,
                       !.last[l] = IF after = Null THEN n ELSE @,
                       !.count[l] = @ + 1]
    IN IF n = Null THEN h ELSE SetPrev(SetNext(f, before, n), after, n)

AddTailI(h, l, x) == Link(h, l, x, h.last[l], Null)
AddHeadI(h, l, x) == Link(h, l, x, Null, h.first[l])

AddAfterI(h, l, p, x) ==
    IF p = Null THEN AddHeadI(h, l, x) ELSE Link(h, l, x, p, h.next[p])

AddBeforeI_Last(h, l, p, x) ==      \* mutated form: like AddAfter(NULL, x)
    IF p = Null THEN AddHeadI(h, l, x) ELSE Link(h, l, x, h.prev[p], p)

AddBeforeI(h, l, p, x) ==
    IF p = Null THEN AddTailI(h, l, x) ELSE Link(h, l, x, h.prev[p], p)

RemoveI(h, l, p) ==
    LET f == [h EXCEPT !.first[l] = IF h.prev[p] = Null THEN h.next[p] ELSE @,
                       !.last[l] = IF h.next[p] = Null THEN h.prev[p] ELSE @,
                       !.count[l] = @ - 1]
    IN AddToCache(SetPrev(SetNext(f, h.prev[p], h.next[p]), h.next[p], h.prev[p]), l, p)

\* The nodes are deleted, not cached.
RemoveAll(h, l) ==
    Free([h EXCEPT !.count[l] = 0, !.first[l] = Null, !.last[l] = Null], Range(Chain(h, l)))

AddOne(h, l, where, p, x) ==
    CASE where = "tail"   -> AddTailI(h, l, x)
      [] where = "head"   -> AddHeadI(h, l, x)
      [] where = "after"  -> AddAfterI(h, l, p, x)
      [] where = "before" -> AddBeforeI(h, l, p, x)

\* The objects of the nodes ns one by one: the position follows along, and a
\* failed addition ends the loop.
AddEach(h, l, where, p, ns) ==
    LET added[k \in 0..Len(ns)] ==
            IF k = 0 THEN [h |-> h, p |-> p]
            ELSE LET g == added[k - 1] IN
                 IF NewNode(g.h, l) = Null THEN g
                 ELSE [h |-> AddOne(g.h, l, where, g.p, g.h.data[ns[k]]), p |-> NewNode(g.h, l)]
    IN added[Len(ns)].h

\* A whole list: forwards at the tail or after a position, backwards at the head
\* or before one, which keeps its order.
AddTailList(h, l, m)      == AddEach(h, l, "tail", Null, Chain(h, m))
AddAfterList(h, l, p, m)  == AddEach(h, l, "after", p, Chain(h, m))
AddHeadList(h, l, m)      == AddEach(h, l, "head", Null, Walk(h.prev, h.last[m]))
AddBeforeList(h, l, p, m) == AddEach(h, l, "before", p, Walk(h.prev, h.last[m]))

\* The elements of l up to p go to the end of m: the chains are joined, the
\* anchors set, and the chain is cut after p.
MoveToTail(h, l, p, m) ==
    LET cMove  == Len(Walk(h.prev, p))
        joined == SetPrev(SetNext(h, h.last[m], h.first[l]), h.first[l], h.last[m])
        rest   == joined.next[p]
        moved  == [joined EXCEPT
                     !.first[m] = IF @ = Null THEN h.first[l] ELSE @, !.first[l] = rest,
                     !.last[l] = IF rest = Null THEN Null ELSE @,     !.last[m] = p,
                     !.count[l] = @ - cMove,                          !.count[m] = @ + cMove]
    IN SetNext(SetPrev(moved, rest, Null), p, Null)

\* The elements of l from p on go to the start of m.
MoveToHead(h, l, p, m) ==
    LET cMove  == Len(Walk(h.next, p))
        joined == SetNext(SetPrev(h, h.first[m], h.last[l]), h.last[l], h.first[m])
        rest   == joined.prev[p]
        moved  == [joined EXCEPT
                     !.last[m] = IF @ = Null THEN h.last[l] ELSE @,  !.last[l] = rest,
                     !.first[l] = IF rest = Null THEN Null ELSE @,   !.first[m] = p,
                     !.count[l] = @ - cMove,                         !.count[m] = @ + cMove]
    IN SetPrev(SetNext(moved, rest, Null), p, Null)

ReverseList(h, l) ==
    LET N == Range(Chain(h, l))
    IN [h EXCEPT !.next = [n \in Nodes |-> IF n \in N THEN h.prev[n] ELSE @[n]],
                 !.prev = [n \in Nodes |-> IF n \in N THEN h.next[n] ELSE @[n]],
                 !.first[l] = h.last[l], !.last[l] = h.first[l]]

-----------------------------------------------------------------------------
(* What the comments promise, on sequences.  Memory for k nodes is left.   *)

Available(h, l) == Len(h.cache[l]) + Cardinality(h.free)

Index(h, l, p) == CHOOSE i \in DOMAIN Chain(h, l) : Chain(h, l)[i] = p

\* How many objects come before an addition after, or before, a position; the
\* null position is before the list for the one and behind it for the other.
UpTo(l, p)   == IF p = Null THEN 0 ELSE Index(heap, l, p)
Before(l, p) == IF p = Null THEN Len(contents[l]) ELSE Index(heap, l, p) - 1

Prefix(s, i) == SubSeq(s, 1, i)
Suffix(s, i) == SubSeq(s, i + 1, Len(s))

Smaller(i, j) == IF i < j THEN i ELSE j

\* As many of them as there is memory for, the first or the last ones.
FirstOf(s, k) == Prefix(s, Smaller(k, Len(s)))
LastOf(s, k)  == Suffix(s, Len(s) - Smaller(k, Len(s)))

Splice(s, i, t) == Prefix(s, i) \o t \o Suffix(s, i)

-----------------------------------------------------------------------------
Init ==
    /\ heap = [first |-> [l \in Lists |-> Null], last |-> [l \in Lists |-> Null],
               count |-> [l \in Lists |-> 0],    cache |-> [l \in Lists |-> <<>>],
               next |-> [n \in Nodes |-> Null],  prev |-> [n \in Nodes |-> Null],
               data |-> [n \in Nodes |-> Null],  free |-> Nodes]
    /\ contents = [l \in Lists |-> <<>>]

Become(l, s) == contents' = [contents EXCEPT ![l] = s]

Add(l) ==
    \E x \in Data :
       LET one == FirstOf(<<x>>, Available(heap, l)) IN
       \/ heap' = AddTailI(heap, l, x) /\ Become(l, contents[l] \o one)
       \/ heap' = AddHeadI(heap, l, x) /\ Become(l, one \o contents[l])
       \/ \E p \in Range(Chain(heap, l)) \cup {Null} :
             \/ /\ heap' = AddAfterI(heap, l, p, x)
                /\ Become(l, Splice(contents[l], UpTo(l, p), one))
             \/ /\ heap' = AddBeforeI(heap, l, p, x)
                /\ Become(l, Splice(contents[l], Before(l, p), one))

\* Remove, RemoveHead and RemoveTail.
Delete(l) ==
    \E p \in Range(Chain(heap, l)) :
       /\ heap' = RemoveI(heap, l, p)
       /\ Become(l, RemoveAt(contents[l], Index(heap, l, p)))

Clear(l) == heap' = RemoveAll(heap, l) /\ Become(l, <<>>)

AddList(l, m) ==
    LET k == Available(heap, l) IN
    \/ heap' = AddTailList(heap, l, m) /\ Become(l, contents[l] \o FirstOf(contents[m], k))
    \/ heap' = AddHeadList(heap, l, m) /\ Become(l, LastOf(contents[m], k) \o contents[l])
    \/ \E p \in Range(Chain(heap, l)) \cup {Null} :
          \/ /\ heap' = AddAfterList(heap, l, p, m)
             /\ Become(l, Splice(contents[l], UpTo(l, p), FirstOf(contents[m], k)))
          \/ /\ heap' = AddBeforeList(heap, l, p, m)
             /\ Become(l, Splice(contents[l], Before(l, p), LastOf(contents[m], k)))

Move(l, m) ==
    \E p \in Range(Chain(heap, l)) :
       LET i == Index(heap, l, p) IN
       \/ /\ heap' = MoveToTail(heap, l, p, m)
          /\ contents' = [contents EXCEPT ![l] = Suffix(@, i),
                                          ![m] = @ \o Prefix(contents[l], i)]
       \/ /\ heap' = MoveToHead(heap, l, p, m)
          /\ contents' = [contents EXCEPT ![l] = Prefix(@, i - 1),
                                          ![m] = Suffix(contents[l], i - 1) \o @]

Turn(l) == heap' = ReverseList(heap, l) /\ Become(l, Reverse(contents[l]))

Next ==
    \/ \E l \in Lists : Add(l) \/ Delete(l) \/ Clear(l) \/ Turn(l)
    \/ \E l \in Lists : \E m \in Lists \ {l} : AddList(l, m) \/ Move(l, m)

Spec == Init /\ [][Next]_vars

-----------------------------------------------------------------------------
\* The objects along a chain of nodes.
Objects(ns) == [i \in DOMAIN ns |-> heap.data[ns[i]]]

\* Every list reads, forwards along m_pNext and backwards along m_pPrev, as
\* the sequence that its operations promised, and its count is its length.
IsItsContents ==
    \A l \in Lists :
        /\ Objects(Chain(heap, l)) = contents[l]
        /\ Objects(Walk(heap.prev, heap.last[l])) = Reverse(contents[l])
        /\ heap.count[l] = Len(contents[l])

\* No node is lost and none is in two places: every node is in one list, in one
\* cache or in free memory, and no cache is over its size, whatever was moved
\* from one list to another.
NodesAccounted ==
    /\ heap.free \cup UNION {Range(Chain(heap, l)) \cup Range(heap.cache[l]) : l \in Lists} = Nodes
    /\ \A l \in Lists :
          /\ IsInjective(heap.cache[l]) /\ Len(heap.cache[l]) <= iCacheSize
          /\ heap.free \cap (Range(Chain(heap, l)) \cup Range(heap.cache[l])) = {}
          /\ \A m \in Lists :
                /\ Range(Chain(heap, l)) \cap Range(heap.cache[m]) = {}
                /\ l # m => /\ Range(Chain(heap, l)) \cap Range(Chain(heap, m)) = {}
                            /\ Range(heap.cache[l]) \cap Range(heap.cache[m]) = {}
=============================================================================
