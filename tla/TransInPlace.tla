----------------------------- MODULE TransInPlace -----------------------------
(***************************************************************************)
(* How a chain of CTransInPlaceFilter (baseclasses transip.cpp) settles on *)
(* media types and allocators between an upstream and a downstream filter. *)
(* Link k joins the output pin of filter k to the input pin of filter k+1; *)
(* filter 0 is the upstream filter, filter N+1 the downstream one.         *)
(*                                                                         *)
(* The upstream filters are the cases A to D of the source's table, the    *)
(* downstream ones E and F.  A connection that calls for another one asks  *)
(* the graph, which reconnects in the order it was asked.  The application *)
(* connects and disconnects in between.  Every pin takes every type, and   *)
(* every allocator the size it is asked for.                               *)
(***************************************************************************)
EXTENDS Integers, Sequences, FiniteSetsExt

CONSTANTS
    N,              \* the number of filters in the chain
    Types,
    MaxConnects     \* bound: the application connects that often

TransInPlaceAssumption == N \in Nat \ {0} /\ MaxConnects \in Nat

Links   == 0..N
Filters == 1..N

Sources  == {"A", "B", "C", "D"}
Sinks    == {"E", "F"}
ReadOnly == {"A", "B"}      \* the upstream filter's own allocator
Insists  == {"A", "C"}      \* on using its own allocator
Offers   == {"E"}           \* the downstream filter supplies an allocator

\* Whose allocator it is, and of which link: the upstream or downstream filter's, or one
\* that the output pin or the input pin of a filter has made.
Allocators == [by : Sources \cup Sinks \cup {"output", "input"}, link : Links]
None       == [by |-> "none", link |-> 0]
NoType     == "none"

VARIABLES
    m_bModifiesData,        \* of each filter
    source, sink,           \* what is connected at the ends
    connected,
    out, in,                \* m_pAllocator of the two pins of each link
    m_bReadOnly,            \* of each input pin
    m_mt,
    pending,                \* the reconnects the graph was asked for
    connects

vars == << m_bModifiesData, source, sink, connected, out, in, m_bReadOnly, m_mt, pending, connects >>

Init ==
    /\ m_bModifiesData \in [Filters -> BOOLEAN]
    /\ source \in Sources /\ sink \in Sinks
    /\ connected = {}
    /\ out = [k \in Links |-> None] /\ in = [k \in Links |-> None]
    /\ m_bReadOnly = [k \in Links |-> FALSE] /\ m_mt = [k \in Links |-> NoType]
    /\ pending = << >> /\ connects = 0

-----------------------------------------------------------------------------
\* The last link that a call which an input pin passes on to its output pin reaches.
Reached(k) == Max({l \in k..N : k + 1..l \subseteq connected})

\* GetAllocator at that end: the pin's allocator, made if it has none.
OfferAt(l, allocators) ==
    IF l = N /\ sink \notin Offers THEN None
    ELSE IF allocators[l] # None THEN allocators[l]
    ELSE [by |-> IF l = N THEN sink ELSE "input", link |-> l]

\* The allocator an output pin makes itself.
OwnAllocator(k) == [by |-> IF k = 0 THEN source ELSE "output", link |-> k]

Copier_PassOn(k, l, readOnly) == l + 1         \* mutated form: read-only or not

\* Of a read-only allocator, the first filter that it must not be passed on by; the
\* filter keeps its output pin's allocator, and copies.
Copier(k, l, readOnly) ==
    IF readOnly /\ \E f \in k + 1..l : m_bModifiesData[f]
    THEN Min({f \in k + 1..l : m_bModifiesData[f]}) ELSE l + 1

\* Every input pin passes the offer on, and its filter's output pin takes it over: SetAllocator.
OffersTaken(k, l, offer, allocators) ==
    [i \in Links |-> IF offer # None /\ i \in k + 1..l THEN offer ELSE allocators[i]]

Requests_OnlyIfDifferent(k, t) ==       \* mutated form: the input as well only if it has another type
    (IF k + 1 \in connected /\ m_mt[k + 1] # t THEN << [link |-> k + 1, type |-> t] >> ELSE << >>)
    \o (IF k > 0 /\ m_mt[k - 1] # t THEN << [link |-> k - 1, type |-> t] >> ELSE << >>)

Requests_Always(k, t) ==                \* mutated form: the output as well whatever its type
    (IF k + 1 \in connected THEN << [link |-> k + 1, type |-> t] >> ELSE << >>)
    \o (IF k > 0 THEN << [link |-> k - 1, type |-> t] >> ELSE << >>)

\* What CompleteConnect asks of the graph: the output is reconnected if it has another type,
\* the input always.
Requests(k, t) ==
    (IF k + 1 \in connected /\ m_mt[k + 1] # t THEN << [link |-> k + 1, type |-> t] >> ELSE << >>)
    \o (IF k > 0 THEN << [link |-> k - 1, type |-> t] >> ELSE << >>)

\* DecideAllocator and NotifyAllocator, down the chain; an allocator that is not passed on
\* is replaced by the copier's.
ConnectLink(k, t, queue) ==
    LET l        == Reached(k)
        free     == [in EXCEPT ![k] = None]
        offer    == OfferAt(l, free)
        useOffer == offer # None /\ ~(k = 0 /\ source \in Insists)
        chosen   == IF useOffer THEN offer ELSE OwnAllocator(k)
        readOnly == k = 0 /\ ~useOffer /\ source \in ReadOnly
        copier   == Copier(k, l, readOnly)
        kept     == OffersTaken(k, l, offer, out)
        after    == IF copier <= l THEN kept[copier] ELSE None
    IN  /\ chosen # after
        /\ connected' = connected \cup {k}
        /\ in' = [i \in Links |-> IF i \notin k..l THEN in[i] ELSE IF i < copier THEN chosen ELSE after]
        /\ out' = [i \in Links |-> IF i \notin k..l THEN kept[i] ELSE IF i < copier THEN chosen ELSE after]
        /\ m_bReadOnly' = [i \in Links |-> IF i \in k..l THEN readOnly /\ i < copier ELSE m_bReadOnly[i]]
        /\ m_mt' = [m_mt EXCEPT ![k] = t]
        /\ pending' = queue \o Requests(k, t)

\* The filter's output is only connected after its input.
Connect(k, t) ==
    /\ connects < MaxConnects
    /\ k \notin connected /\ (k > 0 => k - 1 \in connected)
    /\ ConnectLink(k, t, pending)
    /\ connects' = connects + 1
    /\ UNCHANGED << m_bModifiesData, source, sink >>

\* BreakConnect of both pins.  Another filter may be connected there afterwards.
Disconnect(k) ==
    /\ k \in connected /\ connects < MaxConnects
    /\ connected' = connected \ {k}
    /\ out' = [out EXCEPT ![k] = None] /\ in' = [in EXCEPT ![k] = None]
    /\ m_mt' = [m_mt EXCEPT ![k] = NoType]
    /\ source' \in (IF k = 0 THEN Sources ELSE {source})
    /\ sink' \in (IF k = N THEN Sinks ELSE {sink})
    /\ UNCHANGED << m_bModifiesData, m_bReadOnly, pending, connects >>

Reconnect ==
    /\ pending # << >>
    /\ LET k == Head(pending).link IN
         \/ /\ k \in connected /\ (k > 0 => k - 1 \in connected)
            /\ ConnectLink(k, Head(pending).type, Tail(pending))
         \/ /\ k \notin connected
            /\ pending' = Tail(pending)
            /\ UNCHANGED << connected, out, in, m_bReadOnly, m_mt >>
         \/ /\ k \in connected /\ k > 0 /\ k - 1 \notin connected
            /\ pending' = Tail(pending)
            /\ connected' = connected \ {k}
            /\ out' = [out EXCEPT ![k] = None] /\ in' = [in EXCEPT ![k] = None]
            /\ m_mt' = [m_mt EXCEPT ![k] = NoType]
            /\ UNCHANGED m_bReadOnly
    /\ UNCHANGED << m_bModifiesData, source, sink, connects >>

Next ==
    \/ \E k \in Links : Disconnect(k) \/ \E t \in Types : Connect(k, t)
    \/ Reconnect

Spec == Init /\ [][Next]_vars /\ WF_vars(Reconnect)

-----------------------------------------------------------------------------
(* Properties.                                                             *)

AtRest   == pending = << >>
Complete == connected = Links

UsingDifferentAllocators(f) == in[f - 1] # out[f]

TypeOK ==
    /\ m_bModifiesData \in [Filters -> BOOLEAN]
    /\ source \in Sources /\ sink \in Sinks /\ connected \subseteq Links
    /\ \A k \in Links :
         /\ {out[k], in[k]} \subseteq Allocators \cup {None}
         /\ m_bReadOnly[k] \in BOOLEAN /\ m_mt[k] \in Types \cup {NoType}
    /\ \A i \in DOMAIN pending : pending[i].link \in Links /\ pending[i].type \in Types
    /\ connects \in 0..MaxConnects

\* The samples that are delivered over a link come from the allocator its input pin was told
\* of, also while reconnects are pending; and a filter that changes the data of a read-only
\* allocator copies it.
AllocatorsSound ==
    /\ \A k \in Links :
         /\ k \in connected => out[k] = in[k] /\ in[k] # None
         /\ k \notin connected => out[k] = None
    /\ \A f \in Filters :
         {f - 1, f} \subseteq connected /\ m_bModifiesData[f] /\ m_bReadOnly[f - 1]
           => UsingDifferentAllocators(f)

\* Once the reconnects are done, the whole chain has one type, and one allocator, that of an
\* upstream filter that insists on it; except that a read-only one is copied, once, by the
\* first filter that changes the data.
ChainAgrees ==
    AtRest /\ Complete =>
        /\ \A k \in Links : m_mt[k] = m_mt[0]
        /\ LET copiers == {f \in Filters : UsingDifferentAllocators(f)} IN
             /\ source = "C" => in[0].by = "C"
             /\ source # "A" /\ ~(source = "B" /\ sink = "F") => copiers = {}
             /\ copiers \subseteq {f \in Filters : m_bModifiesData[f]}
             /\ \A f, g \in copiers : f = g

\* The reconnects peter out.
PetersOut == ~AtRest ~> AtRest

\* As transip.cpp's comment says, "00 <-" is a state that always has a reconnect pending.
RestsAsCommented ==
    AtRest => \A f \in Filters :
        f \in connected /\ f - 1 \notin connected => out[f].by \notin Sources
==============================================================================
