--------------------------- MODULE PinEnumerator ---------------------------
(***************************************************************************)
(* CEnumPins (amfilter.cpp) over the pins of a CSource (source.cpp) whose  *)
(* derived class adds and removes pins while it is enumerated.  Only       *)
(* GetPin and GetPinCount take the filter's lock: a method of the          *)
(* enumerator is a sequence of such steps.  m_PinCache is a list of module *)
(* BaseList; its order plays no part here.                                 *)
(***************************************************************************)
EXTENDS Integers, FiniteSets, SequencesExt

CONSTANTS
    Pins,
    Enums,
    MaxPins,      \* bound: pins the filter is created with
    MaxAsk,       \* bound: pins asked for or skipped at a time
    MaxVersion    \* bound: changes of the filter's pins

EnumAssumption == MaxAsk \in Nat \ {0} /\ MaxVersion \in Nat

VARIABLES
    m_paStreams,   \* the filter's pins
    m_PinVersion,
    changed,       \* the pins have changed and the version has not yet
    m_Version, m_PinCount, m_Position, m_PinCache,    \* of each enumerator
    pc,
    asked,         \* of each call of Next: cPins - cFetched
    handed,        \* the pins given to the owner since creation or Reset
    skipped        \* Skip was called since then

filterVars == <<m_paStreams, m_PinVersion, changed>>
enumVars   == <<m_Version, m_PinCount, m_Position, m_PinCache>>
callVars   == <<pc, asked, handed, skipped>>
vars == <<filterVars, enumVars, callVars>>

Init ==
    /\ m_paStreams \in {s \in SeqOf(Pins, MaxPins) : IsInjective(s)}
    /\ m_PinVersion = 1 /\ changed = FALSE
    /\ m_Version = [e \in Enums |-> 0]
    /\ m_PinCount = [e \in Enums |-> 0]
    /\ m_Position = [e \in Enums |-> 0]
    /\ m_PinCache = [e \in Enums |-> {}]
    /\ pc = [e \in Enums |-> "none"]
    /\ asked = [e \in Enums |-> 0]
    /\ handed = [e \in Enums |-> <<>>]
    /\ skipped = [e \in Enums |-> FALSE]

Goto(e, label) == pc' = [pc EXCEPT ![e] = label]

-----------------------------------------------------------------------------
(* The filter. *)

AddPin(p) ==
    /\ ~changed /\ m_PinVersion < MaxVersion
    /\ p \notin Range(m_paStreams)
    /\ m_paStreams' = Append(m_paStreams, p)
    /\ changed' = TRUE
    /\ UNCHANGED <<m_PinVersion, enumVars, callVars>>

RemovePin(p) ==
    /\ ~changed /\ m_PinVersion < MaxVersion
    /\ p \in Range(m_paStreams)
    /\ m_paStreams' = RemoveAt(m_paStreams, CHOOSE i \in DOMAIN m_paStreams : m_paStreams[i] = p)
    /\ changed' = TRUE
    /\ UNCHANGED <<m_PinVersion, enumVars, callVars>>

\* Called by the derived class once its pins have changed.
IncrementPinVersion ==
    /\ changed
    /\ m_PinVersion' = m_PinVersion + 1
    /\ changed' = FALSE
    /\ UNCHANGED <<m_paStreams, enumVars, callVars>>

-----------------------------------------------------------------------------
(* The enumerator. *)

AreWeOutOfSync(e) == m_Version[e] # m_PinVersion

TakeVersion(e) == /\ m_Version' = [m_Version EXCEPT ![e] = m_PinVersion]
                  /\ UNCHANGED <<m_PinCount, m_Position>>

TakeCount(e) == /\ m_PinCount' = [m_PinCount EXCEPT ![e] = Len(m_paStreams)]
                /\ m_Position' = [m_Position EXCEPT ![e] = 0]
                /\ UNCHANGED m_Version

\* The constructor, Reset and Refresh all read the version, then the count.
Sync_CountFirst(e, step) ==     \* mutated form: the other way round
    IF step = 2 THEN TakeVersion(e) ELSE TakeCount(e)

Sync(e, step) == IF step = 1 THEN TakeVersion(e) ELSE TakeCount(e)

\* EnumPins; and Reset, which also empties the cache of pins already returned.
Begin(e) ==
    /\ pc[e] \in {"none", "idle"}
    /\ Sync(e, 1) /\ Goto(e, "count")
    /\ UNCHANGED <<filterVars, m_PinCache, asked, handed, skipped>>

BeginCount(e) ==
    /\ pc[e] = "count"
    /\ Sync(e, 2) /\ Goto(e, "idle")
    /\ m_PinCache' = [m_PinCache EXCEPT ![e] = {}]
    /\ handed' = [handed EXCEPT ![e] = <<>>]
    /\ skipped' = [skipped EXCEPT ![e] = FALSE]
    /\ UNCHANGED <<filterVars, asked>>

\* Next(cPins): out of sync, it refreshes but keeps the cache.
CallNext(e, cPins) ==
    /\ pc[e] = "idle"
    /\ asked' = [asked EXCEPT ![e] = cPins]
    /\ Goto(e, IF AreWeOutOfSync(e) THEN "refresh" ELSE "loop")
    /\ UNCHANGED <<filterVars, enumVars, handed, skipped>>

Refresh(e) ==
    /\ pc[e] = "refresh"
    /\ Sync(e, 1) /\ Goto(e, "refreshcount")
    /\ UNCHANGED <<filterVars, m_PinCache, asked, handed, skipped>>

RefreshCount_ClearsCache(e) ==  \* mutated form: like Reset
    /\ pc[e] = "refreshcount"
    /\ Sync(e, 2) /\ Goto(e, "loop")
    /\ m_PinCache' = [m_PinCache EXCEPT ![e] = {}]
    /\ UNCHANGED <<filterVars, asked, handed, skipped>>

RefreshCount(e) ==
    /\ pc[e] = "refreshcount"
    /\ Sync(e, 2) /\ Goto(e, "loop")
    /\ UNCHANGED <<filterVars, m_PinCache, asked, handed, skipped>>

\* One pass of the loop: GetPin(m_Position++); a pin that is not in the cache
\* is given out and put there.
Fetch(e) ==
    /\ pc[e] = "loop"
    /\ asked[e] > 0 /\ m_Position[e] < m_PinCount[e]
    /\ m_Position' = [m_Position EXCEPT ![e] = @ + 1]
    /\ IF m_Position[e] >= Len(m_paStreams)
       THEN Goto(e, "idle") /\ UNCHANGED <<m_PinCache, asked, handed>>  \* VFW_E_ENUM_OUT_OF_SYNC
       ELSE LET pPin == m_paStreams[m_Position[e] + 1] IN
            IF pPin \in m_PinCache[e]
            THEN UNCHANGED <<pc, m_PinCache, asked, handed>>
            ELSE /\ m_PinCache' = [m_PinCache EXCEPT ![e] = @ \cup {pPin}]
                 /\ handed' = [handed EXCEPT ![e] = Append(@, pPin)]
                 /\ asked' = [asked EXCEPT ![e] = @ - 1]
                 /\ UNCHANGED pc
    /\ UNCHANGED <<filterVars, m_Version, m_PinCount, skipped>>

\* S_OK or S_FALSE.
Return(e) ==
    /\ pc[e] = "loop"
    /\ asked[e] = 0 \/ m_Position[e] >= m_PinCount[e]
    /\ Goto(e, "idle")
    /\ asked' = [asked EXCEPT ![e] = 0]
    /\ UNCHANGED <<filterVars, enumVars, handed, skipped>>

Skip(e, cPins) ==
    /\ pc[e] = "idle" /\ ~AreWeOutOfSync(e)
    /\ cPins <= m_PinCount[e] - m_Position[e]
    /\ m_Position' = [m_Position EXCEPT ![e] = @ + cPins]
    /\ skipped' = [skipped EXCEPT ![e] = TRUE]
    /\ UNCHANGED <<filterVars, m_Version, m_PinCount, m_PinCache, pc, asked, handed>>

\* The new enumerator has the same state; its owner has seen the same pins.
Clone(e, new) ==
    /\ pc[e] = "idle" /\ pc[new] = "none" /\ ~AreWeOutOfSync(e)
    /\ m_Version' = [m_Version EXCEPT ![new] = m_Version[e]]
    /\ m_PinCount' = [m_PinCount EXCEPT ![new] = m_PinCount[e]]
    /\ m_Position' = [m_Position EXCEPT ![new] = m_Position[e]]
    /\ m_PinCache' = [m_PinCache EXCEPT ![new] = m_PinCache[e]]
    /\ handed' = [handed EXCEPT ![new] = handed[e]]
    /\ skipped' = [skipped EXCEPT ![new] = skipped[e]]
    /\ Goto(new, "idle")
    /\ UNCHANGED <<filterVars, asked>>

Next ==
    \/ \E p \in Pins : AddPin(p) \/ RemovePin(p)
    \/ IncrementPinVersion
    \/ \E e \in Enums :
          \/ Begin(e) \/ BeginCount(e) \/ Refresh(e) \/ RefreshCount(e) \/ Fetch(e) \/ Return(e)
          \/ \E n \in 1..MaxAsk : CallNext(e, n) \/ Skip(e, n)
          \/ \E new \in Enums : Clone(e, new)

Spec == Init /\ [][Next]_vars

-----------------------------------------------------------------------------
\* Between two Resets no pin is given out twice, over any number of calls of
\* Next, refreshes and changes of the filter, nor by a clone once the original
\* had given it out; and Reset starts over.
NoPinTwice ==
    \A e \in Enums : /\ IsInjective(handed[e])
                     /\ pc[e] = "idle" => Range(handed[e]) = m_PinCache[e]

\* An enumerator that believes it is in sync and has come to its end has given
\* out every pin the filter has, whatever the filter did between its steps.
EnumerationComplete ==
    \A e \in Enums :
        pc[e] = "idle" /\ ~changed /\ ~AreWeOutOfSync(e) /\ ~skipped[e]
            /\ m_Position[e] >= m_PinCount[e]
          => Range(m_paStreams) \subseteq Range(handed[e])
=============================================================================
