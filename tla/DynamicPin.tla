------------------------------ MODULE DynamicPin ------------------------------
(***************************************************************************)
(* CDynamicOutputPin (baseclasses amfilter.cpp): an output pin that the    *)
(* application can block while the graph runs, to reconnect it, and whose  *)
(* streaming threads can change its format.                                *)
(*                                                                         *)
(* Block and Unblock come on application threads, StartUsingOutputPin and  *)
(* StopUsingOutputPin on streaming threads, Active, Inactive and the flush *)
(* on the filter's; the first two take m_BlockStateLock.  A thread that    *)
(* changes the blocked connection is the only one to unblock it meanwhile. *)
(* The streaming threads have ended before the filter is activated again,  *)
(* and before an end of flush.                                             *)
(***************************************************************************)
EXTENDS Naturals, FiniteSets

CONSTANTS Apps, Streamers, None     \* None: no thread

DynamicPinAssumption == IsFiniteSet(Streamers) /\ None \notin Apps

VARIABLES
    m_BlockState,                       \* "not", "pending" or "blocked"
    m_hNotifyCallerPinBlockedEvent,     \* whose duplicated event is kept
    m_dwBlockCallerThreadID,
    m_hUnblockOutputPinEvent, m_hStopEvent,
    m_dwNumOutstandingOutputPinUsers,
    app, streamer,                      \* where the threads are
    event,                              \* the callers' own events
    undone,                             \* callers whose block was undone by Unblock
    active, flushing,                   \* the filter's state
    outType, inType, committed,         \* the connection
    broken                              \* a change of the format has failed

blockVars == << m_BlockState, m_hNotifyCallerPinBlockedEvent, m_dwBlockCallerThreadID,
                m_hUnblockOutputPinEvent, m_dwNumOutstandingOutputPinUsers, event, undone >>
connVars  == << outType, inType, committed, broken >>
vars == << blockVars, m_hStopEvent, app, streamer, active, flushing, connVars >>

Init ==
    /\ m_BlockState = "not" /\ m_hNotifyCallerPinBlockedEvent = None
    /\ m_dwBlockCallerThreadID = None
    /\ m_hUnblockOutputPinEvent = TRUE /\ m_hStopEvent = FALSE
    /\ m_dwNumOutstandingOutputPinUsers = 0
    /\ app = [a \in Apps |-> "idle"] /\ streamer = [s \in Streamers |-> "idle"]
    /\ event = [a \in Apps |-> FALSE] /\ undone = [a \in Apps |-> FALSE]
    /\ active = FALSE /\ flushing = FALSE
    /\ outType = "old" /\ inType = "old" /\ committed = FALSE /\ broken = FALSE

-----------------------------------------------------------------------------
(* Blocking.                                                               *)

\* BlockOutputPin, of which a caller with an event is told.
BlockOutputPin(caller) ==
    /\ m_BlockState' = "blocked" /\ m_hUnblockOutputPinEvent' = FALSE
    /\ event' = IF caller = None THEN event ELSE [event EXCEPT ![caller] = TRUE]
    /\ m_hNotifyCallerPinBlockedEvent' = None

\* AsynchronousBlockOutputPin, after Block has reset the caller's event.  Block
\* without an event waits for one of its own.
Block(a, synchronous) ==
    /\ app[a] = "idle" /\ m_BlockState = "not"
    /\ m_dwBlockCallerThreadID' = a
    /\ undone' = [undone EXCEPT ![a] = FALSE]
    /\ IF m_dwNumOutstandingOutputPinUsers = 0
       THEN BlockOutputPin(a)
       ELSE /\ m_BlockState' = "pending" /\ m_hNotifyCallerPinBlockedEvent' = a
            /\ event' = [event EXCEPT ![a] = FALSE]
            /\ UNCHANGED m_hUnblockOutputPinEvent
    /\ app' = [app EXCEPT ![a] = IF synchronous THEN "wait" ELSE "idle"]
    /\ UNCHANGED << m_dwNumOutstandingOutputPinUsers, m_hStopEvent, streamer, active, flushing,
                    connVars >>

\* VFW_E_PIN_ALREADY_BLOCKED, after the caller's event was reset.
BlockRefused(a) ==
    /\ app[a] = "idle" /\ m_BlockState # "not"
    /\ event' = [event EXCEPT ![a] = FALSE]
    /\ UNCHANGED << m_BlockState, m_hNotifyCallerPinBlockedEvent, m_dwBlockCallerThreadID,
                    m_hUnblockOutputPinEvent, m_dwNumOutstandingOutputPinUsers, undone,
                    m_hStopEvent, app, streamer, active, flushing, connVars >>

\* SynchronousBlockOutputPin's wait.
Blocked(a) ==
    /\ app[a] = "wait" /\ event[a]
    /\ app' = [app EXCEPT ![a] = "idle"]
    /\ UNCHANGED << blockVars, m_hStopEvent, streamer, active, flushing, connVars >>

\* UnblockOutputPin sets both events, so that a pending caller is let go as well.
UnblockWith(told) ==
    /\ m_BlockState # "not" /\ \A b \in Apps : app[b] # "change"
    /\ m_hUnblockOutputPinEvent' = TRUE
    /\ event' = [a \in Apps |-> event[a] \/ a \in told]
    /\ undone' = [a \in Apps |-> TRUE]
    /\ m_BlockState' = "not" /\ m_dwBlockCallerThreadID' = None
    /\ m_hNotifyCallerPinBlockedEvent' = None
    /\ UNCHANGED << m_dwNumOutstandingOutputPinUsers, m_hStopEvent, app, streamer, active, flushing,
                    connVars >>

UnblockOutputPin_NotTold(a) == app[a] = "idle" /\ UnblockWith({})   \* mutated form

UnblockOutputPin(a) == app[a] = "idle" /\ UnblockWith({m_hNotifyCallerPinBlockedEvent})

\* Whoever was told that the pin is blocked may give it another connection.
BeginChange(a) ==
    /\ app[a] = "idle" /\ event[a] /\ ~undone[a] /\ m_dwBlockCallerThreadID = a
    /\ app' = [app EXCEPT ![a] = "change"]
    /\ UNCHANGED << blockVars, m_hStopEvent, streamer, active, flushing, connVars >>

CompleteConnect_NotCommitted(a) ==      \* mutated form
    /\ app[a] = "change"
    /\ app' = [app EXCEPT ![a] = "idle"]
    /\ \E t \in {"old", "new"} : outType' = t /\ inType' = t
    /\ committed' = FALSE /\ broken' = FALSE
    /\ UNCHANGED << blockVars, m_hStopEvent, streamer, active, flushing >>

\* CompleteConnect commits the new allocator of an active pin.
CompleteConnect(a) ==
    /\ app[a] = "change"
    /\ app' = [app EXCEPT ![a] = "idle"]
    /\ \E t \in {"old", "new"} : outType' = t /\ inType' = t
    /\ committed' = active /\ broken' = FALSE
    /\ UNCHANGED << blockVars, m_hStopEvent, streamer, active, flushing >>

-----------------------------------------------------------------------------
(* Streaming.                                                              *)

At(s, from, to) == streamer[s] = from /\ streamer' = [streamer EXCEPT ![s] = to]

UseUnlessBlocked_OrPending(s, from) ==      \* mutated form: counted as well when blocked
    /\ At(s, from, "use")
    /\ m_dwNumOutstandingOutputPinUsers' = m_dwNumOutstandingOutputPinUsers + 1

UseUnlessBlocked(s, from) ==
    /\ m_BlockState # "blocked" /\ At(s, from, "use")
    /\ m_dwNumOutstandingOutputPinUsers' = m_dwNumOutstandingOutputPinUsers + 1

UsersOnly == UNCHANGED << m_BlockState, m_hNotifyCallerPinBlockedEvent, m_dwBlockCallerThreadID,
                          m_hUnblockOutputPinEvent, event, undone, m_hStopEvent, app, active,
                          flushing, connVars >>

StartUsingOutputPin(s) == active /\ UseUnlessBlocked(s, "idle") /\ UsersOnly

\* The lock is left, and then the wait begins.
StartWaiting(s) ==
    /\ active /\ m_BlockState = "blocked" /\ At(s, "idle", "wait")
    /\ UNCHANGED << blockVars, m_hStopEvent, app, active, flushing, connVars >>

\* Unblocked, which is the first event of the wait, or stopped.
Wake(s) ==
    /\ m_hUnblockOutputPinEvent /\ At(s, "wait", "retry")
    /\ UNCHANGED << blockVars, m_hStopEvent, app, active, flushing, connVars >>

StateChanged(s) ==
    /\ ~m_hUnblockOutputPinEvent /\ m_hStopEvent /\ At(s, "wait", "idle")
    /\ UNCHANGED << blockVars, m_hStopEvent, app, active, flushing, connVars >>

\* With the lock again, the loop looks at the state once more.
Retry(s) == UseUnlessBlocked(s, "retry") /\ UsersOnly

WaitAgain(s) ==
    /\ m_BlockState = "blocked" /\ At(s, "retry", "wait")
    /\ UNCHANGED << blockVars, m_hStopEvent, app, active, flushing, connVars >>

\* The last user blocks the pin for whoever is waiting for that.
StopUsingOutputPin(s) ==
    /\ At(s, "use", "idle")
    /\ m_dwNumOutstandingOutputPinUsers' = m_dwNumOutstandingOutputPinUsers - 1
    /\ IF m_dwNumOutstandingOutputPinUsers = 1 /\ m_BlockState # "not"
       THEN BlockOutputPin(m_hNotifyCallerPinBlockedEvent)
       ELSE UNCHANGED << m_BlockState, m_hUnblockOutputPinEvent, event,
                         m_hNotifyCallerPinBlockedEvent >>
    /\ UNCHANGED << m_dwBlockCallerThreadID, undone, m_hStopEvent, app, active, flushing, connVars >>

\* ChangeMediaTypeHelper: the connected pin receives the new type, and this pin takes it.
ChangeMediaType(s) ==
    /\ At(s, "use", "decommit")
    /\ inType' = "new" /\ outType' = "new"
    /\ UNCHANGED << committed, broken, blockVars, m_hStopEvent, app, active, flushing >>

ChangeFails(s) ==
    /\ At(s, "use", "use")
    /\ inType' = "new" /\ broken' = TRUE
    /\ UNCHANGED << outType, committed, blockVars, m_hStopEvent, app, active, flushing >>

Decommit(s) ==
    /\ At(s, "decommit", "decide")
    /\ committed' = FALSE
    /\ UNCHANGED << inType, outType, broken, blockVars, m_hStopEvent, app, active, flushing >>

DecideFails(s) ==
    /\ At(s, "decide", "use")
    /\ broken' = TRUE
    /\ UNCHANGED << inType, outType, committed, blockVars, m_hStopEvent, app, active, flushing >>

Commit(s) ==
    /\ At(s, "decide", "use")
    /\ committed' = TRUE
    /\ UNCHANGED << inType, outType, broken, blockVars, m_hStopEvent, app, active, flushing >>

-----------------------------------------------------------------------------
(* The filter's state, and flushing.                                       *)

Active ==
    /\ ~active /\ \A s \in Streamers : streamer[s] = "idle"
    /\ \A a \in Apps : app[a] # "change"
    /\ active' = TRUE /\ m_hStopEvent' = FALSE /\ committed' = TRUE
    /\ UNCHANGED << blockVars, app, streamer, flushing, outType, inType, broken >>

Inactive ==
    /\ active /\ ~flushing /\ \A a \in Apps : app[a] # "change"
    /\ active' = FALSE /\ m_hStopEvent' = TRUE /\ committed' = FALSE
    /\ UNCHANGED << blockVars, app, streamer, flushing, outType, inType, broken >>

DeliverBeginFlush ==
    /\ active /\ ~flushing
    /\ flushing' = TRUE /\ m_hStopEvent' = TRUE
    /\ UNCHANGED << blockVars, app, streamer, active, connVars >>

DeliverEndFlush ==
    /\ flushing /\ \A s \in Streamers : streamer[s] = "idle"
    /\ flushing' = FALSE /\ m_hStopEvent' = FALSE
    /\ UNCHANGED << blockVars, app, streamer, active, connVars >>

-----------------------------------------------------------------------------
StreamStep(s) ==
    \/ Wake(s) \/ StateChanged(s) \/ Retry(s) \/ WaitAgain(s)
    \/ StopUsingOutputPin(s) \/ Decommit(s) \/ DecideFails(s) \/ Commit(s)

Next ==
    \/ \E a \in Apps :
         \/ \E synchronous \in BOOLEAN : Block(a, synchronous)
         \/ BlockRefused(a) \/ Blocked(a) \/ UnblockOutputPin(a)
         \/ BeginChange(a) \/ CompleteConnect(a)
    \/ \E s \in Streamers :
         StartUsingOutputPin(s) \/ StartWaiting(s) \/ StreamStep(s)
         \/ ChangeMediaType(s) \/ ChangeFails(s)
    \/ Active \/ Inactive \/ DeliverBeginFlush \/ DeliverEndFlush

\* Every thread goes on, and a use of the pin ends.
GoesOn(s) == Wake(s) \/ StateChanged(s) \/ Retry(s) \/ WaitAgain(s)

ChangesFormat(s) == Decommit(s) \/ DecideFails(s) \/ Commit(s)

Fairness ==
    /\ \A s \in Streamers :
         WF_vars(GoesOn(s)) /\ WF_vars(ChangesFormat(s)) /\ SF_vars(StopUsingOutputPin(s))
    /\ \A a \in Apps : WF_vars(Blocked(a))

Spec == Init /\ [][Next]_vars /\ Fairness

-----------------------------------------------------------------------------
(* Properties.                                                             *)

InUse == {s \in Streamers : streamer[s] \in {"use", "decommit", "decide"}}

TypeOK ==
    /\ m_BlockState \in {"not", "pending", "blocked"}
    /\ m_hNotifyCallerPinBlockedEvent \in Apps \cup {None}
    /\ m_dwBlockCallerThreadID \in Apps \cup {None}
    /\ {m_hUnblockOutputPinEvent, m_hStopEvent, active, flushing, committed, broken} \subseteq BOOLEAN
    /\ m_dwNumOutstandingOutputPinUsers \in 0..Cardinality(Streamers)
    /\ app \in [Apps -> {"idle", "wait", "change"}]
    /\ streamer \in [Streamers -> {"idle", "wait", "retry", "use", "decommit", "decide"}]
    /\ event \in [Apps -> BOOLEAN] /\ undone \in [Apps -> BOOLEAN]
    /\ outType \in {"old", "new"} /\ inType \in {"old", "new"}

\* What AssertValid asserts after every step: the caller's event is kept as long as
\* its block is pending, the caller as long as anything is asked, a blocked pin
\* is used by nobody, and its event is reset.  Whoever was told that the pin
\* is blocked finds it so until Unblock, though other threads ask to use it.
BlockSound ==
    /\ m_dwNumOutstandingOutputPinUsers = Cardinality(InUse)
    /\ (m_BlockState = "pending") <=> (m_hNotifyCallerPinBlockedEvent # None)
    /\ (m_BlockState = "not") <=> (m_dwBlockCallerThreadID = None)
    /\ (m_BlockState = "blocked") <=> ~m_hUnblockOutputPinEvent
    /\ m_BlockState = "blocked" => InUse = {}
    /\ \A a \in Apps :
         m_dwBlockCallerThreadID = a /\ event[a] /\ ~undone[a] => m_BlockState = "blocked"
    /\ \A a \in Apps : app[a] = "change" => InUse = {}

\* Both ends have the same type, and an active pin a committed allocator, whenever no
\* change is under way and none has failed.
ConnectionSound ==
    ~broken /\ (\A s \in Streamers : streamer[s] \notin {"decommit", "decide"})
       => inType = outType /\ (active => committed)

\* A thread that waits for the pin goes on once it is unblocked, or stopped; a
\* pending block happens or is cancelled, unless the uses overlap for ever;
\* and the thread that waits for it goes on.
BlockReturns ==
    /\ \A s \in Streamers : streamer[s] = "wait" /\ ~active ~> streamer[s] # "wait"
    /\ \A s \in Streamers : <>[](m_BlockState = "not") => (streamer[s] = "wait" ~> streamer[s] # "wait")
    /\ <>[](Cardinality(InUse) < 2) => (m_BlockState = "pending" ~> m_BlockState # "pending")
    /\ \A a \in Apps : (app[a] = "wait" /\ m_BlockState # "pending") ~> app[a] # "wait"
==============================================================================
