------------------------------ MODULE MCGraph ------------------------------
(***************************************************************************)
(* Two things an application does to a running graph: it blocks an output  *)
(* pin and changes its connection (CDynamicOutputPin), and it seeks        *)
(* (CSourceSeeking, CPosPassThru).  One run checks them one at a time: part*)
(* says which one, and the other stays in its initial state.               *)
(***************************************************************************)
EXTENDS Integers, FiniteSets, Sequences

CONSTANTS Apps, Streamers, None     \* of DynamicPin
CONSTANTS Length, Rates             \* of Seeking

VARIABLES
    m_BlockState, m_hNotifyCallerPinBlockedEvent, m_dwBlockCallerThreadID,
    m_hUnblockOutputPinEvent, m_hStopEvent, m_dwNumOutstandingOutputPinUsers,
    app, streamer, event, undone, active, flushing, outType, inType, committed, broken

VARIABLES
    interface, connected, m_rtStart, m_rtStop, m_dRateSeeking, m_pLock, m_InterfaceLock,
    m_RendererLock, m_State, m_bStreaming, m_bFlushing, m_bEOS, m_bEOSDelivered,
    m_EndOfStreamTimer, m_StartMedia, m_EndMedia, m_bReset, graph, call, worker,
    m_rtSampleTime, segment, last, llStop, received

VARIABLE part

Dynamic == INSTANCE DynamicPin
Seek    == INSTANCE Seeking

ASSUME GraphAssumption == Dynamic!DynamicPinAssumption /\ Seek!SeekingAssumption

dynamicVars ==
    << m_BlockState, m_hNotifyCallerPinBlockedEvent, m_dwBlockCallerThreadID,
       m_hUnblockOutputPinEvent, m_hStopEvent, m_dwNumOutstandingOutputPinUsers,
       app, streamer, event, undone, active, flushing, outType, inType, committed, broken >>

seekVars ==
    << interface, connected, m_rtStart, m_rtStop, m_dRateSeeking, m_pLock, m_InterfaceLock,
       m_RendererLock, m_State, m_bStreaming, m_bFlushing, m_bEOS, m_bEOSDelivered,
       m_EndOfStreamTimer, m_StartMedia, m_EndMedia, m_bReset, graph, call, worker,
       m_rtSampleTime, segment, last, llStop, received >>

graphVars == << part, dynamicVars, seekVars >>

MCInit ==
    /\ part \in {"dynamic", "seek"}
    /\ Dynamic!Init /\ Seek!Init
    /\ part = "dynamic" => interface = "IMediaSeeking"

MCNext ==
    \/ part = "dynamic" /\ Dynamic!Next /\ UNCHANGED << part, seekVars >>
    \/ part = "seek" /\ Seek!Next /\ UNCHANGED << part, dynamicVars >>

MCSpec ==
    /\ MCInit /\ [][MCNext]_graphVars
    /\ \A s \in Streamers :
         /\ WF_dynamicVars(part = "dynamic" /\ Dynamic!GoesOn(s))
         /\ WF_dynamicVars(part = "dynamic" /\ Dynamic!ChangesFormat(s))
         /\ SF_dynamicVars(part = "dynamic" /\ Dynamic!StopUsingOutputPin(s))
    /\ \A a \in Apps : WF_dynamicVars(part = "dynamic" /\ Dynamic!Blocked(a))
    /\ WF_seekVars(part = "seek" /\ Seek!InCall)
    /\ WF_seekVars(part = "seek" /\ Seek!WorkerNext)
    /\ WF_seekVars(part = "seek" /\ Seek!NotifyEndOfStream("timer"))

------------------------------------------------------------------------------
\* Whoever was told that the pin is blocked finds it used by nobody until it is
\* unblocked, and both ends of the connection agree whenever no change is
\* under way (DynamicPin).  The position the renderer answers is of the stream
\* as it is since the last seek or stop, and the source's worker plays the
\* positions that were asked for last (Seeking).
GraphSound ==
    /\ part = "dynamic" => Dynamic!TypeOK /\ Dynamic!BlockSound /\ Dynamic!ConnectionSound
    /\ part = "seek" => Seek!TypeOK /\ Seek!PositionSound /\ Seek!PlaysWhatIsAsked

\* A thread that waits for a blocked pin, or for the block, goes on; and every
\* seek and every stop returns, though the renderer asks the source for its
\* stop position while the source flushes the renderer.
GraphCallsReturn == Dynamic!BlockReturns /\ Seek!CallsReturn
==============================================================================
