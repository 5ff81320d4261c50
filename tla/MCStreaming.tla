----------------------------- MODULE MCStreaming -----------------------------
(***************************************************************************)
(* Two parts of a pin that decide when a sample flows: CPullPin, which     *)
(* reads it from upstream, and CBaseStreamControl, which holds or discards *)
(* it.  One run checks them one at a time: inUse says which one works, and *)
(* the other stays in its initial state.  A variable named pull... or Pull *)
(* is the one of PullPin without it.                                       *)
(***************************************************************************)
EXTENDS Integers, FiniteSets, Sequences

CONSTANTS Buffers, BufferSize, Align, FileLength, Starts, Stops    \* of PullPin
CONSTANTS MaxTime                                                  \* of StreamControl

VARIABLES
    pullConnected, m_bSync, m_tStart, m_tStop, m_PullState, thread, request, replied, pullFlushing,
    place, range, method, client, pullWorker, job, delivered, ended

VARIABLES
    m_StreamState, m_StreamStateOnStop, m_tStartTime, m_tStopTime, m_dwStartCookie,
    m_dwStopCookie, m_StreamEvent, m_FilterState, m_bIsFlushing, m_bStopSendExtra,
    m_bStopExtraSent, m_pRefClock, now, caller, sample, startDue, stopDue

VARIABLE inUse

Pull    == INSTANCE PullPin WITH connected <- pullConnected, m_State <- m_PullState, flushing <- pullFlushing,
                                worker <- pullWorker
Control == INSTANCE StreamControl

ASSUME StreamingAssumption == Pull!PullPinAssumption /\ Control!StreamControlAssumption

pullVars ==
    << pullConnected, m_bSync, m_tStart, m_tStop, m_PullState, thread, request, replied, pullFlushing,
       place, range, method, client, pullWorker, job, delivered, ended >>

controlVars ==
    << m_StreamState, m_StreamStateOnStop, m_tStartTime, m_tStopTime, m_dwStartCookie,
       m_dwStopCookie, m_StreamEvent, m_FilterState, m_bIsFlushing, m_bStopSendExtra,
       m_bStopExtraSent, m_pRefClock, now, caller, sample, startDue, stopDue >>

streamingVars == << inUse, pullVars, controlVars >>

StreamingInit ==
    /\ inUse \in {"pull", "control"}
    /\ Pull!Init /\ Control!Init
    /\ inUse = "pull" => m_pRefClock

StreamingNext ==
    \/ inUse = "pull" /\ Pull!Next /\ UNCHANGED << inUse, controlVars >>
    \/ inUse = "control" /\ Control!Next /\ UNCHANGED << inUse, pullVars >>

StreamingSpec ==
    /\ StreamingInit /\ [][StreamingNext]_streamingVars
    /\ WF_pullVars(inUse = "pull" /\ Pull!Worker)
    /\ WF_pullVars(inUse = "pull" /\ Pull!Continue)
    /\ WF_pullVars(inUse = "pull" /\ Pull!DownstreamRelease)
    /\ WF_controlVars(inUse = "control" /\ Control!CallerStep)
    /\ WF_controlVars(inUse = "control" /\ Control!Tick)

------------------------------------------------------------------------------
\* Whenever the pulling thread waits for a command no read is outstanding, no
\* flush is left over and nothing is pulled after Pause or Disconnect; every
\* position asked for is delivered once before the end of the stream
\* (PullPin).  A sample is sent or discarded as the comment on the nineteen
\* cases says (StreamControl).
StreamingSound ==
    /\ inUse = "pull" => Pull!PullSound /\ Pull!EndMeansAll
    /\ inUse = "control" => Control!TypeOK /\ Control!CasesAsCommented

\* The application is told of every start and every stop it wants to be told
\* of, also when the stream jumps over it or the filter stops before it.
ToldOfEverything == [][Control!TellsOfEverything]_streamingVars

\* Whoever starts, pauses, seeks or disconnects the pulling pin returns, though
\* the reader may never complete a request; and a held sample is let go when
\* the pin is flushed, the filter stops, or its time comes.
Held(when) ==
    \/ inUse = "pull" /\ client # "idle"
    \/ inUse = "control" /\ Control!Holds(when)

LetGo(when) ==
    \/ inUse = "pull" /\ client = "idle"
    \/ inUse = "control" /\ Control!Releases(when)

StreamingMoves == \A when \in {"over", "running"} : Held(when) ~> LetGo(when)
==============================================================================
