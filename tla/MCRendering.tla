----------------------------- MODULE MCRendering -----------------------------
(***************************************************************************)
(* The renderers of the base classes: when a sample is shown and how states*)
(* change meanwhile (Renderer, on the clock of AdviseSchedule), and which  *)
(* frames a video renderer shows (VideoQuality), where times are those of a*)
(* single thread.  One run checks them one at a time: part says which, and *)
(* the other stays in its initial state.                                   *)
(***************************************************************************)
EXTENDS Integers, FiniteSets, Sequences

CONSTANTS Clients, RenderEvent, Other, Period, OtherTimes, MaxCookie, MaxNow,
          SampleTimes                                           \* of Renderer
CONSTANTS Duration, Renders, Leads, Lags, MaxFrames             \* of VideoQuality

VARIABLES
    now, schedule, m_ev, clock, rtNow, wait, signalled,
    m_pClock, m_State, m_tStart, m_bStreaming, m_bEOS, m_bEOSDelivered, m_bAbort,
    m_bRunTimeError, m_bFlushing, m_bInReceive, m_pMediaSample, m_SignalTime, m_dwAdvise,
    m_ThreadSignal, ready, m_EndOfStreamTimer, timers, callbacks, app, source, sourceEnd,
    completes

VARIABLES
    m_trRenderAvg, m_trRenderLast, m_trFrameAvg, m_trDuration, m_trWaitAvg, m_trEarliness,
    m_trLastDraw, m_nNormal, m_bSupplierHandlingQuality, m_cFramesDrawn, m_cFramesDropped,
    m_iTotAcc, m_iSumSqAcc, m_iSumSqFrameTime, m_iSumFrameTime, m_trLate, m_trFrame,
    proportion, frame, drawAt, arrival, lastShown, slowest, shortest

VARIABLE part

Rendering == INSTANCE Renderer
Quality   == INSTANCE VideoQuality WITH now <- arrival

ASSUME RenderingAssumption ==
    /\ Rendering!ScheduleAssumption /\ Rendering!RendererAssumption
    /\ Quality!VideoQualityAssumption

renderingVars ==
    << now, schedule, m_ev, clock, rtNow, wait, signalled,
       m_pClock, m_State, m_tStart, m_bStreaming, m_bEOS, m_bEOSDelivered, m_bAbort,
       m_bRunTimeError, m_bFlushing, m_bInReceive, m_pMediaSample, m_SignalTime, m_dwAdvise,
       m_ThreadSignal, ready, m_EndOfStreamTimer, timers, callbacks, app, source, sourceEnd,
       completes >>

qualityVars ==
    << m_trRenderAvg, m_trRenderLast, m_trFrameAvg, m_trDuration, m_trWaitAvg, m_trEarliness,
       m_trLastDraw, m_nNormal, m_bSupplierHandlingQuality, m_cFramesDrawn, m_cFramesDropped,
       m_iTotAcc, m_iSumSqAcc, m_iSumSqFrameTime, m_iSumFrameTime, m_trLate, m_trFrame,
       proportion, frame, drawAt, arrival, lastShown, slowest, shortest >>

mcVars == << part, renderingVars, qualityVars >>

RenderingInit ==
    /\ part \in {"rendering", "quality"}
    /\ Rendering!Init /\ Quality!Init
    /\ part = "rendering" => arrival = 0
    /\ part = "quality" => m_pClock /\ schedule = << >>

RenderingNext ==
    \/ part = "rendering" /\ Rendering!Next /\ UNCHANGED << part, qualityVars >>
    \/ part = "quality" /\ Quality!Next /\ UNCHANGED << part, renderingVars >>

RenderingSpec ==
    /\ RenderingInit /\ [][RenderingNext]_mcVars
    /\ WF_renderingVars(part = "rendering" /\ Rendering!Application)
    /\ WF_renderingVars(part = "rendering" /\ Rendering!Receive)
    /\ WF_renderingVars(part = "rendering" /\ Rendering!Deliver)
    /\ WF_renderingVars(part = "rendering" /\ Rendering!TimerFires)
    /\ WF_renderingVars(part = "rendering" /\ Rendering!TimerCallback)
    /\ WF_renderingVars(part = "rendering" /\ Rendering!ClockThread)
    /\ WF_renderingVars(part = "rendering" /\ Rendering!TimePasses)

------------------------------------------------------------------------------
\* A renderer holds a sample only while its source's thread is in the Receive
\* that brought it, reports no error of its own making, announces the end of a
\* stream once and leaves nothing after Stop (Renderer); no frame is shown
\* before it came or earlier than its mode allows, and the statistics of the
\* property page are possible numbers (VideoQuality).
RenderingSound ==
    /\ part = "rendering" => Rendering!RendererSound
    /\ part = "quality" => Quality!StatisticsSound /\ Quality!ShownInTime

\* The clock's thread sleeps past no advise (AdviseSchedule).
AdvisesWake == part = "rendering" => Rendering!WakesInTime

\* A frame is dropped only when it is late, when drawing has been slow beside
\* the frames or the supplier is far behind, and when a picture was shown
\* within the last second; and the next one makes up for it (VideoQuality).
DropsAreJustified == [][part = "quality" => Quality!DropIsJustified]_mcVars

\* Stop and BeginFlush return, a paused renderer becomes ready, and the end of
\* the stream is announced.
Waits(what)  == part = "rendering" /\ Rendering!Waits(what)
Served(what) == part = "rendering" /\ Rendering!Served(what)

RenderingGoesOn == \A what \in {"call", "pause", "end"} : Waits(what) ~> Served(what)
==============================================================================
