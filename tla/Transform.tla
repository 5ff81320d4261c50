------------------------------ MODULE Transform ------------------------------
(***************************************************************************)
(* CTransformFilter and CVideoTransformFilter (baseclasses transfrm.cpp,   *)
(* vtrans.cpp) with the parts of CBaseInputPin and CBaseOutputPin they call*)
(* (amfilter.cpp): a filter between two others, whose Receive runs on the  *)
(* source's thread under m_csReceive while the graph's threads start, stop *)
(* and flush it under m_csFilter.  The video filter drops frames when it is*)
(* late, and then waits for a key frame.                                   *)
(*                                                                         *)
(* The source, the downstream filter and the decoder (Transform) are       *)
(* external.  The graph starts the filters from downstream to upstream, and*)
(* stops them in that order too.  Times are in frame lengths, of which     *)
(* lateness has whole ones.                                                *)
(***************************************************************************)
EXTENDS Integers

CONSTANTS
    MaxGap,         \* the source sends a key frame at least this often
    GiveUpAfter,    \* frames after which no key frame is waited for: 30
    LateCap,        \* beyond it lateness is called silly: 30 seconds
    Lateness        \* what the downstream filter complains of

TransformAssumption ==
    /\ MaxGap \in Nat /\ GiveUpAfter \in Nat \ {0}
    /\ LateCap \in Nat /\ Lateness \subseteq Nat

VARIABLES
    video,              \* a CVideoTransformFilter, or a plain CTransformFilter
    inConnected, outConnected,
    m_State, m_bFlushing, m_bRunTimeError, m_bEOSDelivered, m_bSampleSkipped,
    m_csFilter, m_csReceive,            \* who holds them
    m_nKeyFramePeriod, m_nFramesSinceKeyFrame, m_bSkipping, m_itrLate, m_nWaitForKey,
    app, flusher, streamer,             \* where the threads are
    sample,             \* what the source's thread has in Receive
    dn,                 \* the downstream filter and the output's allocator
    source,             \* "off", "first" (a discontinuity is due), "on" or "ended"
    gap, timed,         \* frames since the source's last key frame; they have times
    stale,              \* the sample is older than the last flush
    intact,             \* every frame since the last key frame went to the decoder
    gaveUp,             \* the wait for a key frame was given up
    lost                \* a frame was dropped since the last buffer was asked for

connVars   == << video, inConnected, outConnected, timed >>
stateVars  == << m_State, m_bFlushing, m_bRunTimeError, m_bEOSDelivered >>
lockVars   == << m_csFilter, m_csReceive >>
qualVars   == << m_nKeyFramePeriod, m_nFramesSinceKeyFrame, m_bSkipping, m_itrLate >>
threadVars == << app, flusher, streamer >>
histVars   == << intact, gaveUp, lost >>
vars == << connVars, stateVars, m_bSampleSkipped, lockVars, qualVars, m_nWaitForKey,
           threadVars, sample, dn, source, gap, stale, histVars >>

Larger(a, b) == IF a > b THEN a ELSE b

Both == inConnected /\ outConnected

NoSample == [key |-> FALSE, discontinuity |-> FALSE, newType |-> FALSE]
Idle     == [running |-> FALSE, flushing |-> FALSE, committed |-> FALSE,
             held |-> FALSE, ended |-> FALSE]

\* m_nWaitForKey is set by no constructor: garbage, also a negative one.
Init ==
    /\ video \in BOOLEAN /\ timed \in BOOLEAN
    /\ inConnected = FALSE /\ outConnected = FALSE
    /\ m_State = "Stopped" /\ m_bFlushing = FALSE /\ m_bRunTimeError = FALSE
    /\ m_bEOSDelivered = FALSE /\ m_bSampleSkipped = FALSE
    /\ m_csFilter = "none" /\ m_csReceive = "none"
    /\ m_nKeyFramePeriod = 0 /\ m_nFramesSinceKeyFrame = 0
    /\ m_bSkipping = FALSE /\ m_itrLate = 0
    /\ m_nWaitForKey \in {-1, 0}
    /\ app = "idle" /\ flusher = "idle" /\ streamer = "idle"
    /\ sample = NoSample /\ dn = Idle /\ source = "off"
    /\ gap = 0 /\ stale = FALSE
    /\ intact = FALSE /\ gaveUp = FALSE /\ lost = FALSE

-----------------------------------------------------------------------------
(* Connections, made and broken while stopped.                             *)

Quiet == app = "idle" /\ flusher = "idle" /\ m_csFilter = "none" /\ m_State = "Stopped"

ConnectInput ==
    /\ Quiet /\ ~inConnected
    /\ inConnected' = TRUE
    /\ UNCHANGED << video, outConnected, timed, stateVars, m_bSampleSkipped, lockVars,
                    qualVars, m_nWaitForKey, threadVars, sample, dn, source, gap, stale, histVars >>

\* The output needs the input's media type first.
ConnectOutput ==
    /\ Quiet /\ inConnected /\ ~outConnected
    /\ outConnected' = TRUE
    /\ UNCHANGED << video, inConnected, timed, stateVars, m_bSampleSkipped, lockVars,
                    qualVars, m_nWaitForKey, threadVars, sample, dn, source, gap, stale, histVars >>

DisconnectInput ==
    /\ Quiet /\ inConnected
    /\ inConnected' = FALSE
    /\ UNCHANGED << video, outConnected, timed, stateVars, m_bSampleSkipped, lockVars,
                    qualVars, m_nWaitForKey, threadVars, sample, dn, source, gap, stale, histVars >>

-----------------------------------------------------------------------------
(* Starting and stopping, under m_csFilter.                                *)

FilterFree  == m_csFilter = "none"
ReceiveFree == m_csReceive = "none"

\* CVideoTransformFilter::StartStreaming forgets a skipped sample too; the plain
\* one does nothing, and the caller leaves m_bSampleSkipped as given.
StartStreaming(skipped) ==
    /\ m_bSampleSkipped' = (skipped /\ ~video)
    /\ IF video
       THEN /\ m_nKeyFramePeriod' = 0 /\ m_nFramesSinceKeyFrame' = 0
            /\ m_bSkipping' = FALSE /\ m_itrLate' = 0
       ELSE UNCHANGED qualVars

DeliverEndOfStream == outConnected /\ dn' = [dn EXCEPT !.ended = TRUE]

\* The graph starts the downstream filter first.
BeginPause ==
    /\ app = "idle" /\ flusher = "idle" /\ m_State # "Paused"
    /\ app' = "pause"
    /\ dn' = IF m_State = "Stopped" THEN [Idle EXCEPT !.running = TRUE] ELSE dn
    /\ UNCHANGED << connVars, stateVars, m_bSampleSkipped, lockVars, qualVars, m_nWaitForKey,
                    flusher, streamer, sample, source, gap, stale, histVars >>

\* Without an input connection downstream is told that nothing will come.
PauseUnfed ==
    /\ app = "pause" /\ FilterFree /\ ~inConnected
    /\ IF m_bEOSDelivered THEN UNCHANGED dn
       ELSE DeliverEndOfStream \/ (~outConnected /\ UNCHANGED dn)
    /\ m_bEOSDelivered' = TRUE
    /\ m_State' = "Paused" /\ m_bSampleSkipped' = FALSE /\ lost' = FALSE
    /\ app' = "idle"
    /\ UNCHANGED << connVars, m_bFlushing, m_bRunTimeError, lockVars, qualVars, m_nWaitForKey,
                    flusher, streamer, sample, source, gap, stale, intact, gaveUp >>

\* Without an output connection, and from Running, no streaming starts.
PauseOnly ==
    /\ app = "pause" /\ FilterFree /\ inConnected
    /\ ~outConnected \/ m_State = "Running"
    /\ m_State' = "Paused" /\ m_bSampleSkipped' = FALSE /\ lost' = FALSE
    /\ app' = "idle"
    /\ source' = IF m_State = "Stopped" THEN "first" ELSE source
    /\ UNCHANGED << connVars, m_bFlushing, m_bRunTimeError, m_bEOSDelivered, lockVars, qualVars,
                    m_nWaitForKey, flusher, streamer, sample, dn, gap, stale, intact, gaveUp >>

PauseEnter ==
    /\ app = "pause" /\ FilterFree /\ Both /\ m_State = "Stopped"
    /\ m_csFilter' = "app" /\ app' = "pausesync"
    /\ UNCHANGED << connVars, stateVars, m_bSampleSkipped, m_csReceive, qualVars, m_nWaitForKey,
                    flusher, streamer, sample, dn, source, gap, stale, histVars >>

\* Under m_csReceive too; then CBaseFilter::Pause commits the output's allocator,
\* and the graph starts the source.
PauseSync ==
    /\ app = "pausesync" /\ ReceiveFree
    /\ StartStreaming(FALSE)
    /\ dn' = [dn EXCEPT !.committed = TRUE]
    /\ m_State' = "Paused" /\ lost' = FALSE
    /\ m_csFilter' = "none" /\ app' = "idle" /\ source' = "first"
    /\ UNCHANGED << connVars, m_bFlushing, m_bRunTimeError, m_bEOSDelivered, m_csReceive,
                    m_nWaitForKey, flusher, streamer, sample, gap, stale, intact, gaveUp >>

Run ==
    /\ app = "idle" /\ FilterFree /\ m_State = "Paused"
    /\ m_State' = "Running"
    /\ UNCHANGED << connVars, m_bFlushing, m_bRunTimeError, m_bEOSDelivered, m_bSampleSkipped,
                    lockVars, qualVars, m_nWaitForKey, threadVars, sample, dn, source, gap, stale,
                    histVars >>

\* The downstream filter is stopped before: its Receive returns, and the
\* allocator that the two share is decommitted.
BeginStop ==
    /\ app = "idle" /\ m_State # "Stopped"
    /\ app' = "stop" /\ dn' = Idle
    /\ UNCHANGED << connVars, stateVars, m_bSampleSkipped, lockVars, qualVars, m_nWaitForKey,
                    flusher, streamer, sample, source, gap, stale, histVars >>

StopUnconnected ==
    /\ app = "stop" /\ FilterFree /\ ~Both
    /\ m_State' = "Stopped" /\ m_bEOSDelivered' = FALSE
    /\ app' = "stopsource"
    /\ UNCHANGED << connVars, m_bFlushing, m_bRunTimeError, m_bSampleSkipped, lockVars, qualVars,
                    m_nWaitForKey, flusher, streamer, sample, dn, source, gap, stale, histVars >>

\* CBaseInputPin::Inactive comes before m_csReceive.
StopEnter ==
    /\ app = "stop" /\ FilterFree /\ Both
    /\ m_csFilter' = "app" /\ app' = "stopsync"
    /\ m_bRunTimeError' = FALSE /\ m_bFlushing' = FALSE
    /\ UNCHANGED << connVars, m_State, m_bEOSDelivered, m_bSampleSkipped, m_csReceive, qualVars,
                    m_nWaitForKey, flusher, streamer, sample, dn, source, gap, stale, histVars >>

StopSync_NotWaited ==           \* mutated form: Receive is not waited for
    /\ app = "stopsync"
    /\ dn' = [dn EXCEPT !.committed = FALSE]
    /\ m_State' = "Stopped" /\ m_bEOSDelivered' = FALSE
    /\ m_csFilter' = "none" /\ app' = "stopsource"
    /\ UNCHANGED << connVars, m_bFlushing, m_bRunTimeError, m_bSampleSkipped, m_csReceive, qualVars,
                    m_nWaitForKey, flusher, streamer, sample, source, gap, stale, histVars >>

StopSync ==
    /\ app = "stopsync" /\ ReceiveFree
    /\ dn' = [dn EXCEPT !.committed = FALSE]
    /\ m_State' = "Stopped" /\ m_bEOSDelivered' = FALSE
    /\ m_csFilter' = "none" /\ app' = "stopsource"
    /\ UNCHANGED << connVars, m_bFlushing, m_bRunTimeError, m_bSampleSkipped, m_csReceive, qualVars,
                    m_nWaitForKey, flusher, streamer, sample, source, gap, stale, histVars >>

\* At last the graph stops the source, which waits for its thread.
StopSource ==
    /\ app = "stopsource" /\ streamer = "idle"
    /\ app' = "idle" /\ source' = "off"
    /\ UNCHANGED << connVars, stateVars, m_bSampleSkipped, lockVars, qualVars, m_nWaitForKey,
                    flusher, streamer, sample, dn, gap, stale, histVars >>

-----------------------------------------------------------------------------
(* Flushing, on another thread and under m_csFilter only.                  *)

BeginFlush_NotDelivered ==      \* mutated form: downstream is not flushed
    /\ flusher = "idle" /\ app = "idle" /\ source # "off" /\ FilterFree /\ Both
    /\ m_bFlushing' = TRUE
    /\ dn' = dn
    /\ flusher' = "flushing" /\ stale' = TRUE
    /\ UNCHANGED << connVars, m_State, m_bRunTimeError, m_bEOSDelivered, m_bSampleSkipped, lockVars,
                    qualVars, m_nWaitForKey, app, streamer, sample, source, gap, histVars >>

BeginFlush ==
    /\ flusher = "idle" /\ app = "idle" /\ source # "off" /\ FilterFree /\ Both
    /\ m_bFlushing' = TRUE
    /\ dn' = [dn EXCEPT !.flushing = TRUE, !.held = FALSE]
    /\ flusher' = "flushing" /\ stale' = TRUE
    /\ UNCHANGED << connVars, m_State, m_bRunTimeError, m_bEOSDelivered, m_bSampleSkipped, lockVars,
                    qualVars, m_nWaitForKey, app, streamer, sample, source, gap, histVars >>

\* The video filter waits for m_csReceive; the plain one relies on a source
\* that has synchronized with its thread, as EndFlush's comment demands.
EndFlush ==
    /\ flusher = "flushing" /\ FilterFree
    /\ video \/ streamer = "idle"
    /\ m_csFilter' = "flusher" /\ flusher' = "endflush"
    /\ UNCHANGED << connVars, stateVars, m_bSampleSkipped, m_csReceive, qualVars, m_nWaitForKey,
                    app, streamer, sample, dn, source, gap, stale, histVars >>

EndFlushSync ==
    /\ flusher = "endflush" /\ (ReceiveFree \/ ~video)
    /\ StartStreaming(m_bSampleSkipped)
    /\ flusher' = "unflush"
    /\ UNCHANGED << connVars, stateVars, lockVars, m_nWaitForKey,
                    app, streamer, sample, dn, source, gap, stale, histVars >>

\* DeliverEndFlush, then CBaseInputPin::EndFlush, and the source goes on.
FlushIsOver ==
    /\ flusher = "unflush"
    /\ dn' = [dn EXCEPT !.flushing = FALSE, !.ended = FALSE]
    /\ m_bFlushing' = FALSE /\ m_bRunTimeError' = FALSE
    /\ m_csFilter' = "none" /\ flusher' = "idle"
    /\ source' = IF source = "off" THEN "off" ELSE "first"
    /\ UNCHANGED << connVars, m_State, m_bEOSDelivered, m_bSampleSkipped, m_csReceive, qualVars,
                    m_nWaitForKey, app, streamer, sample, gap, stale, histVars >>

-----------------------------------------------------------------------------
(* Receive, on the source's thread and under m_csReceive.                  *)

\* CTransformInputPin::CheckStreaming.
CheckStreaming ==
    outConnected /\ ~m_bFlushing /\ m_State # "Stopped" /\ ~m_bRunTimeError

\* The source sends key frames often enough, a discontinuity when it starts, and
\* changes the type at key frames.
Samples ==
    {s \in [key : BOOLEAN, discontinuity : {source = "first"}, newType : BOOLEAN] :
        (gap = MaxGap \/ s.newType) => s.key}

Arrives(s) ==
    /\ source \in {"first", "on"} /\ streamer = "idle" /\ ReceiveFree
    /\ sample' = s /\ stale' = FALSE
    /\ gap' = IF s.key THEN 0 ELSE gap + 1

\* Anything but S_OK ends the source's stream.
Refused ==
    /\ ~CheckStreaming
    /\ \E s \in Samples : Arrives(s)
    /\ source' = "ended"
    /\ UNCHANGED << connVars, stateVars, m_bSampleSkipped, lockVars, qualVars, m_nWaitForKey,
                    threadVars, dn, histVars >>

\* A type that is not accepted: EndOfStream() meets its own CheckStreaming, so
\* that nothing is told downstream.
TypeRefused ==
    /\ CheckStreaming
    /\ \E s \in Samples : s.newType /\ Arrives(s)
    /\ m_bRunTimeError' = TRUE /\ source' = "ended"
    /\ UNCHANGED << connVars, m_State, m_bFlushing, m_bEOSDelivered, m_bSampleSkipped, lockVars,
                    qualVars, m_nWaitForKey, threadVars, dn, histVars >>

\* CVideoTransformFilter::ShouldSkipFrame: from the longest interval between key
\* frames so far it guesses whether the next one comes soon enough.
KeyFramePeriod(s) ==
    IF s.key THEN Larger(m_nKeyFramePeriod, m_nFramesSinceKeyFrame)
    ELSE IF m_nKeyFramePeriod > 0 THEN Larger(m_nKeyFramePeriod, m_nFramesSinceKeyFrame)
    ELSE 0

FramesSince_NoReset(s) == m_nFramesSinceKeyFrame    \* mutated form: key frames are not counted from

FramesSince(s) == IF s.key THEN 0 ELSE m_nFramesSinceKeyFrame

MaySkip(s) ==
    /\ m_itrLate > 1 /\ KeyFramePeriod(s) > 0
    /\ m_itrLate > KeyFramePeriod(s) - FramesSince(s) - 1

\* slow: decoding takes more than a quarter of the frame's time.
Skips(s, slow) == (m_bSkipping /\ ~s.key) \/ (slow /\ MaySkip(s))

\* A change of the input's type restarts the streaming first.
QualityOf(s, skip) ==
    IF s.newType
    THEN /\ m_nKeyFramePeriod' = 0 /\ m_itrLate' = 0 /\ m_bSkipping' = FALSE
         /\ m_nFramesSinceKeyFrame' = 1
    ELSE /\ m_nKeyFramePeriod' = KeyFramePeriod(s)
         /\ m_nFramesSinceKeyFrame' = FramesSince(s) + 1
         /\ m_bSkipping' = skip
         /\ m_itrLate' = IF skip THEN Larger(m_itrLate - 1, 0) ELSE m_itrLate

SkipFrame ==
    /\ video /\ timed /\ CheckStreaming
    /\ \E s \in Samples :
         /\ ~s.newType /\ (Skips(s, TRUE) \/ Skips(s, FALSE))
         /\ Arrives(s) /\ QualityOf(s, TRUE)
    /\ m_bSampleSkipped' = TRUE /\ lost' = TRUE /\ intact' = FALSE
    /\ source' = "on"
    /\ UNCHANGED << connVars, stateVars, lockVars, m_nWaitForKey, threadVars, dn, gaveUp >>

Receive ==
    /\ CheckStreaming
    /\ \E s \in Samples :
         /\ Arrives(s)
         /\ IF video /\ timed
            THEN /\ s.newType \/ ~Skips(s, FALSE)
                 /\ QualityOf(s, FALSE) /\ m_bSampleSkipped' = (m_bSampleSkipped /\ ~s.newType)
            ELSE IF s.newType THEN StartStreaming(m_bSampleSkipped)
                 ELSE UNCHANGED << qualVars, m_bSampleSkipped >>
         /\ source' = "on"
    /\ m_csReceive' = "streamer" /\ streamer' = "getbuffer"
    /\ UNCHANGED << connVars, stateVars, m_csFilter, m_nWaitForKey, app, flusher, dn, histVars >>

\* Receive returns: on an error the source stops.
Return(ok) ==
    /\ m_csReceive' = "none" /\ streamer' = "idle"
    /\ source' = IF ok THEN source ELSE "ended"

BufferFails ==
    /\ streamer = "getbuffer" /\ ~dn.committed
    /\ Return(FALSE)
    /\ UNCHANGED << connVars, stateVars, m_bSampleSkipped, m_csFilter, qualVars, m_nWaitForKey,
                    app, flusher, sample, dn, gap, stale, histVars >>

\* InitializeOutputSample; the buffer may bring a new output type to the video filter.
GetBuffer ==
    /\ streamer = "getbuffer" /\ dn.committed /\ ~dn.held
    /\ \E newOutput \in {FALSE, video} :
         /\ IF newOutput THEN StartStreaming(FALSE) ELSE UNCHANGED qualVars
         /\ IF newOutput \/ sample.discontinuity
            THEN /\ m_nWaitForKey' = IF video THEN GiveUpAfter ELSE m_nWaitForKey
                 /\ intact' = sample.key /\ gaveUp' = FALSE
            ELSE /\ UNCHANGED m_nWaitForKey
                 /\ intact' = (intact \/ sample.key)
                 /\ gaveUp' = (gaveUp /\ ~sample.key)
    /\ m_bSampleSkipped' = IF video \/ sample.discontinuity THEN FALSE ELSE m_bSampleSkipped
    /\ lost' = FALSE
    /\ streamer' = "transform"
    /\ UNCHANGED << connVars, stateVars, lockVars, app, flusher, sample, dn, source, gap, stale >>

TransformFails ==
    /\ streamer = "transform"
    /\ Return(FALSE)
    /\ UNCHANGED << connVars, stateVars, m_bSampleSkipped, m_csFilter, qualVars, m_nWaitForKey,
                    app, flusher, sample, dn, gap, stale, histVars >>

WaitAfter_Zero == 0             \* mutated form: the first frame ends the wait

\* What is left of the wait for a key frame after this one.
WaitAfter ==
    IF m_nWaitForKey \in {0, 1} \/ sample.key THEN 0 ELSE m_nWaitForKey - 1

\* Transform: its S_FALSE, and a wait for a key frame, keep the frame back.
Transform ==
    /\ streamer = "transform"
    /\ m_nWaitForKey' = IF video THEN WaitAfter ELSE m_nWaitForKey
    /\ gaveUp' = (gaveUp \/ (video /\ ~sample.key /\ m_nWaitForKey = 1))
    /\ \/ /\ ~video \/ WaitAfter = 0
          /\ streamer' = "deliver"
          /\ UNCHANGED << m_bSampleSkipped, m_csReceive, lost, source >>
       \/ /\ m_bSampleSkipped' = TRUE /\ lost' = TRUE
          /\ Return(TRUE)
    /\ UNCHANGED << connVars, stateVars, m_csFilter, qualVars, app, flusher, sample, dn, gap, stale,
                    intact >>

\* The downstream filter's Receive returns; it may keep the buffer.
Deliver ==
    /\ streamer = "deliver"
    /\ IF dn.running /\ ~dn.flushing
       THEN \E keep \in BOOLEAN : dn' = [dn EXCEPT !.held = keep] /\ Return(~dn.ended)
       ELSE UNCHANGED dn /\ Return(FALSE)
    /\ m_bSampleSkipped' = IF video THEN m_bSampleSkipped ELSE FALSE
    /\ UNCHANGED << connVars, stateVars, m_csFilter, qualVars, m_nWaitForKey, app, flusher,
                    sample, gap, stale, histVars >>

\* CTransformInputPin::EndOfStream, after the source's last sample.
EndOfStream ==
    /\ source = "on" /\ streamer = "idle" /\ ReceiveFree
    /\ source' = "ended"
    /\ IF CheckStreaming THEN DeliverEndOfStream ELSE UNCHANGED dn
    /\ UNCHANGED << connVars, stateVars, m_bSampleSkipped, lockVars, qualVars, m_nWaitForKey,
                    threadVars, sample, gap, stale, histVars >>

-----------------------------------------------------------------------------
(* The downstream filter.                                                  *)

\* CVideoTransformFilter::AlterQuality clamps what was kept, not what comes.
AlterQuality ==
    /\ video /\ dn.running
    /\ \E late \in Lateness :
         m_itrLate' = IF m_itrLate > LateCap THEN LateCap ELSE late
    /\ UNCHANGED << connVars, stateVars, m_bSampleSkipped, lockVars, m_nKeyFramePeriod,
                    m_nFramesSinceKeyFrame, m_bSkipping, m_nWaitForKey, threadVars, sample, dn,
                    source, gap, stale, histVars >>

ReleaseBuffer ==
    /\ dn.held
    /\ dn' = [dn EXCEPT !.held = FALSE]
    /\ UNCHANGED << connVars, stateVars, m_bSampleSkipped, lockVars, qualVars, m_nWaitForKey,
                    threadVars, sample, source, gap, stale, histVars >>

-----------------------------------------------------------------------------
AppStep     == PauseUnfed \/ PauseOnly \/ PauseEnter \/ PauseSync
               \/ StopUnconnected \/ StopEnter \/ StopSync \/ StopSource
FlushStep   == EndFlush \/ EndFlushSync \/ FlushIsOver
StreamStep  == BufferFails \/ GetBuffer \/ TransformFails \/ Transform \/ Deliver

Next ==
    \/ ConnectInput \/ ConnectOutput \/ DisconnectInput
    \/ BeginPause \/ Run \/ BeginStop \/ AppStep
    \/ BeginFlush \/ FlushStep
    \/ Refused \/ TypeRefused \/ SkipFrame \/ Receive \/ StreamStep \/ EndOfStream
    \/ AlterQuality \/ ReleaseBuffer

\* A paused downstream filter may keep the source's thread, and its buffers, until
\* it runs, is flushed or stopped; nothing else does.
MustReturn == m_State = "Running" \/ dn.flushing \/ ~dn.running

Decodes        == BufferFails \/ GetBuffer \/ Transform
DeliverReturns == Deliver /\ MustReturn
ReleaseReturns == ReleaseBuffer /\ MustReturn

Fairness ==
    /\ WF_vars(AppStep) /\ WF_vars(FlushStep)
    /\ WF_vars(Decodes) /\ WF_vars(DeliverReturns) /\ WF_vars(ReleaseReturns)

Spec == Init /\ [][Next]_vars /\ Fairness

-----------------------------------------------------------------------------
(* Properties.                                                             *)

TypeOK ==
    /\ video \in BOOLEAN /\ timed \in BOOLEAN /\ inConnected \in BOOLEAN /\ outConnected \in BOOLEAN
    /\ m_State \in {"Stopped", "Paused", "Running"}
    /\ {m_bFlushing, m_bRunTimeError, m_bEOSDelivered, m_bSampleSkipped, m_bSkipping} \subseteq BOOLEAN
    /\ m_csFilter \in {"none", "app", "flusher"} /\ m_csReceive \in {"none", "streamer"}
    /\ m_nKeyFramePeriod \in 0..MaxGap + 1 /\ m_nFramesSinceKeyFrame \in 0..MaxGap + 1
    /\ m_itrLate \in Nat /\ m_nWaitForKey \in -1..GiveUpAfter
    /\ app \in {"idle", "pause", "pausesync", "stop", "stopsync", "stopsource"}
    /\ flusher \in {"idle", "flushing", "endflush", "unflush"}
    /\ streamer \in {"idle", "getbuffer", "transform", "deliver"}
    /\ sample \in [key : BOOLEAN, discontinuity : BOOLEAN, newType : BOOLEAN]
    /\ dn \in [running : BOOLEAN, flushing : BOOLEAN, committed : BOOLEAN, held : BOOLEAN,
               ended : BOOLEAN]
    /\ source \in {"off", "first", "on", "ended"} /\ gap \in 0..MaxGap
    /\ {stale, intact, gaveUp, lost} \subseteq BOOLEAN

\* Stop waits for Receive: a stopped filter transforms nothing and keeps no buffer
\* of the downstream filter.  The flush of the video filter waits for it as well,
\* so that no picture of before the flush comes after it.  A filter that paused
\* with nothing to feed it has told that downstream, where it was connected.
StreamingStops ==
    /\ m_State = "Stopped" /\ app \in {"idle", "stopsource"} => streamer = "idle"
    /\ stale /\ flusher \in {"unflush", "idle"} => streamer = "idle"
    /\ m_bEOSDelivered /\ outConnected /\ app = "idle" /\ flusher = "idle"
         => dn.ended \/ inConnected

\* The video filter shows only pictures it could decode: a key frame, one whose
\* predecessors up to a key frame all went through the decoder, or, after as
\* many as the code is willing to wait for, any.  Frames kept back are announced with
\* the next buffer asked for, unless the video filter has forgotten them meanwhile:
\* by a new type of the input, which comes with the key frame the buffer is for, or
\* by a flush, after which the source begins with a discontinuity of its own.
ForgottenAt ==
    \/ flusher = "unflush" \/ source # "on"
    \/ streamer = "getbuffer" /\ (sample.discontinuity \/ (sample.newType /\ sample.key))

ShowsWholePictures ==
    /\ video /\ streamer = "deliver" => sample.key \/ intact \/ gaveUp
    /\ lost => m_bSampleSkipped \/ (video /\ ForgottenAt)

\* Stop and EndFlush, which wait for Receive under m_csFilter, return: whatever
\* Receive waits for downstream was let go before.
Waits(caller) ==
    IF caller = "app" THEN app # "idle" ELSE flusher \in {"endflush", "unflush"}

Returned(caller) == IF caller = "app" THEN app = "idle" ELSE flusher = "idle"

CallsReturn == \A caller \in {"app", "flusher"} : Waits(caller) ~> Returned(caller)
==============================================================================
