------------------------------ MODULE Renderer ------------------------------
(***************************************************************************)
(* CBaseRenderer and CRendererInputPin (baseclasses renbase.cpp), on the   *)
(* clock of AdviseSchedule: the application changes the state and flushes, *)
(* the source's thread brings samples and waits in Receive until they are  *)
(* due, the clock's thread wakes it, a timer sends a late end of stream,   *)
(* and another client of the clock may have a periodic advise of its own.  *)
(* m_InterfaceLock is held by the application in its waits only; every     *)
(* other section under it, or under m_RendererLock, is one step.           *)
(***************************************************************************)
EXTENDS AdviseSchedule

CONSTANTS
    SampleTimes,    \* stream times at which samples start; they last one unit
    RenderEvent,    \* the client whose event is m_RenderEvent
    Other, Period,  \* another client that is advised periodically,
    OtherTimes      \* from one of these times on

RendererAssumption ==
    /\ SampleTimes \subseteq Int
    /\ RenderEvent \in Clients /\ Other \in Clients /\ RenderEvent # Other
    /\ Period \in Nat \ {0} /\ OtherTimes \subseteq Nat \ {0}

VARIABLES
    m_pClock,           \* there is a clock
    m_State, m_tStart,
    m_bStreaming, m_bEOS, m_bEOSDelivered, m_bAbort, m_bRunTimeError, m_bFlushing,
    m_bInReceive,
    m_pMediaSample,     \* the sample that is held, as its start time: {} or {start}
    m_SignalTime,
    m_dwAdvise,         \* the cookie, or 0
    m_ThreadSignal,     \* the source's thread may not wait
    ready,              \* m_evComplete
    m_EndOfStreamTimer, \* when the timer that is known is due, or 0
    timers, callbacks,  \* the timers that are set; those that have called back
    app,                \* where the application is
    source,             \* where the source's thread is
    sourceEnd,          \* the source has sent its end of stream
    completes           \* EC_COMPLETE notifications since streaming started

stateVars  == << m_pClock, m_State, m_tStart, m_bStreaming, m_bAbort >>
eosVars    == << m_bEOS, m_bEOSDelivered, m_EndOfStreamTimer, timers, completes >>
pinVars    == << m_bRunTimeError, m_bFlushing >>
sampleVars == << m_pMediaSample, m_SignalTime >>
waitVars   == << m_bInReceive, m_ThreadSignal, m_dwAdvise >>
vars == << clockVars, stateVars, eosVars, pinVars, sampleVars, waitVars, ready,
           callbacks, app, source, sourceEnd >>

Init ==
    /\ ClockInit(Other, Period, OtherTimes)
    /\ m_pClock \in BOOLEAN
    /\ m_State = "Stopped" /\ m_tStart = 0 /\ m_bStreaming = FALSE
    /\ m_bEOS = FALSE /\ m_bEOSDelivered = FALSE /\ m_bAbort = FALSE
    /\ m_bRunTimeError = FALSE /\ m_bFlushing = FALSE
    /\ m_bInReceive = FALSE /\ m_pMediaSample = {} /\ m_SignalTime = 0
    /\ m_dwAdvise = 0 /\ m_ThreadSignal = FALSE /\ ready = TRUE
    /\ m_EndOfStreamTimer = 0 /\ timers = {} /\ callbacks = 0
    /\ app = "idle" /\ source = "out" /\ sourceEnd = FALSE /\ completes = 0

InterfaceLockFree == app = "idle"
RendererLockFree  == app # "flushing"

NoAdvise == UNCHANGED << schedule, m_ev >>
Fixed    == UNCHANGED << now, clock, rtNow, wait >>     \* of the clock, by the renderer

-----------------------------------------------------------------------------
(* Pieces of the handlers.                                                 *)

CancelNotification ==
    /\ m_dwAdvise' = 0 /\ (m_dwAdvise # 0 => ScheduleFree)
    /\ schedule' = IF m_dwAdvise # 0 THEN Without(schedule, m_dwAdvise) ELSE schedule
    /\ signalled' = [signalled EXCEPT ![RenderEvent] = FALSE]
    /\ UNCHANGED m_ev

\* ResetEndOfStreamTimer: a callback that is on its way is not stopped.
ResetEndOfStreamTimer ==
    /\ timers' = timers \ {m_EndOfStreamTimer}
    /\ m_EndOfStreamTimer' = 0

ResetEndOfStream ==
    /\ ResetEndOfStreamTimer
    /\ m_bEOS' = FALSE /\ m_bEOSDelivered' = FALSE
    /\ m_SignalTime' = 0 /\ completes' = 0

\* NotifyEndOfStream: EC_COMPLETE is sent while streaming only.
NotifyEndOfStream_Twice(streaming, delivered) ==    \* mutated form: not remembered
    /\ m_EndOfStreamTimer' = 0
    /\ m_bEOSDelivered' = delivered
    /\ completes' = IF streaming THEN completes + 1 ELSE completes

NotifyEndOfStream(streaming, delivered) ==
    /\ m_EndOfStreamTimer' = 0
    /\ m_bEOSDelivered' = (delivered \/ streaming)
    /\ completes' = IF streaming THEN completes + 1 ELSE completes

\* SendEndOfStream: at once, or by a timer when the last sample is over.
SendEndOfStream(eos, streaming, delivered, timer, tStart, kept) ==
    LET Signal == tStart + m_SignalTime IN
    \/ /\ (~eos \/ delivered \/ timer # 0)
       /\ m_EndOfStreamTimer' = timer /\ timers' = kept
       /\ m_bEOSDelivered' = delivered /\ UNCHANGED completes
    \/ /\ eos /\ ~delivered /\ timer = 0
       /\ ~m_pClock \/ Signal <= now
       /\ timers' = kept
       /\ NotifyEndOfStream(streaming, delivered)
    \/ /\ eos /\ ~delivered /\ timer = 0
       /\ m_pClock /\ Signal > now
       /\ m_EndOfStreamTimer' = Signal /\ timers' = kept \cup {Signal}
       /\ m_bEOSDelivered' = delivered /\ UNCHANGED completes

\* ScheduleSample: without a clock the sample is drawn at once; the clock is
\* asked for the start time, and refuses a time that is not positive.
CannotSchedule(start, tStart) == m_pClock /\ ~Valid(tStart + start)

ScheduleSample(start, tStart) ==
    \/ /\ ~m_pClock
       /\ signalled' = [signalled EXCEPT ![RenderEvent] = TRUE]
       /\ NoAdvise /\ UNCHANGED m_dwAdvise
    \/ /\ m_pClock /\ Valid(tStart + start)
       /\ \E cookie \in NewCookies({m_dwAdvise}) :
            /\ \A c \in NewCookies({m_dwAdvise}) : cookie <= c
            /\ m_dwAdvise' = cookie
            /\ AddAdvisePacket([cookie |-> cookie, time |-> tStart + start,
                                period |-> 0, client |-> RenderEvent])
       /\ UNCHANGED signalled

-----------------------------------------------------------------------------
(* The application.  The filter graph starts the renderer only when the    *)
(* source's thread of the time before is gone, and ends a flush only when  *)
(* that thread has left Receive.                                           *)

\* CompleteStateChange: there is data to show, or there will be none.
CompleteStateChange == m_bEOS \/ (m_pMediaSample' # {} /\ m_State # "Stopped")

Pause ==
    /\ app = "idle" /\ ~m_bFlushing
    /\ m_State = "Stopped" => source = "out"
    /\ m_State # "Paused"
    /\ m_State' = "Paused"
    /\ m_bStreaming' = FALSE /\ m_bEOSDelivered' = FALSE /\ completes' = 0
    /\ m_ThreadSignal' = FALSE
    /\ CancelNotification
    /\ ResetEndOfStreamTimer
    /\ m_bAbort' = (m_bAbort /\ m_State # "Stopped")
    /\ m_pMediaSample' = IF m_State = "Stopped" THEN {} ELSE m_pMediaSample
    /\ ready' = CompleteStateChange
    /\ sourceEnd' = (sourceEnd /\ m_State # "Stopped")
    /\ Fixed
    /\ UNCHANGED << m_pClock, m_tStart, m_bEOS, pinVars, m_SignalTime,
                    m_bInReceive, callbacks, app, source >>

\* Pause again only looks whether the state change is complete.
PauseAgain ==
    /\ app = "idle" /\ ~m_bFlushing /\ m_State = "Paused"
    /\ UNCHANGED sampleVars /\ ready' = CompleteStateChange
    /\ UNCHANGED << clockVars, stateVars, eosVars, pinVars, waitVars,
                    callbacks, app, source, sourceEnd >>

\* StartStreaming: a sample that is held is scheduled anew, and if it cannot be,
\* is drawn at once; without one, an end of stream that came meanwhile is sent.
StartStreaming(tStart) ==
    /\ m_bStreaming' = TRUE
    /\ \/ /\ m_pMediaSample = {}
          /\ SendEndOfStream(m_bEOS, TRUE, m_bEOSDelivered, m_EndOfStreamTimer, tStart, timers)
          /\ NoAdvise /\ UNCHANGED << signalled, m_dwAdvise >>
       \/ /\ \E start \in m_pMediaSample :
            IF CannotSchedule(start, tStart)
            THEN /\ signalled' = [signalled EXCEPT ![RenderEvent] = TRUE]
                 /\ m_dwAdvise' = 0 /\ NoAdvise
            ELSE ScheduleSample(start, tStart)
          /\ UNCHANGED << m_bEOSDelivered, m_EndOfStreamTimer, timers, completes >>

\* The graph's start time may be past.  A bound keeps all times below the horizon.
Run ==
    /\ app = "idle" /\ ~m_bFlushing /\ m_State = "Paused"
    /\ m_tStart' \in { now - 1, now }
    /\ m_tStart' + 2 < MaxNow
    /\ m_State' = "Running" /\ ready' = TRUE /\ m_ThreadSignal' = FALSE
    /\ StartStreaming(m_tStart')
    /\ Fixed
    /\ UNCHANGED << m_pClock, m_bAbort, m_bEOS, pinVars, sampleVars, m_bInReceive,
                    callbacks, app, source, sourceEnd >>

\* Stop, up to the wait for Receive: Inactive has cleared the sample.
Stop ==
    /\ app = "idle" /\ ~m_bFlushing /\ m_State # "Stopped"
    /\ app' = "stopping"
    /\ m_State' = "Stopped" /\ m_bRunTimeError' = FALSE /\ m_pMediaSample' = {}
    /\ m_bStreaming' = FALSE
    /\ m_ThreadSignal' = TRUE
    /\ ResetEndOfStream
    /\ CancelNotification
    /\ ready' = TRUE
    /\ Fixed
    /\ UNCHANGED << m_pClock, m_tStart, m_bAbort, m_bFlushing, m_bInReceive,
                    callbacks, source, sourceEnd >>

\* WaitForReceiveToComplete, with the interface lock held.
Stopped ==
    /\ app = "stopping" /\ ~m_bInReceive
    /\ app' = "idle" /\ m_bAbort' = FALSE
    /\ UNCHANGED << clockVars, m_pClock, m_State, m_tStart, m_bStreaming, eosVars, pinVars,
                    sampleVars, waitVars, ready, callbacks, source, sourceEnd >>

\* BeginFlush of the pin, up to its wait with both locks held.
BeginFlush ==
    /\ app = "idle" /\ ~m_bFlushing
    /\ app' = "flushing" /\ m_bFlushing' = TRUE
    /\ ready' = (ready /\ m_State # "Paused")
    /\ m_ThreadSignal' = TRUE
    /\ CancelNotification
    /\ m_pMediaSample' = {}
    /\ Fixed
    /\ UNCHANGED << stateVars, eosVars, m_bRunTimeError, m_SignalTime, m_bInReceive,
                    callbacks, source, sourceEnd >>

FlushWaited ==
    /\ app = "flushing" /\ ~m_bInReceive
    /\ app' = "resetting"
    /\ UNCHANGED << clockVars, stateVars, eosVars, pinVars, sampleVars, waitVars, ready,
                    callbacks, source, sourceEnd >>

\* ... and the end of stream, after the renderer's lock was left.
FlushReset ==
    /\ app = "resetting" /\ app' = "idle"
    /\ ResetEndOfStream
    /\ UNCHANGED << clockVars, stateVars, pinVars, m_pMediaSample, waitVars, ready,
                    callbacks, source, sourceEnd >>

EndFlush ==
    /\ app = "idle" /\ m_bFlushing /\ source = "out"
    /\ m_ThreadSignal' = FALSE
    /\ m_bFlushing' = FALSE /\ m_bRunTimeError' = FALSE
    /\ sourceEnd' = FALSE
    /\ UNCHANGED << clockVars, stateVars, eosVars, sampleVars, m_bInReceive, m_dwAdvise,
                    ready, callbacks, app, source >>

\* OnDisplayChange, on the window's thread: EC_DISPLAY_CHANGED asks the graph to
\* reconnect, and until it has, samples are refused.
OnDisplayChange ==
    /\ RendererLockFree /\ ~m_bAbort
    /\ m_bAbort' = TRUE /\ m_pMediaSample' = {}
    /\ UNCHANGED << clockVars, m_pClock, m_State, m_tStart, m_bStreaming, eosVars, pinVars,
                    m_SignalTime, waitVars, ready, callbacks, app, source, sourceEnd >>

-----------------------------------------------------------------------------
(* The source's thread.                                                    *)

Streams == m_State # "Stopped" /\ ~m_bFlushing /\ ~m_bRunTimeError    \* CheckStreaming

At(from, to) == source = from /\ source' = to

\* PrepareReceive refuses the sample: the pin's Receive looks at the error.
Refuse ==
    /\ InterfaceLockFree /\ ~sourceEnd
    /\ ~Streams \/ m_pMediaSample # {} \/ m_bEOS \/ m_bAbort
    /\ At("out", "error")
    /\ ready' = (ready \/ Streams)
    /\ UNCHANGED << clockVars, stateVars, eosVars, pinVars, sampleVars, waitVars,
                    callbacks, app, sourceEnd >>

Accepts == Streams /\ m_pMediaSample = {} /\ ~m_bEOS /\ ~m_bAbort

\* A sample that cannot be scheduled is dropped; Receive says success.
Drop(start) ==
    /\ InterfaceLockFree /\ ~sourceEnd /\ source = "out"
    /\ Accepts /\ m_bStreaming /\ CannotSchedule(start, m_tStart)
    /\ m_dwAdvise' = 0
    /\ UNCHANGED << clockVars, stateVars, eosVars, pinVars, sampleVars, m_bInReceive,
                    m_ThreadSignal, ready, callbacks, app, source, sourceEnd >>

PrepareReceive(start) ==
    /\ InterfaceLockFree /\ ~sourceEnd
    /\ Accepts /\ At("out", "received")
    /\ m_bInReceive' = TRUE
    /\ m_pMediaSample' = {start} /\ m_SignalTime' = start + 1
    /\ IF m_bStreaming
       THEN ~CannotSchedule(start, m_tStart) /\ ScheduleSample(start, m_tStart)
       ELSE NoAdvise /\ UNCHANGED << signalled, m_dwAdvise >>
    /\ Fixed
    /\ UNCHANGED << stateVars, eosVars, pinVars, m_ThreadSignal, ready, callbacks, app, sourceEnd >>

\* The state is read without the lock; PrepareRender gives the lock away.
Received_StaysInReceive ==          \* mutated form: whoever waits for Receive waits for the lock
    /\ source = "received" /\ source' = IF m_State = "Paused" THEN "first" ELSE "wait"
    /\ UNCHANGED << clockVars, stateVars, eosVars, pinVars, sampleVars, waitVars,
                    ready, callbacks, app, sourceEnd >>

Received ==
    /\ source = "received"
    /\ \/ m_State = "Paused" /\ source' = "first" /\ m_bInReceive' = FALSE
       \/ m_State # "Paused" /\ source' = "wait" /\ UNCHANGED m_bInReceive
    /\ UNCHANGED << clockVars, stateVars, eosVars, pinVars, sampleVars, m_dwAdvise,
                    m_ThreadSignal, ready, callbacks, app, sourceEnd >>

\* OnReceiveFirstSample, under both locks.
FirstSample ==
    /\ InterfaceLockFree
    /\ \/ m_State = "Stopped" /\ At("first", "out") /\ UNCHANGED << m_bInReceive, ready >>
       \/ m_State # "Stopped" /\ At("first", "wait") /\ m_bInReceive' = TRUE /\ ready' = TRUE
    /\ UNCHANGED << clockVars, stateVars, eosVars, pinVars, sampleVars, m_dwAdvise,
                    m_ThreadSignal, callbacks, app, sourceEnd >>

\* WaitForRenderTime: the thread signal comes before the render event.
WaitEnds ==
    /\ m_ThreadSignal /\ At("wait", "out")
    /\ m_bInReceive' = FALSE
    /\ UNCHANGED << clockVars, stateVars, eosVars, pinVars, sampleVars, m_dwAdvise,
                    m_ThreadSignal, ready, callbacks, app, sourceEnd >>

WaitForRenderTime ==
    /\ ~m_ThreadSignal /\ signalled[RenderEvent] /\ At("wait", "fired")
    /\ signalled' = [signalled EXCEPT ![RenderEvent] = FALSE]
    /\ Fixed /\ NoAdvise
    /\ UNCHANGED << stateVars, eosVars, pinVars, sampleVars, waitVars,
                    ready, callbacks, app, sourceEnd >>

\* SignalTimerFired, without a lock, and the end of Receive as others see it.
SignalTimerFired ==
    /\ At("fired", "render")
    /\ m_dwAdvise' = 0 /\ m_bInReceive' = FALSE
    /\ UNCHANGED << clockVars, stateVars, eosVars, pinVars, sampleVars,
                    m_ThreadSignal, ready, callbacks, app, sourceEnd >>

\* The sample, if it is still there, is rendered and released; the end of
\* stream that waited for it is sent.
Render ==
    /\ InterfaceLockFree /\ At("render", "out")
    /\ \/ /\ m_State = "Stopped"
          /\ UNCHANGED << clockVars, eosVars, m_pMediaSample, m_dwAdvise >>
       \/ /\ m_State # "Stopped"
          /\ m_pMediaSample' = {}
          /\ SendEndOfStream(m_bEOS, m_bStreaming, m_bEOSDelivered, m_EndOfStreamTimer, m_tStart, timers)
          /\ CancelNotification
          /\ Fixed /\ UNCHANGED m_bEOS
    /\ UNCHANGED << stateVars, pinVars, m_SignalTime, m_bInReceive, m_ThreadSignal,
                    ready, callbacks, app, sourceEnd >>

\* The pin's Receive reports an error that nobody asked for: EC_ERRORABORT, the
\* end of the stream, and no more samples.
ReportError ==
    /\ InterfaceLockFree /\ At("error", "out")
    /\ IF m_State = "Stopped" \/ m_bFlushing \/ m_bAbort \/ m_bRunTimeError
       THEN UNCHANGED << m_bRunTimeError, eosVars >>
       ELSE /\ m_bRunTimeError' = TRUE
            /\ IF m_bStreaming /\ ~m_bEOSDelivered THEN NotifyEndOfStream(TRUE, FALSE)
               ELSE UNCHANGED << m_EndOfStreamTimer, m_bEOSDelivered, completes >>
            /\ UNCHANGED << m_bEOS, timers >>
    /\ UNCHANGED << clockVars, stateVars, m_bFlushing, sampleVars, waitVars,
                    ready, callbacks, app, sourceEnd >>

\* The source sends its end of stream once, and then nothing.
EndOfStream ==
    /\ InterfaceLockFree /\ source = "out" /\ ~sourceEnd
    /\ sourceEnd' = TRUE
    /\ IF ~Streams THEN UNCHANGED << eosVars, ready >>
       ELSE /\ m_bEOS' = TRUE
            /\ IF m_pMediaSample # {}
               THEN UNCHANGED << ready, m_EndOfStreamTimer, timers, m_bEOSDelivered, completes >>
               ELSE /\ ready' = TRUE
                    /\ IF m_bStreaming
                       THEN SendEndOfStream(TRUE, TRUE, m_bEOSDelivered, m_EndOfStreamTimer, m_tStart, timers)
                       ELSE UNCHANGED << m_EndOfStreamTimer, timers, m_bEOSDelivered, completes >>
    /\ UNCHANGED << clockVars, stateVars, pinVars, sampleVars, waitVars, callbacks, app, source >>

Deliver == EndOfStream \/ Refuse \/ \E start \in SampleTimes : Drop(start) \/ PrepareReceive(start)

Receive == Received \/ FirstSample \/ WaitEnds \/ WaitForRenderTime \/ SignalTimerFired
           \/ Render \/ ReportError

-----------------------------------------------------------------------------
(* The timer and the clock.                                                *)

rendererVars == << stateVars, eosVars, pinVars, sampleVars, waitVars, ready, callbacks,
                   app, source, sourceEnd >>

TimerFires ==
    /\ \E due \in timers : due <= now /\ timers' = timers \ {due}
    /\ callbacks' = callbacks + 1
    /\ UNCHANGED << clockVars, stateVars, m_bEOS, m_bEOSDelivered, m_EndOfStreamTimer, completes,
                    pinVars, sampleVars, waitVars, ready, app, source, sourceEnd >>

\* TimerCallback: nothing to do if the timer is no longer known.
TimerCallback ==
    /\ RendererLockFree /\ callbacks > 0 /\ callbacks' = callbacks - 1
    /\ IF m_EndOfStreamTimer = 0 THEN UNCHANGED eosVars
       ELSE /\ SendEndOfStream(m_bEOS, m_bStreaming, m_bEOSDelivered, 0, m_tStart, timers)
            /\ UNCHANGED m_bEOS
    /\ UNCHANGED << clockVars, stateVars, pinVars, sampleVars, waitVars, ready, app, source, sourceEnd >>

ClockThread == Thread /\ UNCHANGED rendererVars
TimePasses  == Tick /\ UNCHANGED rendererVars
SetClock    == SetTimeDelta /\ UNCHANGED rendererVars

Application == Stopped \/ FlushWaited \/ FlushReset

Next ==
    \/ Pause \/ PauseAgain \/ Run \/ Stop \/ BeginFlush \/ EndFlush \/ Application
    \/ OnDisplayChange \/ Deliver \/ Receive
    \/ TimerFires \/ TimerCallback \/ ClockThread \/ TimePasses \/ SetClock

\* The threads run, time passes, and the source goes on delivering.
Spec == Init /\ [][Next]_vars
        /\ WF_vars(Application) /\ WF_vars(Receive) /\ WF_vars(Deliver)
        /\ WF_vars(TimerFires) /\ WF_vars(TimerCallback)
        /\ WF_vars(ClockThread) /\ WF_vars(TimePasses)

-----------------------------------------------------------------------------
\* A sample is held only while the source's thread is in the Receive that brought
\* it: nobody else would release it, and the next sample would be an error.
SampleHasReceiver == m_pMediaSample # {} => source \notin {"out", "error"}

\* However calls, flushes, display changes and the source's thread meet, a source
\* that keeps the protocol never provokes EC_ERRORABORT.
NoRunTimeError == ~m_bRunTimeError

\* EC_COMPLETE is sent at most once while the renderer streams, only after the
\* source's end of stream, and not while a sample still waits to be shown.
CompletesOnce ==
    /\ completes = IF m_bEOSDelivered THEN 1 ELSE 0
    /\ m_bEOSDelivered => m_bEOS /\ m_bStreaming /\ m_pMediaSample = {}

\* After Stop no sample, stream, timer or receiver is left that others count on.
StoppedIsQuiet ==
    m_State = "Stopped" /\ app = "idle" =>
        /\ m_pMediaSample = {} /\ ~m_bStreaming /\ ~m_bInReceive
        /\ m_EndOfStreamTimer = 0 /\ m_dwAdvise = 0
        /\ source \in {"out", "error", "first", "render"}

RendererSound == SampleHasReceiver /\ NoRunTimeError /\ CompletesOnce /\ StoppedIsQuiet

\* Stop and BeginFlush, which wait for Receive with locks held, return; a paused
\* renderer becomes ready as soon as its source delivers or ends; and an end of
\* stream is announced while the renderer goes on streaming.
Waits(what) ==
    \/ what = "call" /\ app # "idle"
    \/ what = "pause" /\ m_State = "Paused"
    \/ what = "end" /\ m_bEOS /\ m_bStreaming

Served(what) ==
    \/ what = "call" /\ app = "idle"
    \/ what = "pause" /\ (ready \/ m_State # "Paused" \/ m_bFlushing \/ m_bAbort)
    \/ what = "end" /\ (m_bEOSDelivered \/ ~m_bStreaming \/ ~m_bEOS)

Progress == \A what \in {"call", "pause", "end"} : Waits(what) ~> Served(what)
==============================================================================
