------------------------------- MODULE Seeking -------------------------------
(***************************************************************************)
(* Seeking through a graph (baseclasses ctlutil.cpp, renbase.cpp): the     *)
(* application asks the renderer, whose CRendererPosPassThru hands         *)
(* everything but the current position upstream (CPosPassThru), up to the  *)
(* source's CSourceSeeking or CSourcePosition.  That one stores the        *)
(* positions under the filter's lock and lets the derived source act on    *)
(* them: ChangeStart, ChangeStop and ChangeRate flush the graph, stop the  *)
(* worker and start it again.  The renderer remembers the times of the last*)
(* sample, and takes the stop position for the current one when it signals *)
(* the end of the stream.                                                  *)
(*                                                                         *)
(* The derived source and its worker are external, and so is the graph     *)
(* manager, which seeks and changes the state one call at a time, the      *)
(* renderer's state before the source's.  A frame is one long, the medium  *)
(* Length frames.                                                          *)
(***************************************************************************)
EXTENDS Integers, Sequences

CONSTANTS
    Length,         \* frames of the medium, and the bound of every position
    Rates           \* the rates asked for, none of them 0

SeekingAssumption == Length \in Nat \ {0} /\ Rates \subseteq Nat \ {0}

VARIABLES
    interface,              \* the source has "IMediaSeeking" or "IMediaPosition"
    connected,
    m_rtStart, m_rtStop, m_dRateSeeking,                \* the source
    m_pLock, m_InterfaceLock, m_RendererLock,           \* who holds them
    m_State, m_bStreaming, m_bFlushing,                 \* the renderer
    m_bEOS, m_bEOSDelivered, m_EndOfStreamTimer,
    m_StartMedia, m_EndMedia, m_bReset,                 \* its pass-through
    graph, call,            \* where the graph manager is, and in which call
    worker, m_rtSampleTime, segment, last,              \* the source's worker
    llStop,                 \* the stop position EOS has read
    received                \* the last frame received since the last reset

sourceVars == << m_rtStart, m_rtStop, m_dRateSeeking >>
stateVars  == << m_State, m_bStreaming, m_bFlushing >>
eosVars    == << m_bEOS, m_bEOSDelivered, m_EndOfStreamTimer >>
posVars    == << m_StartMedia, m_EndMedia, m_bReset, received >>
workerVars == << worker, m_rtSampleTime, segment, last >>
graphVars  == << graph, call >>
linkVars   == << interface, connected >>
vars == << linkVars, sourceVars, m_pLock, m_InterfaceLock, m_RendererLock, stateVars,
           eosVars, posVars, graphVars, workerVars, llStop >>

Positions == 0 .. Length
Nothing   == -1
NoCall    == [stop |-> 0, changes |-> << >>]

Init ==
    /\ interface \in {"IMediaSeeking", "IMediaPosition"} /\ connected = FALSE
    /\ m_rtStart = 0 /\ m_rtStop = Length /\ m_dRateSeeking = 1
    /\ m_pLock = "free" /\ m_InterfaceLock = "free" /\ m_RendererLock = "free"
    /\ m_State = "Stopped" /\ m_bStreaming = FALSE /\ m_bFlushing = FALSE
    /\ m_bEOS = FALSE /\ m_bEOSDelivered = FALSE /\ m_EndOfStreamTimer = FALSE
    /\ m_StartMedia = 0 /\ m_EndMedia = 0 /\ m_bReset = TRUE /\ received = Nothing
    /\ graph = "idle" /\ call = NoCall
    /\ worker = "none" /\ m_rtSampleTime = 0 /\ last = 0
    /\ segment = [start |-> 0, rate |-> 1]
    /\ llStop = Nothing

Available(lock, t) == lock \in {"free", t}

(***************************************************************************)
(* The pass-through: a call goes upstream when the pin is connected to a   *)
(* filter with the interface, and answers E_NOTIMPL otherwise.             *)
(***************************************************************************)
GetPeerSeeking == connected /\ interface = "IMediaSeeking"
GetPeer        == connected /\ interface = "IMediaPosition"

Forward(answer) == IF GetPeerSeeking THEN answer ELSE Nothing

\* The methods of IMediaPosition have no other condition, put_Rate but for 0.
ForwardPosition(rate) == GetPeer /\ rate # 0

GetStopPosition == Forward(m_rtStop)

\* The source knows one format, which is also the current one.
IsFormatSupported(format) == format = "media time"

ConvertTimeFormat(time, to, from) ==
    Forward(IF \A f \in {to, from} : f = "current" \/ IsFormatSupported(f)
            THEN time ELSE Nothing)

GetMediaTime ==
    IF m_bReset THEN Nothing ELSE ConvertTimeFormat(m_StartMedia, "current", "media time")

\* Without media times the source is asked, which does not know.
GetCurrentPosition == GetMediaTime

GetPositions == << m_rtStart, m_rtStop >>

RegisterMediaTime(start, end) ==
    m_StartMedia' = start /\ m_EndMedia' = end /\ m_bReset' = FALSE

ResetMediaTime_KeepFlag == m_StartMedia' = 0 /\ m_EndMedia' = 0 /\ UNCHANGED m_bReset

ResetMediaTime == m_StartMedia' = 0 /\ m_EndMedia' = 0 /\ m_bReset' = TRUE

(***************************************************************************)
(* CRendererPosPassThru::EOS on thread t, which holds the renderer's lock: *)
(* the flag is read first, the stop position asked for next, and the times *)
(* set last, each without the others' lock.                                *)
(***************************************************************************)
Delivered == m_bEOSDelivered' = TRUE

Unlock(t) ==
    /\ m_RendererLock' = "free"
    /\ m_InterfaceLock' = IF m_InterfaceLock = t THEN "free" ELSE m_InterfaceLock

AskStop(t) ==
    /\ m_RendererLock = t /\ llStop = Nothing /\ Available(m_pLock, t)
    /\ IF ~m_bStreaming
       THEN Unlock(t) /\ UNCHANGED << llStop, m_bEOSDelivered >>
       ELSE IF m_bReset \/ GetStopPosition = Nothing
            THEN Unlock(t) /\ Delivered /\ UNCHANGED llStop
            ELSE /\ llStop' = GetStopPosition
                 /\ UNCHANGED << m_InterfaceLock, m_RendererLock, m_bEOSDelivered >>
    /\ UNCHANGED << m_bEOS, m_EndOfStreamTimer, posVars >>

EOS_MarksTimes(stop) == m_StartMedia' = stop /\ m_EndMedia' = stop /\ m_bReset' = FALSE

EOS(stop) == m_StartMedia' = stop /\ m_EndMedia' = stop /\ UNCHANGED m_bReset

SetStop(t) ==
    /\ m_RendererLock = t /\ llStop # Nothing
    /\ EOS(llStop) /\ llStop' = Nothing /\ Delivered /\ Unlock(t)
    /\ UNCHANGED << m_bEOS, m_EndOfStreamTimer, received >>

NotifyEndOfStream(t) ==
    /\ AskStop(t) \/ SetStop(t)
    /\ UNCHANGED << linkVars, sourceVars, m_pLock, stateVars, graphVars, workerVars >>

\* SendEndOfStream: at once, on thread t, or by the timer.
Due == ~m_bEOSDelivered /\ ~m_EndOfStreamTimer

SendEndOfStream(t) ==
    \/ m_RendererLock' = t /\ m_InterfaceLock' = t /\ UNCHANGED m_EndOfStreamTimer
    \/ m_EndOfStreamTimer' = TRUE /\ UNCHANGED << m_RendererLock, m_InterfaceLock >>

EndOfStreamTimer ==
    /\ m_EndOfStreamTimer /\ m_RendererLock = "free"
    /\ m_EndOfStreamTimer' = FALSE /\ m_RendererLock' = "timer"
    /\ UNCHANGED << linkVars, sourceVars, m_pLock, m_InterfaceLock, stateVars, m_bEOS,
                    m_bEOSDelivered, posVars, graphVars, workerVars, llStop >>

(***************************************************************************)
(* The application's calls, which the pass-through takes upstream.         *)
(***************************************************************************)
Ways == {"None", "Absolute", "Relative", "Incremental"}

NewStart(way, by) ==
    CASE way = "Absolute" -> by
      [] way = "Relative" -> m_rtStart + by
      [] OTHER            -> m_rtStart

\* What is added to for an incremental stop is the start just set.
NewStop(way, by, start) ==
    CASE way = "Absolute"    -> by
      [] way = "Incremental" -> start + by
      [] way = "Relative"    -> m_rtStop + by
      [] OTHER               -> m_rtStop

Amounts(way) == CASE way = "None" -> {0} [] way = "Absolute" -> Positions [] OTHER -> {-1, 1}

Changes_StopOnly(startWay, stopWay) ==
    IF stopWay # "None" THEN << "ChangeStop" >>
    ELSE IF startWay # "None" THEN << "ChangeStart" >> ELSE << >>

Changes(startWay, stopWay) ==
    (IF stopWay # "None" THEN << "ChangeStop" >> ELSE << >>)
    \o (IF startWay # "None" THEN << "ChangeStart" >> ELSE << >>)

\* CSourceSeeking::SetPositions has taken the lock and set the start position.
SetPositions ==
    /\ graph = "idle" /\ GetPeerSeeking /\ m_pLock = "free"
    /\ \E startWay \in Ways \ {"Incremental"}, stopWay \in Ways :
       \E by \in Amounts(startWay), to \in Amounts(stopWay) :
          LET start == NewStart(startWay, by)
              stop  == NewStop(stopWay, to, start)
          IN  /\ {start, stop} \subseteq Positions
              /\ m_rtStart' = start
              /\ call' = [stop |-> stop, changes |-> Changes(startWay, stopWay)]
    /\ graph' = "locked" /\ m_pLock' = "graph"
    /\ UNCHANGED << linkVars, m_rtStop, m_dRateSeeking, m_InterfaceLock, m_RendererLock,
                    stateVars, eosVars, posVars, workerVars, llStop >>

PositionsSet_KeepLock ==
    /\ graph = "locked"
    /\ m_rtStop' = call.stop /\ graph' = "change"
    /\ UNCHANGED << linkVars, m_rtStart, m_dRateSeeking, m_pLock, m_InterfaceLock,
                    m_RendererLock, stateVars, eosVars, posVars, call, workerVars, llStop >>

\* It sets the stop position and leaves the lock, before ChangeStop and ChangeStart.
PositionsSet ==
    /\ graph = "locked"
    /\ m_rtStop' = call.stop /\ m_pLock' = "free" /\ graph' = "change"
    /\ UNCHANGED << linkVars, m_rtStart, m_dRateSeeking, m_InterfaceLock, m_RendererLock,
                    stateVars, eosVars, posVars, call, workerVars, llStop >>

\* CSourcePosition sets one of them under the lock.
Put(start, stop, changes) ==
    /\ graph = "idle" /\ ForwardPosition(m_dRateSeeking) /\ m_pLock = "free"
    /\ m_rtStart' = start /\ m_rtStop' = stop
    /\ graph' = "change" /\ call' = [stop |-> 0, changes |-> changes]
    /\ UNCHANGED << linkVars, m_dRateSeeking, m_pLock, m_InterfaceLock, m_RendererLock,
                    stateVars, eosVars, posVars, workerVars, llStop >>

put_CurrentPosition == \E p \in Positions : Put(p, m_rtStop, << "ChangeStart" >>)

put_StopTime == \E p \in Positions : Put(m_rtStart, p, << "ChangeStop" >>)

\* SetRate and put_Rate: the pass-through refuses 0.
SetRate ==
    /\ graph = "idle" /\ m_pLock = "free"
    /\ \E rate \in Rates : (GetPeerSeeking \/ ForwardPosition(rate)) /\ m_dRateSeeking' = rate
    /\ graph' = "change" /\ call' = [stop |-> 0, changes |-> << "ChangeRate" >>]
    /\ UNCHANGED << linkVars, m_rtStart, m_rtStop, m_pLock, m_InterfaceLock, m_RendererLock,
                    stateVars, eosVars, posVars, workerVars, llStop >>

(***************************************************************************)
(* What the derived source does for each (external): unless there is no    *)
(* worker, or the new stop position is still ahead of it, flush, stop the  *)
(* worker, and start it again.                                             *)
(***************************************************************************)
Change ==
    /\ graph = "change" /\ Available(m_pLock, "graph")
    /\ IF call.changes = << >>
       THEN /\ graph' = "idle" /\ call' = NoCall
            /\ m_pLock' = "free"
       ELSE /\ graph' = IF \/ worker = "none"
                           \/ Head(call.changes) = "ChangeStop" /\ m_rtSampleTime < m_rtStop
                        THEN "change" ELSE "flush"
            /\ call' = [call EXCEPT !.changes = Tail(@)]
            /\ UNCHANGED m_pLock
    /\ UNCHANGED << linkVars, sourceVars, m_InterfaceLock, m_RendererLock, stateVars,
                    eosVars, posVars, workerVars, llStop >>

\* CRendererInputPin::BeginFlush, up to the end of the renderer's lock.
BeginFlush ==
    /\ graph = "flush" /\ m_InterfaceLock = "free" /\ m_RendererLock = "free"
    /\ m_bFlushing' = TRUE /\ m_InterfaceLock' = "graph" /\ graph' = "flushing"
    /\ UNCHANGED << linkVars, sourceVars, m_pLock, m_RendererLock, m_State, m_bStreaming,
                    eosVars, posVars, call, workerVars, llStop >>

ResetEndOfStream ==
    /\ m_bEOS' = FALSE /\ m_bEOSDelivered' = FALSE /\ m_EndOfStreamTimer' = FALSE

FlushBegun ==
    /\ graph = "flushing" /\ m_RendererLock = "free"
    /\ ResetEndOfStream
    /\ m_InterfaceLock' = "free" /\ graph' = "stop worker"
    /\ UNCHANGED << linkVars, sourceVars, m_pLock, m_RendererLock, stateVars, posVars, call,
                    workerVars, llStop >>

EndFlush ==
    /\ graph = "stop worker" /\ worker = "none"
    /\ m_InterfaceLock = "free" /\ m_RendererLock = "free"
    /\ ResetMediaTime /\ received' = Nothing /\ m_bFlushing' = FALSE
    /\ graph' = "change" /\ worker' = "start"
    /\ UNCHANGED << linkVars, sourceVars, m_pLock, m_InterfaceLock, m_RendererLock, m_State,
                    m_bStreaming, eosVars, call, m_rtSampleTime, segment, last, llStop >>

(***************************************************************************)
(* The state changes, of the renderer first and then of the source.        *)
(***************************************************************************)
Connect ==
    /\ graph = "idle" /\ m_State = "Stopped" /\ connected' = ~connected
    /\ UNCHANGED << interface, sourceVars, m_pLock, m_InterfaceLock, m_RendererLock, stateVars,
                    eosVars, posVars, graphVars, workerVars, llStop >>

Pause ==
    /\ graph = "idle" /\ connected /\ m_State # "Paused"
    /\ m_InterfaceLock = "free" /\ m_RendererLock = "free"
    /\ m_State' = "Paused" /\ m_bStreaming' = FALSE
    /\ m_bEOSDelivered' = FALSE /\ m_EndOfStreamTimer' = FALSE
    /\ worker' = IF m_State = "Stopped" THEN "start" ELSE worker
    /\ UNCHANGED << linkVars, sourceVars, m_pLock, m_InterfaceLock, m_RendererLock, m_bFlushing,
                    m_bEOS, posVars, graphVars, m_rtSampleTime, segment, last, llStop >>

\* Run: an end of stream that came while paused is signalled now.
Run ==
    /\ graph = "idle" /\ m_State = "Paused"
    /\ m_InterfaceLock = "free" /\ m_RendererLock = "free"
    /\ m_State' = "Running" /\ m_bStreaming' = TRUE
    /\ IF m_bEOS /\ Due /\ worker # "in Receive" THEN SendEndOfStream("graph")
       ELSE UNCHANGED << m_RendererLock, m_InterfaceLock, m_EndOfStreamTimer >>
    /\ graph' = "run"
    /\ UNCHANGED << linkVars, sourceVars, m_pLock, m_bFlushing, m_bEOS, m_bEOSDelivered,
                    posVars, call, workerVars, llStop >>

RunReturns ==
    /\ graph = "run" /\ m_RendererLock # "graph" /\ graph' = "idle"
    /\ UNCHANGED << linkVars, sourceVars, m_pLock, m_InterfaceLock, m_RendererLock, stateVars,
                    eosVars, posVars, call, workerVars, llStop >>

\* Stop: Inactive resets the times under the interface lock alone.
Inactive ==
    /\ graph = "idle" /\ connected /\ m_State # "Stopped" /\ m_InterfaceLock = "free"
    /\ m_State' = "Stopped" /\ ResetMediaTime /\ received' = Nothing
    /\ m_InterfaceLock' = "graph" /\ graph' = "stopping"
    /\ UNCHANGED << linkVars, sourceVars, m_pLock, m_RendererLock, m_bStreaming, m_bFlushing,
                    eosVars, call, workerVars, llStop >>

Stop ==
    /\ graph = "stopping" /\ m_RendererLock = "free"
    /\ m_bStreaming' = FALSE /\ ResetEndOfStream
    /\ m_InterfaceLock' = "free" /\ graph' = "end worker"
    /\ UNCHANGED << linkVars, sourceVars, m_pLock, m_RendererLock, m_State, m_bFlushing,
                    posVars, call, workerVars, llStop >>

SourceStopped ==
    /\ graph = "end worker" /\ worker = "none" /\ graph' = "idle"
    /\ UNCHANGED << linkVars, sourceVars, m_pLock, m_InterfaceLock, m_RendererLock, stateVars,
                    eosVars, posVars, call, workerVars, llStop >>

(***************************************************************************)
(* The source's worker (external): a new segment from the start position,  *)
(* then frames up to the stop position, then the end of the stream.        *)
(***************************************************************************)
Told == graph \in {"stop worker", "end worker"}

StartSegment ==
    /\ worker = "start" /\ Available(m_pLock, "worker")
    /\ segment' = [start |-> m_rtStart, rate |-> m_dRateSeeking]
    /\ m_rtSampleTime' = m_rtStart /\ worker' = "loop"
    /\ UNCHANGED << linkVars, sourceVars, m_pLock, m_InterfaceLock, m_RendererLock, stateVars,
                    eosVars, posVars, graphVars, last, llStop >>

FillBuffer ==
    /\ worker = "loop" /\ ~Told /\ Available(m_pLock, "worker")
    /\ IF m_rtSampleTime < m_rtStop
       THEN last' = m_rtSampleTime /\ m_rtSampleTime' = m_rtSampleTime + 1 /\ worker' = "deliver"
       ELSE worker' = "end" /\ UNCHANGED << last, m_rtSampleTime >>
    /\ UNCHANGED << linkVars, sourceVars, m_pLock, m_InterfaceLock, m_RendererLock, stateVars,
                    eosVars, posVars, graphVars, segment, llStop >>

\* The thread looks for a command between two calls, and ends.
WorkerEnds ==
    /\ worker \in {"loop", "idle"} /\ Told /\ worker' = "none"
    /\ UNCHANGED << linkVars, sourceVars, m_pLock, m_InterfaceLock, m_RendererLock, stateVars,
                    eosVars, posVars, graphVars, m_rtSampleTime, segment, last, llStop >>

Streams == m_State # "Stopped" /\ ~m_bFlushing

\* PrepareReceive: the renderer keeps the sample's stream time.
Receive ==
    /\ worker = "deliver" /\ m_InterfaceLock = "free" /\ m_RendererLock = "free"
    /\ IF Streams /\ ~m_bEOS
       THEN /\ RegisterMediaTime(last - segment.start, last - segment.start + 1)
            /\ received' = last /\ worker' = "in Receive"
       ELSE worker' = "idle" /\ UNCHANGED posVars
    /\ UNCHANGED << linkVars, sourceVars, m_pLock, m_InterfaceLock, m_RendererLock, stateVars,
                    eosVars, graphVars, m_rtSampleTime, segment, last, llStop >>

ReceiveReturns ==
    /\ worker = "in Receive" /\ (~Streams \/ m_bStreaming)
    /\ worker' = IF Streams THEN "loop" ELSE "idle"
    /\ UNCHANGED << linkVars, sourceVars, m_pLock, m_InterfaceLock, m_RendererLock, stateVars,
                    eosVars, posVars, graphVars, m_rtSampleTime, segment, last, llStop >>

EndOfStream ==
    /\ worker = "end" /\ m_InterfaceLock = "free" /\ m_RendererLock = "free"
    /\ worker' = "idle"
    /\ IF Streams
       THEN /\ m_bEOS' = TRUE
            /\ IF m_bStreaming /\ Due THEN SendEndOfStream("worker")
               ELSE UNCHANGED << m_RendererLock, m_InterfaceLock, m_EndOfStreamTimer >>
       ELSE UNCHANGED << m_bEOS, m_RendererLock, m_InterfaceLock, m_EndOfStreamTimer >>
    /\ UNCHANGED << linkVars, sourceVars, m_pLock, stateVars, m_bEOSDelivered, posVars,
                    graphVars, m_rtSampleTime, segment, last, llStop >>

WorkerNext ==
    \/ StartSegment \/ FillBuffer \/ WorkerEnds \/ Receive \/ ReceiveReturns \/ EndOfStream
    \/ NotifyEndOfStream("worker")

InCall ==
    \/ PositionsSet \/ Change \/ BeginFlush \/ FlushBegun \/ EndFlush
    \/ RunReturns \/ Stop \/ SourceStopped
    \/ NotifyEndOfStream("graph")

Next ==
    \/ SetPositions \/ put_CurrentPosition \/ put_StopTime \/ SetRate
    \/ Connect \/ Pause \/ Run \/ Inactive
    \/ InCall \/ WorkerNext
    \/ EndOfStreamTimer \/ NotifyEndOfStream("timer")

Spec == Init /\ [][Next]_vars
        /\ WF_vars(InCall) /\ WF_vars(WorkerNext) /\ WF_vars(NotifyEndOfStream("timer"))

------------------------------------------------------------------------------
TypeOK ==
    /\ sourceVars \in Positions \X Positions \X ({1} \union Rates)
    /\ {m_pLock, m_InterfaceLock, m_RendererLock} \subseteq {"free", "graph", "worker", "timer"}
    /\ m_State \in {"Stopped", "Paused", "Running"}
    /\ {connected, m_bStreaming, m_bFlushing, m_bEOS, m_bEOSDelivered, m_EndOfStreamTimer,
        m_bReset} \subseteq BOOLEAN
    /\ {m_StartMedia, m_EndMedia, m_rtSampleTime} \subseteq 0 .. Length + 1
    /\ segment \in [start : Positions, rate : {1} \union Rates]

\* The current position the renderer answers is of the stream as it is since
\* the last seek or stop: the last sample's time, or the stop position once
\* the stream has ended; and when completion was signalled it "actually gets
\* to the end" (renbase.cpp:1315, ctlutil.cpp:1069), whatever the timer and
\* the threads that flush and stop were doing.
PositionSound ==
    /\ ~m_bReset =>
          /\ received # Nothing
          /\ \/ m_StartMedia = received - segment.start /\ m_EndMedia = m_StartMedia + 1
             \/ (m_bEOS \/ m_bFlushing) /\ m_StartMedia = m_EndMedia
    /\ m_bEOSDelivered /\ GetCurrentPosition # Nothing => m_StartMedia = m_EndMedia

\* When no call is under way, the worker plays the positions that were asked
\* for last: its segment begins at the start position, at the rate, and it is
\* not past the stop position (CSourceSeeking::SetPositions, SetRate).
PlaysWhatIsAsked ==
    graph = "idle" /\ worker \notin {"none", "start"} =>
        /\ segment = [start |-> GetPositions[1], rate |-> m_dRateSeeking]
        /\ m_rtSampleTime <= GetPositions[2] \/ m_rtSampleTime = GetPositions[1]

\* Every seek and every stop returns: the renderer, which asks for the stop
\* position under its lock, and the source, which flushes the renderer, never
\* wait for each other (ctlutil.cpp:1274 leaves the lock before ChangeStart).
CallsReturn == graph # "idle" ~> graph = "idle"

\* "We store the media times internally and return them in GetCurrentPosition"
\* (ctlutil.cpp:979).
ReportsMediaTimes ==
    GetCurrentPosition # Nothing /\ m_StartMedia # m_EndMedia => GetCurrentPosition = received
==============================================================================
