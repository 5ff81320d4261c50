---------------------------- MODULE StreamControl ----------------------------
(***************************************************************************)
(* CBaseStreamControl (baseclasses strmctl.cpp): the application starts and*)
(* stops the stream of one pin at given stream times, now, or never, while *)
(* the pin's streaming thread asks for each sample whether it flows or is  *)
(* discarded, and is held for as long as discarding in time takes.         *)
(*                                                                         *)
(* StartAt, StopAt, NotifyFilterState and Flushing run under m_CritSec, as *)
(* CheckSampleTimes does; the loop of CheckStreamState around it reads the *)
(* state without.  Times are whole numbers up to MaxTime; MAX_TIME, beyond *)
(* them, is "none".  The filter is restarted, and a flush ended, while the *)
(* streaming thread is elsewhere.                                          *)
(***************************************************************************)
EXTENDS Integers

CONSTANTS MaxTime

StreamControlAssumption == MaxTime \in Nat \ {0}

MAX_TIME == MaxTime + 1
Times    == 0..MaxTime
Samples  == {s \in [start : Times, stop : Times] : s.start < s.stop}
NoTimes  == [start |-> 0, stop |-> 0]

VARIABLES
    m_StreamState, m_StreamStateOnStop,     \* "flowing" or "discarding"
    m_tStartTime, m_tStopTime,
    m_dwStartCookie, m_dwStopCookie,        \* the application wants to be told
    m_StreamEvent,
    m_FilterState, m_bIsFlushing, m_bStopSendExtra, m_bStopExtraSent,
    m_pRefClock,                            \* there is a clock
    now,
    caller,             \* where the streaming thread is
    sample,
    startDue, stopDue   \* the application is to be told: of a cookie not cancelled or replaced

commands == << m_tStartTime, m_tStopTime, m_dwStartCookie, m_dwStopCookie, m_StreamStateOnStop,
               m_bStopSendExtra, m_bStopExtraSent, startDue, stopDue >>
threads  == << caller, sample >>
filter   == << m_FilterState, m_bIsFlushing, m_pRefClock, now >>
vars == << m_StreamState, m_StreamEvent, commands, threads, filter >>

Init ==
    /\ m_StreamState = "flowing" /\ m_StreamStateOnStop = "flowing"
    /\ m_tStartTime = MAX_TIME /\ m_tStopTime = MAX_TIME
    /\ m_dwStartCookie = FALSE /\ m_dwStopCookie = FALSE
    /\ m_StreamEvent = FALSE
    /\ m_FilterState = "Stopped" /\ m_bIsFlushing = FALSE
    /\ m_bStopSendExtra = FALSE /\ m_bStopExtraSent = FALSE
    /\ m_pRefClock \in BOOLEAN /\ now = 0
    /\ caller = "idle" /\ sample = NoTimes
    /\ startDue = FALSE /\ stopDue = FALSE

-----------------------------------------------------------------------------
(* The commands.                                                           *)

CancelStopThen(state) ==
    /\ m_tStopTime' = MAX_TIME /\ m_dwStopCookie' = FALSE /\ m_StreamStateOnStop' = "flowing"
    /\ stopDue' = FALSE
    /\ m_StreamState' = state

CancelStartThen(state) ==
    /\ m_tStartTime' = MAX_TIME /\ m_dwStartCookie' = FALSE /\ startDue' = FALSE
    /\ m_StreamState' = state

StopUnchanged  == UNCHANGED << m_tStopTime, m_dwStopCookie, m_StreamStateOnStop, stopDue,
                               m_bStopSendExtra, m_bStopExtraSent >>
StartUnchanged == UNCHANGED << m_tStartTime, m_dwStartCookie, startDue >>

\* The first command that comes to a stopped filter says how it begins: with what it
\* does not command.
StopAt(t, extra, cookie) ==
    /\ t \in Times
    /\ m_StreamState' = IF m_FilterState = "Stopped" /\ m_tStartTime > t
                        THEN "flowing" ELSE m_StreamState
    /\ m_tStopTime' = t /\ m_StreamStateOnStop' = "discarding"
    /\ m_dwStopCookie' = cookie /\ stopDue' = cookie
    /\ m_bStopSendExtra' = extra /\ m_bStopExtraSent' = FALSE
    /\ m_StreamEvent' = TRUE
    /\ StartUnchanged /\ UNCHANGED << threads, filter >>

StopNow ==
    /\ CancelStopThen("discarding")
    /\ m_bStopSendExtra' = FALSE /\ m_bStopExtraSent' = FALSE
    /\ m_StreamEvent' = TRUE
    /\ StartUnchanged /\ UNCHANGED << threads, filter >>

StopNever ==
    /\ CancelStopThen(IF m_FilterState = "Stopped" /\ m_tStartTime < MAX_TIME
                      THEN "discarding" ELSE m_StreamState)
    /\ m_bStopSendExtra' = FALSE /\ m_bStopExtraSent' = FALSE
    /\ StartUnchanged /\ UNCHANGED << m_StreamEvent, threads, filter >>

StartAt(t, cookie) ==
    /\ t \in Times
    /\ m_StreamState' = IF m_FilterState = "Stopped" /\ m_tStopTime >= t
                        THEN "discarding" ELSE m_StreamState
    /\ m_tStartTime' = t /\ m_dwStartCookie' = cookie /\ startDue' = cookie
    /\ m_StreamEvent' = TRUE
    /\ StopUnchanged /\ UNCHANGED << threads, filter >>

StartNow ==
    /\ CancelStartThen("flowing")
    /\ m_StreamEvent' = TRUE
    /\ StopUnchanged /\ UNCHANGED << threads, filter >>

StartNever ==
    /\ CancelStartThen(IF m_FilterState = "Stopped" /\ m_tStopTime < MAX_TIME
                       THEN "flowing" ELSE m_StreamState)
    /\ StopUnchanged /\ UNCHANGED << m_StreamEvent, threads, filter >>

-----------------------------------------------------------------------------
(* What is executed: start, stop, or both in an order; each of them tells  *)
(* the application if it has a cookie, and forgets the command.            *)

AfterStop  == m_StreamStateOnStop
AfterStart == "flowing"

ForgetStop ==
    /\ m_tStopTime' = MAX_TIME /\ m_dwStopCookie' = FALSE /\ m_StreamStateOnStop' = "flowing"
    /\ stopDue' = (stopDue /\ ~m_dwStopCookie)
    /\ UNCHANGED << m_bStopSendExtra, m_bStopExtraSent >>

ForgetStart ==
    /\ m_tStartTime' = MAX_TIME /\ m_dwStartCookie' = FALSE
    /\ startDue' = (startDue /\ ~m_dwStartCookie)

Execute(order) ==
    /\ IF order \in {"stop", "start stop", "stop start"} THEN ForgetStop ELSE StopUnchanged
    /\ IF order \in {"start", "start stop", "stop start"} THEN ForgetStart ELSE StartUnchanged

StateAfter(order) ==
    CASE order = "none" -> m_StreamState
      [] order \in {"start", "stop start"} -> AfterStart
      [] order \in {"stop", "start stop"} -> AfterStop

Order_StopFirst(s) ==           \* mutated form: at the same time, the stop comes first
    IF m_tStopTime >= s.start
    THEN IF m_tStartTime >= s.stop THEN "none"
         ELSE IF m_tStopTime < m_tStartTime THEN "stop start"
         ELSE "start"
    ELSE IF m_tStartTime >= s.stop THEN "stop"
    ELSE IF m_tStartTime < m_tStopTime THEN "start stop"
    ELSE "stop start"

\* CheckSampleTimes' decision.
Order(s) ==
    IF m_tStopTime >= s.start
    THEN IF m_tStartTime >= s.stop THEN "none"
         ELSE IF m_tStopTime < m_tStartTime THEN "stop start"
         ELSE "start"
    ELSE IF m_tStartTime >= s.stop THEN "stop"
    ELSE IF m_tStartTime <= m_tStopTime THEN "start stop"
    ELSE "stop start"

\* NotifyFilterState's, when the filter stops: whatever is pending, in its order.
PendingOrder_StopOnly ==        \* mutated form: a pending start is forgotten
    IF m_tStopTime = MAX_TIME THEN "none" ELSE "stop"

PendingOrder ==
    IF m_tStartTime # MAX_TIME /\ m_tStopTime = MAX_TIME THEN "start"
    ELSE IF m_tStopTime # MAX_TIME /\ m_tStartTime = MAX_TIME THEN "stop"
    ELSE IF m_tStopTime = MAX_TIME THEN "none"
    ELSE IF m_tStartTime <= m_tStopTime THEN "start stop" ELSE "stop start"

-----------------------------------------------------------------------------
(* CheckStreamState, on the streaming thread.                              *)

CallerOnly == UNCHANGED << m_StreamState, m_StreamEvent, commands, filter >>

\* The pin asks about a sample, with times or without; a stopped or flushing pin refuses.
CheckStreamState ==
    /\ caller = "idle" /\ m_FilterState # "Stopped" /\ ~m_bIsFlushing
    /\ caller' = "loop" /\ sample' \in Samples \cup {NoTimes}
    /\ CallerOnly

\* The answer: flowing, discarding, or, of the extra one, flowing.
Return == caller' = "idle" /\ sample' = NoTimes

Broken ==
    /\ caller = "loop" /\ (m_bIsFlushing \/ m_FilterState = "Stopped")
    /\ Return
    /\ CallerOnly

\* Without times the state decides, but nothing flows or is held back for it.
Untimed ==
    /\ caller = "loop" /\ ~m_bIsFlushing /\ m_FilterState # "Stopped" /\ sample = NoTimes
    /\ Return
    /\ CallerOnly

\* The test before is not under the lock, so that a flush or stop may come between.
Tested ==
    /\ caller = "loop" /\ ~m_bIsFlushing /\ m_FilterState # "Stopped" /\ sample # NoTimes
    /\ caller' = "check"
    /\ UNCHANGED sample /\ CallerOnly

CheckSampleTimes ==
    /\ caller = "check"
    /\ m_StreamState' = StateAfter(Order(sample))
    /\ Execute(Order(sample))
    /\ IF StateAfter(Order(sample)) = "flowing" THEN Return
       ELSE caller' = "discard" /\ UNCHANGED sample
    /\ UNCHANGED << m_StreamEvent, filter >>

\* One more than was to be sent, once the stop is no longer pending.
SendsExtra ==
    /\ m_bStopSendExtra /\ ~m_bStopExtraSent /\ m_tStopTime = MAX_TIME
    /\ m_FilterState # "Stopped"

SendExtra ==
    /\ caller = "discard" /\ SendsExtra
    /\ m_bStopExtraSent' = TRUE
    /\ Return
    /\ UNCHANGED << m_StreamState, m_StreamEvent, m_tStartTime, m_tStopTime, m_dwStartCookie,
                    m_dwStopCookie, m_StreamStateOnStop, m_bStopSendExtra, startDue, stopDue, filter >>

\* Without a clock, and when the sample's time has come, it is discarded at once.
DiscardNow ==
    /\ caller = "discard" /\ ~SendsExtra
    /\ ~m_pRefClock \/ (m_FilterState # "Paused" /\ sample.start <= now)
    /\ Return
    /\ CallerOnly

\* Paused, it waits for an event alone; else also for the sample's time.
Hold ==
    /\ caller = "discard" /\ ~SendsExtra /\ m_pRefClock
    /\ m_FilterState = "Paused" \/ sample.start > now
    /\ caller' = IF m_FilterState = "Paused" THEN "wait" ELSE "timed"
    /\ UNCHANGED sample /\ CallerOnly

Signalled ==
    /\ caller \in {"wait", "timed"} /\ m_StreamEvent
    /\ m_StreamEvent' = FALSE /\ caller' = "loop"
    /\ UNCHANGED << m_StreamState, commands, sample, filter >>

TimedOut ==
    /\ caller = "timed" /\ sample.start <= now
    /\ Return
    /\ CallerOnly

-----------------------------------------------------------------------------
(* What the filter tells.                                                  *)

NotifyStopped ==
    /\ m_FilterState # "Stopped"
    /\ m_FilterState' = "Stopped" /\ now' = 0
    /\ Execute(PendingOrder)
    /\ m_StreamState' = "flowing"
    /\ m_StreamEvent' = TRUE
    /\ UNCHANGED << threads, m_bIsFlushing, m_pRefClock >>

NotifyPaused ==
    /\ m_FilterState # "Paused" /\ (m_FilterState = "Stopped" => caller = "idle")
    /\ m_FilterState' = "Paused" /\ m_StreamEvent' = TRUE
    /\ UNCHANGED << m_StreamState, commands, threads, m_bIsFlushing, m_pRefClock, now >>

NotifyRunning_NoEvent ==        \* mutated form: a held sample is not looked at again
    /\ m_FilterState = "Paused"
    /\ m_FilterState' = "Running"
    /\ UNCHANGED << m_StreamState, m_StreamEvent, commands, threads, m_bIsFlushing, m_pRefClock, now >>

NotifyRunning ==
    /\ m_FilterState = "Paused"
    /\ m_FilterState' = "Running" /\ m_StreamEvent' = TRUE
    /\ UNCHANGED << m_StreamState, commands, threads, m_bIsFlushing, m_pRefClock, now >>

Flushing(inProgress) ==
    /\ m_bIsFlushing # inProgress /\ (inProgress \/ caller = "idle")
    /\ m_bIsFlushing' = inProgress
    /\ m_StreamEvent' = TRUE
    /\ UNCHANGED << m_StreamState, commands, threads, m_FilterState, m_pRefClock, now >>

Tick ==
    /\ m_FilterState = "Running" /\ now < MaxTime
    /\ now' = now + 1
    /\ UNCHANGED << m_StreamState, m_StreamEvent, commands, threads, m_FilterState, m_bIsFlushing,
                    m_pRefClock >>

-----------------------------------------------------------------------------
Command ==
    \/ \E t \in Times, extra, cookie \in BOOLEAN : StopAt(t, extra, cookie)
    \/ \E t \in Times, cookie \in BOOLEAN : StartAt(t, cookie)
    \/ StopNow \/ StopNever \/ StartNow \/ StartNever

CallerStep == Broken \/ Untimed \/ Tested \/ CheckSampleTimes \/ SendExtra \/ DiscardNow \/ Hold
              \/ Signalled \/ TimedOut

Next ==
    \/ Command \/ CheckStreamState \/ CallerStep
    \/ NotifyStopped \/ NotifyPaused \/ NotifyRunning
    \/ \E inProgress \in BOOLEAN : Flushing(inProgress)
    \/ Tick

Spec == Init /\ [][Next]_vars /\ WF_vars(CallerStep) /\ WF_vars(Tick)

-----------------------------------------------------------------------------
(* Properties.                                                             *)

TypeOK ==
    /\ {m_StreamState, m_StreamStateOnStop} \subseteq {"flowing", "discarding"}
    /\ m_tStartTime \in 0..MAX_TIME /\ m_tStopTime \in 0..MAX_TIME
    /\ {m_dwStartCookie, m_dwStopCookie, m_StreamEvent, m_bIsFlushing, m_bStopSendExtra,
        m_bStopExtraSent, m_pRefClock, startDue, stopDue} \subseteq BOOLEAN
    /\ m_FilterState \in {"Stopped", "Paused", "Running"} /\ now \in Times
    /\ caller \in {"idle", "loop", "check", "discard", "wait", "timed"}
    /\ sample \in Samples \cup {NoTimes}

\* The state that the samples before time t leave the stream in, by the comment above the
\* code: the last command before t decides, a start before a stop of the same time.
StateBefore(t) ==
    IF m_tStartTime < t /\ (m_tStopTime >= t \/ m_tStopTime < m_tStartTime) THEN "flowing"
    ELSE IF m_tStopTime < t THEN "discarding"
    ELSE m_StreamState

\* What the comment says of the nineteen cases: a command is inside a sample from its start
\* up to but not including its stop, and a sample is sent as a whole if any part of it is
\* to be sent, that is, if the stream flows before it or starts inside it.
CasesAsCommented ==
    caller = "check" =>
        (StateAfter(Order(sample)) = "flowing"
            <=> \/ StateBefore(sample.start) = "flowing"
                \/ m_tStartTime \in sample.start..sample.stop - 1)

\* The application is told of every start and stop it wants to be told of, also when the
\* stream jumps over it or the filter stops before it, unless it cancels or replaces
\* the command; and a command is executed once.
TellsOfEverything ==
    /\ startDue' => m_dwStartCookie' /\ m_tStartTime' # MAX_TIME
    /\ stopDue' => m_dwStopCookie' /\ m_tStopTime' # MAX_TIME
    /\ m_FilterState' = "Stopped" /\ m_FilterState # "Stopped"
         => m_tStartTime' = MAX_TIME /\ m_tStopTime' = MAX_TIME

ToldOfEverything == [][TellsOfEverything]_vars

\* A held sample is let go when the pin is flushed or the filter stops, and in a running
\* filter when its time comes, however often the application changes its mind.
Holds(when) ==
    /\ caller # "idle"
    /\ IF when = "over" THEN m_bIsFlushing \/ m_FilterState = "Stopped"
       ELSE m_FilterState = "Running"

Releases(when) == caller = "idle" \/ (when = "running" /\ m_FilterState # "Running")

HeldIsLetGo == \A when \in {"over", "running"} : Holds(when) ~> Releases(when)
==============================================================================
