----------------------------- MODULE FrameClock -----------------------------
(***************************************************************************)
(* The time stamps and the pace of the frames: the second half of          *)
(* CCamPin::FillBuffer, between the copy of the screen and the delivery.   *)
(* m_previousFrameEndTime is the schedule: a frame that is early by the    *)
(* stream time waits for it, a late one does not and lets it catch up.     *)
(*                                                                         *)
(* The stream time (reference clock minus the start time given to Run) is  *)
(* external: it starts at or before zero, advances, and is set back when   *)
(* the graph is paused and run again.  Times are in any unit; the frame    *)
(* length is what put_Settings (UNITS / fps) or SetMediaType last set.     *)
(***************************************************************************)
EXTENDS Integers

CONSTANTS
    MinLength, MaxLength,   \* the frame lengths in use
    Lead,                   \* how far ahead the start time given to Run may be
    Latest,                 \* bound of the stream time
    MaxOvershoot            \* how late Sleep(1) may wake the worker

ASSUME LengthAssumption ==
    MinLength \in Nat /\ MaxLength \in Nat /\ MinLength <= MaxLength
ASSUME TimeAssumption == Lead \in Nat /\ Latest \in Nat
ASSUME OvershootAssumption == MaxOvershoot \in Nat

VARIABLES
    m_previousFrameEndTime,     \* the schedule
    m_rtFrameLength,            \* duration of a frame
    hasClock,                   \* the filter has a reference clock
    streamTime,                 \* what StreamTime returns, with a clock
    waiting,                    \* the worker is in the Sleep(1) loop
    start, end                  \* times of the last stamped sample

\* History, since the streaming thread was created.
VARIABLES
    stamped,        \* a sample has been stamped
    inRow,          \* stamped at positive times since the last one that was not
    lastLength,     \* the frame length the last sample was stamped with
    high,           \* greatest stream time so far
    setBack         \* the stream time has been set back

vars == << m_previousFrameEndTime, m_rtFrameLength, hasClock, streamTime, waiting,
           start, end, stamped, inRow, lastLength, high, setBack >>

Length == MinLength .. MaxLength
Larger(a, b) == IF a > b THEN a ELSE b

TypeOK ==
    /\ m_previousFrameEndTime \in Nat
    /\ m_rtFrameLength \in Length
    /\ hasClock \in BOOLEAN
    /\ streamTime \in -Lead .. Latest
    /\ waiting \in BOOLEAN
    /\ start \in Int
    /\ end \in Int
    /\ stamped \in BOOLEAN
    /\ inRow \in Nat
    /\ lastLength \in Nat
    /\ high \in -Lead .. Latest
    /\ setBack \in BOOLEAN
    /\ streamTime <= high

Init ==
    /\ m_previousFrameEndTime = 0
    /\ m_rtFrameLength \in Length
    /\ hasClock \in BOOLEAN
    /\ streamTime \in -Lead .. 0
    /\ waiting = FALSE
    /\ start = 0 /\ end = 0
    /\ stamped = FALSE
    /\ inRow = 0
    /\ lastLength = 0
    /\ high = streamTime
    /\ setBack = FALSE

\* After a Stop, a new streaming thread; Run gives a start time that is now or
\* still to come.
Restart ==
    /\ ~waiting
    /\ streamTime' \in -Lead .. 0
    /\ start' = 0 /\ end' = 0 /\ stamped' = FALSE
    /\ inRow' = 0
    /\ lastLength' = 0
    /\ high' = streamTime'
    /\ setBack' = FALSE
    /\ UNCHANGED << m_rtFrameLength, hasClock, waiting >>

OnThreadCreate_KeepSchedule ==      \* mutated form: the schedule is not reset
    /\ Restart
    /\ UNCHANGED m_previousFrameEndTime

OnThreadCreate ==
    /\ Restart
    /\ m_previousFrameEndTime' = 0

-----------------------------------------------------------------------------
(* The stream time. *)

\* Sleep(1) wakes the worker in time: a wait is not overrun by more.
Advance ==
    /\ hasClock
    /\ streamTime < Latest
    /\ waiting => streamTime < m_previousFrameEndTime + MaxOvershoot
    /\ streamTime' = streamTime + 1
    /\ high' = Larger(high, streamTime')
    /\ UNCHANGED << m_previousFrameEndTime, m_rtFrameLength, hasClock, waiting, start,
                    end, stamped, inRow, lastLength, setBack >>

\* Paused and run again: the stream time resumes where the Pause was.
Rewind ==
    /\ hasClock
    /\ streamTime' \in -Lead .. streamTime - 1
    /\ setBack' = TRUE
    /\ UNCHANGED << m_previousFrameEndTime, m_rtFrameLength, hasClock, waiting, start,
                    end, stamped, inRow, lastLength, high >>

\* The graph sets or takes away the clock, at any time.
SetSyncSource ==
    /\ hasClock' \in BOOLEAN
    /\ UNCHANGED << m_previousFrameEndTime, m_rtFrameLength, streamTime, waiting, start,
                    end, stamped, inRow, lastLength, high, setBack >>

\* put_Settings or SetMediaType, at any time.
SetFrameLength ==
    /\ m_rtFrameLength' \in Length
    /\ UNCHANGED << m_previousFrameEndTime, hasClock, streamTime, waiting, start, end,
                    stamped, inRow, lastLength, high, setBack >>

-----------------------------------------------------------------------------
(* FillBuffer. *)

Now == IF hasClock THEN streamTime ELSE 0   \* StreamTime fails without a clock

IsEarly == Now > 0 /\ Now < m_previousFrameEndTime

Stamp(from, to) ==
    /\ start' = from
    /\ end' = to
    /\ stamped' = TRUE
    /\ inRow' = IF from > 0 THEN inRow + 1 ELSE 0
    /\ lastLength' = m_rtFrameLength

WaitForSchedule ==
    /\ ~waiting /\ IsEarly
    /\ waiting' = TRUE
    /\ UNCHANGED << m_previousFrameEndTime, m_rtFrameLength, hasClock, streamTime, start,
                    end, stamped, inRow, lastLength, high, setBack >>

StampAfterWait_NoWait ==            \* mutated form: an early frame is not held back
    /\ waiting /\ hasClock
    /\ waiting' = FALSE
    /\ m_previousFrameEndTime' = Larger(0, m_previousFrameEndTime + m_rtFrameLength)
    /\ Stamp(streamTime, m_previousFrameEndTime + m_rtFrameLength)
    /\ UNCHANGED << m_rtFrameLength, hasClock, streamTime, high, setBack >>

StampAfterWait_EndsEarly ==         \* mutated form: the end is that of the frame before
    /\ waiting /\ hasClock
    /\ streamTime >= m_previousFrameEndTime
    /\ waiting' = FALSE
    /\ m_previousFrameEndTime' = Larger(0, m_previousFrameEndTime + m_rtFrameLength)
    /\ Stamp(streamTime, m_previousFrameEndTime)
    /\ UNCHANGED << m_rtFrameLength, hasClock, streamTime, high, setBack >>

\* Without a clock StreamTime fails in the loop too, and the wait goes on.
StampAfterWait ==
    /\ waiting /\ hasClock
    /\ streamTime >= m_previousFrameEndTime
    /\ waiting' = FALSE
    /\ m_previousFrameEndTime' = Larger(0, m_previousFrameEndTime + m_rtFrameLength)
    /\ Stamp(streamTime, m_previousFrameEndTime + m_rtFrameLength)
    /\ UNCHANGED << m_rtFrameLength, hasClock, streamTime, high, setBack >>

\* Half a frame: the schedule is far ahead of a time that is not positive.
NearSchedule == Now > m_previousFrameEndTime - m_rtFrameLength

StampAtOnce_Half ==                 \* mutated form: the test is the wrong way round
    /\ ~waiting /\ ~IsEarly
    /\ IF ~NearSchedule
       THEN /\ m_previousFrameEndTime' = Larger(0, m_previousFrameEndTime + m_rtFrameLength)
            /\ Stamp(Now, Now + m_rtFrameLength)
       ELSE /\ m_previousFrameEndTime' = Larger(0, Now + m_rtFrameLength \div 2)
            /\ Stamp(Now, Now + m_rtFrameLength \div 2)
    /\ UNCHANGED << m_rtFrameLength, hasClock, streamTime, waiting, high, setBack >>

StampAtOnce ==
    /\ ~waiting /\ ~IsEarly
    /\ IF NearSchedule
       THEN /\ m_previousFrameEndTime' = Larger(0, m_previousFrameEndTime + m_rtFrameLength)
            /\ Stamp(Now, Now + m_rtFrameLength)
       ELSE /\ m_previousFrameEndTime' = Larger(0, Now + m_rtFrameLength \div 2)
            /\ Stamp(Now, Now + m_rtFrameLength \div 2)
    /\ UNCHANGED << m_rtFrameLength, hasClock, streamTime, waiting, high, setBack >>

Next ==
    \/ OnThreadCreate
    \/ Advance \/ Rewind \/ SetSyncSource \/ SetFrameLength
    \/ WaitForSchedule \/ StampAfterWait \/ StampAtOnce

Spec == Init /\ [][Next]_vars

-----------------------------------------------------------------------------
(* Properties. *)

\* The schedule is at most one frame ahead of the stream time (of the greatest
\* one, if it was set back), or two frames ahead of zero.  This bounds the wait
\* of FillBuffer, and with it the time a Stop takes: the wait does not look for
\* CMD_STOP.
ScheduleNotAhead ==
    m_previousFrameEndTime <= Larger(high, MaxLength) + MaxLength

\* The frame rate is never exceeded in the long run, whatever stalls, catching
\* up and setting back happen: the n-th frame of a row at positive stream times
\* starts no earlier than n - 1 frame lengths.
RateBounded ==
    inRow > 0 => start >= (inRow - 1) * MinLength

\* Both: the schedule holds the frames back, and lets them come, as it should.
FramesPaced == ScheduleNotAhead /\ RateBounded

\* A sample does not end before it starts, if the worker wakes up from Sleep(1)
\* within a frame length.
StartBeforeEnd == MaxOvershoot <= MinLength => start <= end

\* "guarantees monotonicity too": as long as the stream time is not set back,
\* the start times of frames at positive stream times never go back, nor do the
\* end times unless the frames become shorter.
NeverBack ==
    (stamped /\ start > 0 /\ inRow' = inRow + 1 /\ ~setBack)
        => (start' >= start /\ (m_rtFrameLength >= lastLength => end' >= end))

\* Both: the times FillBuffer gives to its samples are in order.
TimesInOrder == [][StartBeforeEnd' /\ NeverBack]_vars
=============================================================================
