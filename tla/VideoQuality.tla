----------------------------- MODULE VideoQuality -----------------------------
(***************************************************************************)
(* CBaseVideoRenderer (baseclasses renbase.cpp): which frames of a stream  *)
(* are drawn at once, drawn when due, or dropped, from running averages of *)
(* the times that drawing, waiting and the frames themselves take; what the*)
(* supplier is told about it; and the statistics of the property page.     *)
(*                                                                         *)
(* Times are in units of 100 ns, as in the code, and whole milliseconds    *)
(* where it reads timeGetTime.  Frame k is due at k * Duration.  It comes  *)
(* early by one of Leads or late by one of Lags, after the last one has    *)
(* been drawn, and drawing it takes one of Renders.                        *)
(***************************************************************************)
EXTENDS Integers

CONSTANTS
    Duration, Renders,
    Leads, Lags,    \* how early and how late a frame may come
    MaxFrames       \* bound: frames in a stream

VideoQualityAssumption ==
    /\ Duration \in Nat \ {0} /\ Renders \subseteq Nat /\ MaxFrames \in Nat
    /\ Leads \subseteq Nat /\ Lags \subseteq Nat

Delays == Lags \union { -lead : lead \in Leads }

UNITS     == 10000000
MILLI     == 10000
AVGPERIOD == 4
GROSS     == 9000000    \* a frame that comes earlier is grossly early

\* Division of C, towards zero.
Quotient(a, b) == IF a >= 0 THEN a \div b ELSE -((-a) \div b)

MovingAverage(new, avg) == Quotient(new + avg * (AVGPERIOD - 1), AVGPERIOD)

VARIABLES
    m_trRenderAvg, m_trRenderLast, m_trFrameAvg, m_trDuration, m_trWaitAvg,
    m_trEarliness, m_trLastDraw, m_nNormal,
    m_bSupplierHandlingQuality,
    m_cFramesDrawn, m_cFramesDropped,
    m_iTotAcc, m_iSumSqAcc, m_iSumSqFrameTime, m_iSumFrameTime,
    m_trLate, m_trFrame,    \* of the frame that is scheduled
    proportion,             \* in the last quality message
    frame,                  \* the number of frames that have come
    drawAt,                 \* when the scheduled frame is drawn; None if there is none
    now,                    \* when the next frame comes
    lastShown,              \* when a frame was really drawn, or the stream started
    slowest,                \* the longest that drawing has taken
    shortest                \* the shortest time that was taken for a frame's

averages   == << m_trRenderAvg, m_trRenderLast, m_trFrameAvg, m_trDuration, m_trWaitAvg,
                 m_trEarliness, m_trLastDraw, m_nNormal, m_bSupplierHandlingQuality >>
statistics == << m_cFramesDrawn, m_iTotAcc, m_iSumSqAcc, m_iSumSqFrameTime, m_iSumFrameTime >>
scheduled  == << m_trLate, m_trFrame >>
vars == << averages, statistics, m_cFramesDropped, scheduled, proportion, frame, drawAt, now,
           lastShown, slowest, shortest >>

None == -UNITS

Lower(a, b)  == IF a < b THEN a ELSE b
Higher(a, b) == IF a > b THEN a ELSE b

\* ResetStreamingTimes.
Init ==
    /\ m_trLastDraw = -1000
    /\ m_trRenderAvg = 0 /\ m_trFrameAvg = -1 /\ m_trDuration = 0
    /\ m_trRenderLast = 0 /\ m_trWaitAvg = 0
    /\ m_cFramesDrawn = 0 /\ m_cFramesDropped = 0
    /\ m_iTotAcc = 0 /\ m_iSumSqAcc = 0 /\ m_iSumSqFrameTime = 0 /\ m_iSumFrameTime = 0
    /\ m_trFrame = 0 /\ m_trLate = 0 /\ m_nNormal = 0 /\ m_trEarliness = 0
    /\ m_bSupplierHandlingQuality = FALSE
    /\ proportion = 1000 /\ frame = 0 /\ drawAt = None /\ lastShown = 0
    /\ slowest = 0 /\ shortest = Duration
    /\ \E d \in Delays : now = Higher(0, d)

-----------------------------------------------------------------------------
(* What the supplier is told.                                              *)

\* SendQuality's proportion of the data that would be handled in time.
Proportion_Unbounded(late) ==       \* mutated form: however late it is
    IF m_trFrameAvg < 0 THEN 1000
    ELSE IF late > 0 THEN 1000 - late \div MILLI
    ELSE IF m_trWaitAvg > 20000 /\ late < -20000
    THEN IF m_trWaitAvg >= m_trFrameAvg THEN 2000
         ELSE Lower(2000, 1000 * (m_trFrameAvg \div (m_trFrameAvg + 20000 - m_trWaitAvg)))
    ELSE 1000

Proportion(late) ==
    IF m_trFrameAvg < 0 THEN 1000
    ELSE IF late > 0 THEN Higher(500, 1000 - late \div MILLI)
    ELSE IF m_trWaitAvg > 20000 /\ late < -20000
    THEN IF m_trWaitAvg >= m_trFrameAvg THEN 2000
         ELSE Lower(2000, 1000 * (m_trFrameAvg \div (m_trFrameAvg + 20000 - m_trWaitAvg)))
    ELSE 1000

-----------------------------------------------------------------------------
(* The decision: ShouldDrawSampleNow, for a frame with the given start and  *)
(* length, that comes now.  The supplier answers each message: it handles   *)
(* the quality, or leaves that to the renderer; and its frame may be marked *)
(* as a discontinuity.                                                      *)

\* The samples are biased for the monitor, but never to a negative time.
Biased(start) == IF start >= 80000 THEN start - 80000 ELSE start

\* The frame rate has just changed, more than the files vary.
RateChanged(length) ==
    LET t == m_trDuration \div 32 IN length > m_trDuration + t \/ length < m_trDuration - t

FrameAvg(length) == IF RateChanged(length) THEN length ELSE m_trFrameAvg

JustDropped(handles, discontinuity) == (handles /\ discontinuity) \/ m_nNormal = -1

\* The graceful slide back from slow to fast machine mode.
Earliness(late, dropped) ==
    IF late > 0 THEN 0
    ELSE IF late >= m_trEarliness \/ dropped THEN late
    ELSE m_trEarliness - Quotient(m_trEarliness, 8)

WaitAverage(late) == MovingAverage(IF late < 0 THEN -late ELSE 0, m_trWaitAvg)

SinceLastDraw == now - m_trLastDraw

MustDraw_NotStale(late, length, handles) ==     \* mutated form: however long nothing was drawn
    \/ 3 * m_trRenderAvg <= FrameAvg(length)
    \/ (IF handles THEN late <= length * 4 ELSE late + late < length)
    \/ m_trWaitAvg > 80000

MustDraw(late, length, handles) ==
    \/ 3 * m_trRenderAvg <= FrameAvg(length)
    \/ (IF handles THEN late <= length * 4 ELSE late + late < length)
    \/ m_trWaitAvg > 80000
    \/ SinceLastDraw > UNITS

\* Catching up, or below the frame rate; unless it would be grossly early.
PlayASAP(late, length, dropped) ==
    /\ dropped \/ (FrameAvg(length) > length + length \div 16 /\ late > -length * 10)
    /\ late >= -GROSS

\* Of a frame that is drawn when due, how early.
EarlyBy_Unbounded(late, length, dropped) == Earliness(late, dropped)    \* mutated form

EarlyBy(late, length, dropped) == Higher(Earliness(late, dropped), -length)

\* The frame after the one that comes now, not before the given time.
NextComes(after) == \E d \in Delays : now' = Higher(after, frame' * Duration + d)

\* The frame is drawn at once, in slow machine mode.
DrawNow(late, length, dropped) ==
    /\ PlayASAP(late, length, dropped)
    /\ LET since == Lower(SinceLastDraw, UNITS) IN
         /\ m_trFrameAvg' = MovingAverage(since, FrameAvg(length))
         /\ m_trLate' = late /\ m_trFrame' = since
         /\ shortest' = Lower(shortest, since)
    /\ m_nNormal' = 0
    /\ m_trWaitAvg' = MovingAverage(0, m_trWaitAvg)
    /\ m_trEarliness' = Lower(Earliness(late, dropped), late)
    /\ m_trLastDraw' = now /\ drawAt' = now
    /\ UNCHANGED << m_cFramesDropped, now >>

\* The frame is drawn when it is due, or at once if that has passed.
DrawWhenDue(start, late, length, dropped) ==
    /\ ~PlayASAP(late, length, dropped)
    /\ LET planned == Biased(start) + EarlyBy(late, length, dropped) IN
         IF late < 0
         THEN /\ m_trFrame' = planned - m_trLastDraw /\ m_trLate' = planned - Biased(start)
              /\ m_trLastDraw' = planned /\ drawAt' = planned
         ELSE /\ m_trFrame' = Lower(SinceLastDraw, UNITS) /\ m_trLate' = late
              /\ m_trLastDraw' = now /\ drawAt' = now
    /\ m_nNormal' = m_nNormal + 1
    /\ m_trFrameAvg' = length
    /\ m_trEarliness' = Earliness(late, dropped)
    /\ m_trWaitAvg' = WaitAverage(late)
    /\ UNCHANGED << m_cFramesDropped, now, shortest >>

Drop(late, length, dropped) ==
    /\ m_trWaitAvg' = WaitAverage(late) /\ m_trFrameAvg' = FrameAvg(length)
    /\ m_trEarliness' = Earliness(late, dropped)
    /\ m_nNormal' = -1
    /\ m_cFramesDropped' = m_cFramesDropped + 1
    /\ NextComes(now)
    /\ UNCHANGED << m_trLastDraw, scheduled, drawAt, shortest >>

ShouldDrawSampleNow(start, length, handles, discontinuity) ==
    LET late    == now - Biased(start)
        dropped == JustDropped(handles, discontinuity)
    IN  /\ drawAt = None /\ frame < MaxFrames
        /\ frame' = frame + 1
        /\ proportion' = Proportion(late)
        /\ m_bSupplierHandlingQuality' = handles
        /\ IF MustDraw(late, length, handles)
           THEN DrawNow(late, length, dropped) \/ DrawWhenDue(start, late, length, dropped)
           ELSE Drop(late, length, dropped)
        /\ m_trDuration' = IF RateChanged(length) THEN length ELSE m_trDuration
        /\ UNCHANGED << m_trRenderAvg, m_trRenderLast, statistics, lastShown, slowest >>

-----------------------------------------------------------------------------
(* Drawing: OnRenderStart takes the frame into the statistics, OnRenderEnd  *)
(* measures how long it took.                                               *)

\* More than a second off is an accident.
WithinSecond(ms) == IF ms > 1000 THEN 1000 ELSE IF ms < -1000 THEN -1000 ELSE ms

RecordFrameLateness_CountFirst(late, between) ==    \* mutated form: the first frames in the total
    LET l == WithinSecond(Quotient(late, MILLI)) IN
    /\ m_iTotAcc' = m_iTotAcc + l
    /\ m_iSumSqAcc' = IF m_cFramesDrawn > 1 THEN m_iSumSqAcc + l * l ELSE m_iSumSqAcc
    /\ UNCHANGED << m_iSumFrameTime, m_iSumSqFrameTime >>
    /\ m_cFramesDrawn' = m_cFramesDrawn + 1

RecordFrameLateness(late, between) ==
    LET ms == Quotient(late, MILLI)
        l  == IF m_cFramesDrawn <= 1 /\ (ms > 1000 \/ ms < -1000) THEN 0 ELSE WithinSecond(ms)
        b  == Quotient(between, MILLI)
        f  == IF b > 1000 \/ b < 0 THEN 1000 ELSE b
    IN  /\ IF m_cFramesDrawn > 1
           THEN m_iTotAcc' = m_iTotAcc + l /\ m_iSumSqAcc' = m_iSumSqAcc + l * l
           ELSE UNCHANGED << m_iTotAcc, m_iSumSqAcc >>
        /\ IF m_cFramesDrawn > 2
           THEN /\ m_iSumFrameTime' = m_iSumFrameTime + f
                /\ m_iSumSqFrameTime' = m_iSumSqFrameTime + f * f
           ELSE UNCHANGED << m_iSumFrameTime, m_iSumSqFrameTime >>
        /\ m_cFramesDrawn' = m_cFramesDrawn + 1

\* An odd spike is not taken into the average.
OnRenderEnd(took) ==
    /\ m_trRenderAvg' = IF took < 2 * m_trRenderAvg \/ took < 2 * m_trRenderLast
                        THEN MovingAverage(took, m_trRenderAvg) ELSE m_trRenderAvg
    /\ m_trRenderLast' = took

Render(took) ==
    /\ drawAt # None
    /\ RecordFrameLateness(m_trLate, m_trFrame)
    /\ OnRenderEnd(took)
    /\ drawAt' = None /\ lastShown' = drawAt
    /\ slowest' = Higher(slowest, took)
    /\ UNCHANGED << frame, m_cFramesDropped, scheduled, proportion, m_trFrameAvg, m_trDuration,
                    m_trWaitAvg, m_trEarliness, m_trLastDraw, m_nNormal,
                    m_bSupplierHandlingQuality, shortest >>
    /\ NextComes(drawAt + took)

Next ==
    \/ \E handles, discontinuity \in BOOLEAN :
          ShouldDrawSampleNow(frame * Duration, Duration, handles, discontinuity)
    \/ \E took \in Renders : Render(took)

Spec == Init /\ [][Next]_vars

-----------------------------------------------------------------------------
(* The numbers of the property page.                                       *)

\* Approximate integer square root: a guess 1 to 2 times too large, then three steps.
Isqrt(x) ==
    LET guess   == CHOOSE s \in { 2^i : i \in 0..15 } : s * s >= x /\ (s = 1 \/ (s \div 2) * (s \div 2) < x)
        NR(s)   == (s * s + x) \div (2 * s)
    IN  IF x = 0 THEN 0 ELSE NR(NR(NR(guess)))

\* llMulDiv(iTot, iTot, nSamples, 0) is the square's quotient.
Variance(n, sumSq, tot) == (sumSq - (tot * tot) \div n) \div (n - 1)

GetStdDev(n, sumSq, tot) == IF n <= 1 THEN 0 ELSE Isqrt(Variance(n, sumSq, tot))

get_AvgSyncOffset ==
    IF m_cFramesDrawn <= 1 THEN 0 ELSE Quotient(m_iTotAcc, m_cFramesDrawn - 1)
get_DevSyncOffset == GetStdDev(m_cFramesDrawn - 1, m_iSumSqAcc, m_iTotAcc)
get_Jitter        == GetStdDev(m_cFramesDrawn - 2, m_iSumSqFrameTime, m_iSumFrameTime)

-----------------------------------------------------------------------------
(* The page's numbers are possible ones: every frame that came is drawn,    *)
(* dropped or waiting to be drawn; no deviation is the root of a negative   *)
(* number (RecordFrameLateness: "attempts to find square roots of negative  *)
(* numbers"; the assertion of GetStdDev), the root is right to a            *)
(* millisecond as isqrt says, and no number is beyond the second that       *)
(* lateness and frame times are cut to.                                     *)
RootIsRight(x) ==
    LET r == Isqrt(x) IN x >= 0 /\ Higher(0, r - 1) * Higher(0, r - 1) <= x /\ x < (r + 1) * (r + 1)

StatisticsSound ==
    /\ m_cFramesDrawn + m_cFramesDropped + (IF drawAt = None THEN 0 ELSE 1) = frame
    /\ get_AvgSyncOffset \in -1000..1000
    /\ m_cFramesDrawn > 2 => RootIsRight(Variance(m_cFramesDrawn - 1, m_iSumSqAcc, m_iTotAcc))
    /\ m_cFramesDrawn > 3 => RootIsRight(Variance(m_cFramesDrawn - 2, m_iSumSqFrameTime, m_iSumFrameTime))

(* A frame is dropped only when that helps and does not show.  Where the    *)
(* supplier answers that it sees to the quality, the frame is late by more  *)
(* than four of its length; otherwise it is late, and drawing has once taken*)
(* more than a third of a frame's time: of its length, or of the time       *)
(* between two frames that were drawn at once to catch up, which the average*)
(* takes in.  And a picture was really drawn less than a second ago ("which *)
(* stops the video looking hung").  The next frame that is drawn after it   *)
(* is drawn at once, unless it is grossly early.                            *)
DropIsJustified ==
    /\ m_cFramesDropped' # m_cFramesDropped =>
         /\ IF m_bSupplierHandlingQuality'
            THEN now > Biased(frame * Duration) + 4 * Duration
            ELSE now > Biased(frame * Duration) /\ 3 * slowest > shortest
         /\ now - lastShown <= UNITS
    /\ m_nNormal = -1 /\ drawAt' # None =>
         drawAt' = now \/ now < frame * Duration - GROSS

DropsAreJustified == [][DropIsJustified]_vars

(* A frame is never shown before it has come, nor earlier than the bounds   *)
(* of its mode: 900 milliseconds in slow machine mode, the length of a      *)
(* frame when it is waited for.  The supplier is told to slow down or to    *)
(* speed up by a factor of two at most, and never to speed up for a frame   *)
(* that is late.                                                           *)
ShownInTime ==
    /\ drawAt # None =>
         LET due == Biased((frame - 1) * Duration) IN
         /\ drawAt >= now /\ drawAt >= lastShown
         /\ drawAt >= due - Higher(GROSS, Duration)
         /\ drawAt > now => drawAt \in (due - Duration)..due
         /\ proportion > 1000 => drawAt <= due
    /\ proportion \in 500..2000
    /\ m_trEarliness <= 0

==============================================================================
