--------------------------- MODULE AdviseSchedule ---------------------------
(***************************************************************************)
(* CAMSchedule and CBaseReferenceClock (baseclasses schedule.h,            *)
(* schedule.cpp, refclock.cpp): a list of advises, ordered by time, and the*)
(* clock's thread, which sleeps until the first is due, signals all that   *)
(* are, and sleeps again; an advise that becomes the first wakes it.  The  *)
(* unit of time is the millisecond in which the thread sleeps.  A cookie is*)
(* any number not in use (the code's counter does not come back).          *)
(***************************************************************************)
EXTENDS Integers, Sequences, SequencesExt

CONSTANTS
    Clients,        \* those whose event or semaphore is signalled
    MaxCookie,      \* bound: the advises there are at a time
    MaxNow          \* bound: the clock stops there

ScheduleAssumption == MaxCookie \in Nat \ {0} /\ MaxNow \in Nat

Forever == -1       \* INFINITE: the time of the list's end, MAX_TIME, never comes

VARIABLES
    now,            \* the clock's private time
    schedule,       \* the advises
    m_ev,           \* the event that wakes the clock's thread
    clock,          \* where that thread is: "wait", "woken" or, with the list's lock
                    \* held, "advising"
    rtNow,          \* the time it read when it woke, 0 while it sleeps
    wait,           \* how long it still sleeps
    signalled       \* of each client: its event, or its semaphore is not zero

clockVars == << now, schedule, m_ev, clock, rtNow, wait, signalled >>

\* One client may have called AdvisePeriodic already: the thread is to look.
ClockInit(client, period, times) ==
    /\ now = 1 /\ clock = "wait" /\ rtNow = 0 /\ wait = Forever
    /\ schedule \in { << >> } \cup
         { << [cookie |-> 1, time |-> t, period |-> period, client |-> client] >> : t \in times }
    /\ m_ev = (schedule # << >>)
    /\ signalled = [c \in Clients |-> FALSE]

Packet == [cookie : 1..MaxCookie, time : Nat \ {0}, period : Nat, client : Clients]

Cookies(s)    == { s[i].cookie : i \in DOMAIN s }
NewCookies(inUse) == (1..MaxCookie) \ (Cookies(schedule) \cup inUse)

\* p goes before the first advise of that time or later.
Place(s, time, n) ==
    /\ \A i \in 1..n : s[i].time < time
    /\ n < Len(s) => s[n + 1].time >= time

PutBefore(s, p, time) == InsertAt(s, 1 + CHOOSE n \in 0..Len(s) : Place(s, time, n), p)

\* The list is taken with m_Serialize, which Advise keeps for all that is due.
ScheduleFree == clock # "advising"

\* A new advise goes before those of the same time; the thread is woken if it
\* is the first.  One at or before time zero is refused (AdviseTime).
Valid(time) == time > 0

AddAdvisePacket_OnlyIfEmpty(p) ==       \* mutated form: the thread sleeps on
    /\ ScheduleFree
    /\ schedule' = PutBefore(schedule, p, p.time)
    /\ m_ev' = (m_ev \/ schedule = << >>)

AddAdvisePacket(p) ==
    /\ ScheduleFree
    /\ schedule' = PutBefore(schedule, p, p.time)
    /\ m_ev' = (m_ev \/ Head(schedule') = p)

\* Unadvise does not wake the thread: it wakes for nothing.
Without(s, cookie) ==
    IF cookie \in Cookies(s) THEN RemoveAt(s, CHOOSE i \in DOMAIN s : s[i].cookie = cookie) ELSE s

\* AdviseThread wakes by the event, or when its sleep is over.
Wake ==
    /\ clock = "wait" /\ (m_ev \/ wait = 0)
    /\ clock' = "woken" /\ m_ev' = FALSE /\ rtNow' = now
    /\ UNCHANGED << now, schedule, wait, signalled >>

\* Advise looks a millisecond ahead of the time that was read.  The first
\* advise, if it is due, is signalled: a one-shot advise is done; a periodic one is
\* put to its next time, behind those of the same time (ShuntHead).
IsDue == schedule # << >> /\ Head(schedule).time <= rtNow + 1

Shunted(p) == [p EXCEPT !.time = p.time + p.period]

Advise ==
    /\ clock \in {"woken", "advising"} /\ clock' = "advising" /\ IsDue
    /\ LET p == Head(schedule) IN
         /\ signalled' = [signalled EXCEPT ![p.client] = TRUE]
         /\ schedule' = IF p.period > 0
                        THEN PutBefore(Tail(schedule), Shunted(p), Shunted(p).time + 1)
                        ELSE Tail(schedule)
    /\ UNCHANGED << now, m_ev, rtNow, wait >>

\* Then the thread sleeps to the next.
AdviseThread ==
    /\ clock \in {"woken", "advising"} /\ clock' = "wait" /\ ~IsDue
    /\ wait' = IF schedule = << >> THEN Forever ELSE Head(schedule).time - rtNow
    /\ rtNow' = 0
    /\ UNCHANGED << now, schedule, m_ev, signalled >>

\* Time passes for the clock and the sleeper; a thread that should be awake is
\* scheduled before long.
Tick ==
    /\ now < MaxNow /\ clock = "wait" /\ ~m_ev /\ wait # 0
    /\ now' = now + 1
    /\ wait' = IF wait = Forever THEN Forever ELSE wait - 1
    /\ UNCHANGED << schedule, m_ev, clock, rtNow, signalled >>

\* SetTimeDelta sets the clock forward while the thread sleeps to an advise
\* (without one it is no different from the passing of time).
SetTimeDelta_Quiet ==                   \* mutated form: the thread is not triggered
    /\ schedule # << >> /\ clock = "wait" /\ now < MaxNow /\ now' = now + 1
    /\ UNCHANGED << schedule, m_ev, clock, rtNow, wait, signalled >>

SetTimeDelta ==
    /\ schedule # << >> /\ clock = "wait" /\ now < MaxNow /\ now' = now + 1
    /\ m_ev' = TRUE
    /\ UNCHANGED << schedule, clock, rtNow, wait, signalled >>

Thread == Wake \/ Advise \/ AdviseThread

-----------------------------------------------------------------------------
Ordered == \A i, j \in DOMAIN schedule : i < j => schedule[i].time <= schedule[j].time

\* The thread never sleeps past an advise: while it sleeps, and nothing has
\* woken it, its sleep ends no later than the first advise is due.
WakesInTime ==
    /\ Ordered
    /\ clock = "wait" /\ ~m_ev =>
           \A i \in DOMAIN schedule : wait # Forever /\ wait <= schedule[i].time - now
==============================================================================
