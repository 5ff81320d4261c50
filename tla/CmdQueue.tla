------------------------------- MODULE CmdQueue -------------------------------
(***************************************************************************)
(* CCmdQueue and CDeferredCommand (baseclasses ctlutil.cpp): commands that *)
(* are executed at presentation times or, while the filter runs, at stream *)
(* times.  The application creates, postpones and cancels them; one thread *)
(* of the filter waits for the next one that is due, or asks for one that  *)
(* is due for a sample, and invokes it.                                    *)
(*                                                                         *)
(* The lists are under m_Lock; m_pQueue of a command, by which it knows    *)
(* that it is still outstanding, is not.  The model goes no further (Ends) *)
(* where the code calls through m_pQueue when it is NULL, deletes a        *)
(* command that is referred to, or releases a reference it never took.     *)
(* The clock signals m_evDue when an advised time has come, at once if it  *)
(* has passed.  Time 0 is none.                                            *)
(***************************************************************************)
EXTENDS Integers, Sequences, SequencesExt

CONSTANTS
    Commands, None,
    MaxTime,        \* the clock stops there, and no command is later
    Offset          \* of stream time, when the filter runs

CmdQueueAssumption ==
    /\ None \notin Commands
    /\ MaxTime \in Nat \ {0} /\ Offset \in 0..MaxTime

Times(stream) == 1..(MaxTime - (IF stream THEN Offset ELSE 0))

VARIABLES
    m_listPresentation, m_listStream,
    m_time, m_bStream, m_pQueue, m_cRef,        \* of each command, m_time 0 if there is none
    m_bRunning, m_dwAdvise, m_tCurrentAdvise, m_evDue,
    m_pClock,           \* the time its clock shows, 0 without a clock
    advise,             \* the time the clock is to signal, 0 if none
    app, waiter,        \* where the two threads are, and with which command
    newtime,            \* to which the application postpones it
    held,               \* the application has a reference on the command
    ended,              \* the program has ended
    uncounted,          \* the filter's thread was given its command without a reference
    fate,               \* what was done to a command: "none", "cancelled", "executed", "twice"
    crossed             \* commands queued again between the end of their Invoke's Remove
                        \* and its m_pQueue = NULL

lists  == << m_listPresentation, m_listStream >>
cmds   == << m_time, m_bStream, m_pQueue, m_cRef >>
timing == << m_bRunning, m_pClock, m_dwAdvise, m_tCurrentAdvise, m_evDue, advise >>
calls  == << app, newtime, held >>
marks  == << ended, uncounted, crossed >>
vars   == << lists, cmds, timing, calls, waiter, fate, marks >>

At(place, c) == [at |-> place, cmd |-> c]
Idle == At("idle", None)

Init ==
    /\ m_listPresentation = << >> /\ m_listStream = << >>
    /\ m_time = [c \in Commands |-> 0] /\ m_bStream = [c \in Commands |-> FALSE]
    /\ m_pQueue = [c \in Commands |-> FALSE] /\ m_cRef = [c \in Commands |-> 0]
    /\ m_bRunning = FALSE /\ m_pClock = 0 /\ m_dwAdvise = FALSE
    /\ m_tCurrentAdvise = 0 /\ m_evDue = FALSE /\ advise = 0
    /\ app = Idle /\ waiter = Idle /\ newtime = 0 /\ ended = FALSE
    /\ held = [c \in Commands |-> FALSE] /\ fate = [c \in Commands |-> "none"]
    /\ uncounted = FALSE /\ crossed = {}

-----------------------------------------------------------------------------
(* The lists, and the clock.                                               *)

PresentationTime(c, time) == time[c] + (IF m_bStream[c] THEN Offset ELSE 0)

\* CheckTime: nothing is due without a clock, nor a stream time of a filter that does not run.
CheckTime(t, stream) ==
    m_pClock > 0 /\ (stream => m_bRunning) /\ t + (IF stream THEN Offset ELSE 0) <= m_pClock

Due(c) == CheckTime(m_time[c], m_bStream[c])

Before_Earlier(c, list, time) == 0          \* mutated form: put in front

\* Insert seeks past all the commands that are not later.
Before(c, list, time) == Min({i \in DOMAIN list : time[list[i]] > time[c]} \cup {Len(list) + 1}) - 1

Insert(c, list, time) == InsertAt(list, Before(c, list, time) + 1, c)

\* SetTimeAdvise's earliest time, over the heads of the lists.
Earliest(presentation, stream, time, running) ==
    LET p == IF presentation = << >> THEN 0 ELSE time[Head(presentation)]
    IN  IF running /\ stream # << >>
           /\ (p = 0 \/ time[Head(stream)] + Offset < p)
        THEN time[Head(stream)] + Offset ELSE p

\* SetTimeAdvise.  The event is reset before it is known whether an advise is asked for.
SetTimeAdvise(presentation, stream, time, running, clock, hasAdvise, pending) ==
    LET current == Earliest(presentation, stream, time, running)
    IN  IF clock > 0 /\ current > 0 /\ current # m_tCurrentAdvise
        THEN /\ m_tCurrentAdvise' = current /\ m_dwAdvise' = TRUE
             /\ m_evDue' = (current <= clock)
             /\ advise' = IF current <= clock THEN 0 ELSE current
        ELSE /\ m_dwAdvise' = hasAdvise /\ advise' = pending
             /\ m_evDue' = (m_evDue /\ clock = 0)
             /\ UNCHANGED m_tCurrentAdvise

Advise(presentation, stream, time) ==
    /\ SetTimeAdvise(presentation, stream, time, m_bRunning, m_pClock, m_dwAdvise, advise)
    /\ UNCHANGED << m_bRunning, m_pClock >>

OnList(c) == \E i \in DOMAIN m_listPresentation : m_listPresentation[i] = c
OnStream(c) == \E i \in DOMAIN m_listStream : m_listStream[i] = c
Listed(c) == OnList(c) \/ OnStream(c)

\* Remove: off the list, with the list's reference.
RemoveFromLists(c) ==
    /\ m_listPresentation' = RemoveFirst(m_listPresentation, c)
    /\ m_listStream' = RemoveFirst(m_listStream, c)
    /\ m_cRef[c] > 1 /\ m_cRef' = [m_cRef EXCEPT ![c] = @ - 1]
    /\ Advise(m_listPresentation', m_listStream', m_time)

\* The program ends, with all that it had in memory.
Ends ==
    /\ ended' = TRUE
    /\ m_listPresentation' = << >> /\ m_listStream' = << >>
    /\ m_time' = [d \in Commands |-> 0] /\ m_bStream' = [d \in Commands |-> FALSE]
    /\ m_pQueue' = [d \in Commands |-> FALSE] /\ m_cRef' = [d \in Commands |-> 0]
    /\ m_bRunning' = FALSE /\ m_pClock' = 0 /\ m_dwAdvise' = FALSE
    /\ m_tCurrentAdvise' = 0 /\ m_evDue' = FALSE /\ advise' = 0
    /\ app' = Idle /\ waiter' = Idle /\ newtime' = 0
    /\ held' = [d \in Commands |-> FALSE] /\ fate' = [d \in Commands |-> "none"]
    /\ uncounted' = FALSE /\ crossed' = {}

\* m_pQueue->Remove ends the program when m_pQueue is NULL, and when the reference that it
\* releases is the last, though it is called for the command itself.
Fatal(c) == ~m_pQueue[c] \/ (Listed(c) /\ m_cRef[c] = 1)

-----------------------------------------------------------------------------
(* The application.                                                        *)

\* Commands that are not created yet are alike: it does not matter which one is next.
Fresh(c) == m_time[c] = 0 /\ fate[c] = "none"

New(c, t, stream) ==
    /\ app = Idle /\ Fresh(c) /\ c = CHOOSE d \in Commands : Fresh(d)
    /\ m_time' = [m_time EXCEPT ![c] = t] /\ m_bStream' = [m_bStream EXCEPT ![c] = stream]
    /\ m_pQueue' = [m_pQueue EXCEPT ![c] = TRUE]
    /\ m_cRef' = [m_cRef EXCEPT ![c] = 2] /\ held' = [held EXCEPT ![c] = TRUE]
    /\ IF stream
       THEN /\ m_listStream' = Insert(c, m_listStream, m_time') /\ UNCHANGED m_listPresentation
       ELSE /\ m_listPresentation' = Insert(c, m_listPresentation, m_time') /\ UNCHANGED m_listStream
    /\ Advise(m_listPresentation', m_listStream', m_time')
    /\ UNCHANGED << app, newtime, waiter, fate, marks >>

\* One reference less; with the last one the command is deleted.
Released(c) ==
    /\ m_cRef' = [m_cRef EXCEPT ![c] = @ - 1]
    /\ IF m_cRef[c] = 1
       THEN m_time' = [m_time EXCEPT ![c] = 0] /\ m_bStream' = [m_bStream EXCEPT ![c] = FALSE]
       ELSE UNCHANGED << m_time, m_bStream >>

Release(c) ==
    /\ app = Idle /\ held[c]
    /\ IF m_cRef[c] = 1 /\ waiter.cmd = c
       THEN Ends
       ELSE /\ Released(c) /\ held' = [held EXCEPT ![c] = FALSE]
            /\ UNCHANGED << lists, m_pQueue, timing, app, newtime, waiter, fate, marks >>

Cancel(c) ==
    /\ app = Idle /\ held[c] /\ m_pQueue[c]
    /\ app' = At("cancel", c)
    /\ UNCHANGED << lists, cmds, timing, newtime, waiter, held, fate, marks >>

\* m_pQueue may be NULL by now, if Invoke has come to its end since the test; a compiler that
\* keeps what the test read calls Remove all the same.
CancelRemove ==
    /\ app.at = "cancel"
    /\ \/ Fatal(app.cmd) /\ Ends
       \/ /\ Listed(app.cmd) /\ RemoveFromLists(app.cmd)
          /\ fate' = [fate EXCEPT ![app.cmd] = IF @ = "none" THEN "cancelled" ELSE @]
          /\ app' = At("cancelled", app.cmd)
          /\ UNCHANGED << m_time, m_bStream, m_pQueue, newtime, waiter, held, marks >>
       \/ /\ ~Listed(app.cmd)
          /\ app' = Idle
          /\ UNCHANGED << lists, cmds, timing, newtime, waiter, held, fate, marks >>

CancelDone ==
    /\ app.at = "cancelled"
    /\ m_pQueue' = [m_pQueue EXCEPT ![app.cmd] = FALSE]
    /\ app' = Idle
    /\ UNCHANGED << lists, m_time, m_bStream, m_cRef, timing, newtime, waiter, held, fate, marks >>

\* Postpone asks whether the new time has passed, and nothing else: whether the command is
\* outstanding it finds out by calling through m_pQueue, here and in each of the two steps
\* that follow.
Postpone(c, t) ==
    /\ app = Idle /\ held[c]
    /\ \/ ~m_pQueue[c] /\ Ends
       \/ /\ m_pQueue[c] /\ ~CheckTime(t, m_bStream[c])
          /\ app' = At("postpone", c) /\ newtime' = t
          /\ UNCHANGED << lists, cmds, timing, waiter, held, fate, marks >>

PostponeRemove ==
    /\ app.at = "postpone"
    /\ \/ Fatal(app.cmd) /\ Ends
       \/ /\ Listed(app.cmd) /\ RemoveFromLists(app.cmd)
          /\ m_time' = [m_time EXCEPT ![app.cmd] = newtime]
          /\ app' = At("requeue", app.cmd) /\ newtime' = 0
          /\ UNCHANGED << m_bStream, m_pQueue, waiter, held, fate, marks >>
       \/ /\ ~Listed(app.cmd)
          /\ app' = Idle /\ newtime' = 0
          /\ UNCHANGED << lists, cmds, timing, waiter, held, fate, marks >>

Requeue ==
    /\ app.at = "requeue"
    /\ \/ ~m_pQueue[app.cmd] /\ Ends
       \/ LET c == app.cmd IN
            /\ m_pQueue[c]
            /\ m_cRef' = [m_cRef EXCEPT ![c] = @ + 1]
            /\ IF m_bStream[c]
               THEN /\ m_listStream' = Insert(c, m_listStream, m_time)
                    /\ UNCHANGED m_listPresentation
               ELSE /\ m_listPresentation' = Insert(c, m_listPresentation, m_time)
                    /\ UNCHANGED m_listStream
            /\ Advise(m_listPresentation', m_listStream', m_time)
            /\ crossed' = IF waiter.at = "removed" /\ waiter.cmd = c THEN crossed \cup {c} ELSE crossed
            /\ app' = Idle
            /\ UNCHANGED << m_time, m_bStream, m_pQueue, newtime, waiter, held, fate, ended,
                            uncounted >>

-----------------------------------------------------------------------------
(* The filter's thread.                                                    *)

Gets(c) ==
    /\ m_cRef' = [m_cRef EXCEPT ![c] = @ + 1]
    /\ waiter' = At("got", c)
    /\ UNCHANGED << lists, m_time, m_bStream, m_pQueue, timing, calls, fate, marks >>

\* The thread is given c and will release it, but c has no AddRef.
GetsUncounted(c) ==
    /\ uncounted' = TRUE
    /\ waiter' = At("got", c)
    /\ UNCHANGED << lists, cmds, timing, calls, fate, ended, crossed >>

Candidate_Later ==                  \* mutated form: the comparison is the wrong way round
    IF m_bRunning /\ m_listStream # << >>
       /\ (m_listPresentation = << >>
           \/ PresentationTime(Head(m_listStream), m_time) > m_time[Head(m_listPresentation)])
    THEN {Head(m_listStream)}
    ELSE {m_listPresentation[i] : i \in DOMAIN m_listPresentation \cap {1}}

\* GetDueCommand's choice between the heads of the lists.
Candidate ==
    IF m_bRunning /\ m_listStream # << >>
       /\ (m_listPresentation = << >>
           \/ PresentationTime(Head(m_listStream), m_time) < m_time[Head(m_listPresentation)])
    THEN {Head(m_listStream)}
    ELSE {m_listPresentation[i] : i \in DOMAIN m_listPresentation \cap {1}}

GetDueCommand ==
    /\ waiter.at \in {"idle", "wait"} /\ (waiter.at = "wait" => m_evDue)
    /\ \E c \in Candidate : Due(c) /\ Gets(c)

WaitForDue ==
    /\ waiter.at = "idle" /\ \A c \in Candidate : ~Due(c)
    /\ waiter' = At("wait", None)
    /\ UNCHANGED << lists, cmds, timing, calls, fate, marks >>

\* The timeout: E_ABORT, and the thread asks again.
Timeout ==
    /\ waiter.at = "wait"
    /\ waiter' = Idle
    /\ UNCHANGED << lists, cmds, timing, calls, fate, marks >>

\* GetCommandDueFor, of a sample at stream time t: the last case takes no reference.
GetCommandDueFor(t) ==
    /\ waiter.at = "idle"
    /\ \/ \E i \in DOMAIN m_listPresentation \cap {1} :
            Due(m_listPresentation[i]) /\ Gets(m_listPresentation[i])
       \/ /\ \A i \in DOMAIN m_listPresentation \cap {1} : ~Due(m_listPresentation[i])
          /\ m_listStream # << >> /\ m_time[Head(m_listStream)] <= t
          /\ Gets(Head(m_listStream))
       \/ /\ m_bRunning
          /\ m_listPresentation # << >> /\ ~Due(Head(m_listPresentation))
          /\ (m_listStream # << >> => m_time[Head(m_listStream)] > t)
          /\ m_time[Head(m_listPresentation)] <= t + Offset
          /\ GetsUncounted(Head(m_listPresentation))

\* Invoke.  It is refused when m_pQueue is NULL, or when the object that is to execute it has no
\* type information or not the interface: the command then stays where it is.
Invoke ==
    /\ waiter.at = "got"
    /\ \/ /\ m_pQueue[waiter.cmd]
          /\ fate' = [fate EXCEPT ![waiter.cmd] = IF @ = "executed" THEN "twice" ELSE "executed"]
          /\ waiter' = At("executed", waiter.cmd)
       \/ waiter' = At("refused", waiter.cmd) /\ UNCHANGED fate
    /\ UNCHANGED << lists, cmds, timing, calls, marks >>

InvokeRemove_NotQueued ==           \* mutated form: the command stays outstanding
    /\ waiter.at = "executed" /\ m_pQueue[waiter.cmd]
    /\ waiter' = Idle /\ m_cRef' = [m_cRef EXCEPT ![waiter.cmd] = @ - 1]
    /\ UNCHANGED << lists, m_time, m_bStream, m_pQueue, timing, calls, fate, marks >>

\* Off the list, whether or not it succeeded, through an m_pQueue that a Cancel may have
\* set to NULL since the test.
InvokeRemove ==
    /\ waiter.at = "executed"
    /\ \/ Fatal(waiter.cmd) /\ Ends
       \/ /\ m_pQueue[waiter.cmd]
          /\ IF Listed(waiter.cmd) THEN RemoveFromLists(waiter.cmd)
                                   ELSE UNCHANGED << lists, m_cRef, timing >>
          /\ waiter' = At("removed", waiter.cmd)
          /\ UNCHANGED << m_time, m_bStream, m_pQueue, calls, fate, marks >>

\* Invoke's last assignment, or its refusal; the thread then releases what it got.
InvokeDone ==
    /\ waiter.at \in {"removed", "refused"}
    /\ IF uncounted
       THEN Ends
       ELSE /\ Released(waiter.cmd)
            /\ m_pQueue' = [m_pQueue EXCEPT ![waiter.cmd] = @ /\ waiter.at = "refused"]
            /\ waiter' = Idle
            /\ UNCHANGED << lists, timing, calls, fate, marks >>

-----------------------------------------------------------------------------
(* The filter's state and clock.                                           *)

RunChanges(running) ==
    /\ m_bRunning # running
    /\ m_bRunning' = running
    /\ SetTimeAdvise(m_listPresentation, m_listStream, m_time, running, m_pClock, m_dwAdvise, advise)
    /\ UNCHANGED << lists, cmds, m_pClock, calls, waiter, fate, marks >>

\* Another clock, with a time of its own, or none.  The advise on the old one is taken back,
\* but not m_tCurrentAdvise.
SetSyncSource(clock) ==
    /\ m_pClock' = clock
    /\ LET kept == m_dwAdvise /\ m_pClock = 0 IN
         SetTimeAdvise(m_listPresentation, m_listStream, m_time, m_bRunning, clock, kept,
                       IF m_pClock > 0 THEN 0 ELSE advise)
    /\ UNCHANGED << lists, cmds, m_bRunning, calls, waiter, fate, marks >>

Tick ==
    /\ m_pClock \in 1..(MaxTime - 1)
    /\ m_pClock' = m_pClock + 1
    /\ m_evDue' = (m_evDue \/ advise = m_pClock')
    /\ advise' = IF advise = m_pClock' THEN 0 ELSE advise
    /\ UNCHANGED << lists, cmds, m_bRunning, m_dwAdvise, m_tCurrentAdvise, calls, waiter,
                    fate, marks >>

-----------------------------------------------------------------------------
WaiterStep ==
    /\ ~ended
    /\ GetDueCommand \/ WaitForDue \/ Timeout \/ Invoke \/ InvokeRemove \/ InvokeDone

AppStep ==
    \/ \E c \in Commands :
         \/ \E stream \in BOOLEAN : \E t \in Times(stream) : New(c, t, stream)
         \/ Release(c) \/ Cancel(c) \/ \E t \in Times(m_bStream[c]) : Postpone(c, t)
    \/ CancelRemove \/ CancelDone \/ PostponeRemove \/ Requeue

FilterStep ==
    \/ \E t \in Times(TRUE) : GetCommandDueFor(t)
    \/ \E running \in BOOLEAN : RunChanges(running)
    \/ \E clock \in 0..MaxTime : SetSyncSource(clock)
    \/ Tick

Next == WaiterStep \/ (~ended /\ (AppStep \/ FilterStep))

Spec == Init /\ [][Next]_vars /\ WF_vars(WaiterStep)

-----------------------------------------------------------------------------
(* Properties.                                                             *)

Outstanding == {c \in Commands : Listed(c)}

TypeOK ==
    /\ \A list \in {m_listPresentation, m_listStream} : \A i \in DOMAIN list : list[i] \in Commands
    /\ m_time \in [Commands -> 0..MaxTime] /\ m_bStream \in [Commands -> BOOLEAN]
    /\ m_pQueue \in [Commands -> BOOLEAN] /\ m_cRef \in [Commands -> 0..3]
    /\ {m_bRunning, m_dwAdvise, m_evDue} \subseteq BOOLEAN
    /\ {advise, m_tCurrentAdvise, m_pClock} \subseteq 0..MaxTime
    /\ app.at \in {"idle", "cancel", "cancelled", "postpone", "requeue"} /\ newtime \in 0..MaxTime
    /\ waiter.at \in {"idle", "wait", "got", "executed", "removed", "refused"}
    /\ held \in [Commands -> BOOLEAN] /\ {ended, uncounted} \subseteq BOOLEAN
    /\ fate \in [Commands -> {"none", "cancelled", "executed", "twice"}]
    /\ crossed \subseteq Commands

\* A command is once on the list of its kind, in the order of their times, and has a
\* reference for the list, for the application and for the thread that got it, less those
\* the thread was given without one.  Only an executed or cancelled command is disowned,
\* and while it is, it is on no list, unless Postpone has queued it again just before
\* Invoke disowned it: so the program never ends over a command that nothing has been
\* done to yet.
CommandsSound ==
    /\ \A list \in {m_listPresentation, m_listStream} :
         \A i, j \in DOMAIN list : i < j => m_time[list[i]] <= m_time[list[j]] /\ list[i] # list[j]
    /\ \A c \in Commands :
         /\ OnList(c) => ~m_bStream[c]
         /\ OnStream(c) => m_bStream[c]
         /\ Listed(c) => m_pQueue[c] \/ c \in crossed
         /\ m_time[c] # 0 /\ ~m_pQueue[c] => fate[c] # "none"
         /\ m_cRef[c] = (IF held[c] THEN 1 ELSE 0) + (IF Listed(c) THEN 1 ELSE 0)
                        + (IF waiter.cmd = c /\ ~uncounted THEN 1 ELSE 0)

\* A command is executed at most once, and never after a Cancel that came before the thread
\* got it; and the thread gets the earliest of all that are due.
TakesInOrder ==
    /\ \A c \in Commands :
         /\ fate'[c] # "twice"
         /\ fate[c] = "cancelled" /\ waiter.cmd # c => waiter'.cmd # c
    /\ waiter'.at = "got" /\ waiter.at = "wait" =>
         \A d \in Outstanding :
           Due(d) => PresentationTime(waiter'.cmd, m_time) <= PresentationTime(d, m_time)

OnceAndInOrder == [][TakesInOrder]_vars

\* As the thread waits with a timeout, a due command is executed and leaves its list, or is
\* cancelled, postponed or no longer due, even where the event is not set for it; unless the
\* program ends, or Invoke refuses a command, which then stays at the head of the list and
\* is what the thread gets again.
Waits(c) == Listed(c) /\ Due(c)

Refused == waiter.at = "refused" /\ Listed(waiter.cmd)

Served(c) == ~Waits(c) \/ Refused \/ ended

DueIsExecuted == \A c \in Commands : Waits(c) ~> Served(c)

\* As ctlutil.h says of GetDueHandle, the event is signalled whenever there are commands due.
SignalledWhenDue == (\E c \in Commands : Listed(c) /\ Due(c)) => m_evDue

\* As ctlutil.h says of GetCommandDueFor, what it returns has an AddRef.
HandedOutCounted == ~uncounted

\* As ctlutil.cpp says of Invoke, a command is off the list whether or not it succeeded.
RefusedIsRemoved == waiter.at = "refused" => ~Listed(waiter.cmd)
==============================================================================
