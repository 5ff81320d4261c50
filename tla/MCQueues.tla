------------------------------ MODULE MCQueues ------------------------------
(***************************************************************************)
(* The two queues of the base classes that a thread of their own empties:  *)
(* COutputQueue of samples, and CCmdQueue of deferred commands.  They share*)
(* nothing, so one run checks them one at a time: inUse says which one     *)
(* works, and the other stays in its initial state.                        *)
(***************************************************************************)
EXTENDS Integers, FiniteSets, Sequences

CONSTANTS MaxItems, MaxMultiple, MaxFlushes               \* of OutputQueue
CONSTANTS Commands, None, LastTime, Offset          \* of CmdQueue

VARIABLES
    cfg, m_List, m_ppSamples, m_hr, m_bFlushing, m_bFlushed, m_lWaiting, m_hSem,
    m_evFlushComplete, locked, wpc, sending, pSample, upc, cpc, m_bTerminate,
    items, calls, live, sent, flushes

VARIABLES
    m_listPresentation, m_listStream, m_time, m_bStream, m_pQueue, m_cRef, m_bRunning,
    m_pClock, m_dwAdvise, m_tCurrentAdvise, m_evDue, advise, app, waiter, newtime, held,
    ended, fate, uncounted, crossed

VARIABLE inUse

Samples  == INSTANCE OutputQueue WITH delivered <- sent
Deferred == INSTANCE CmdQueue WITH MaxTime <- LastTime

ASSUME QueuesAssumption == Samples!QueueAssumption /\ Deferred!CmdQueueAssumption

samplesVars ==
    << cfg, m_List, m_ppSamples, m_hr, m_bFlushing, m_bFlushed, m_lWaiting, m_hSem,
       m_evFlushComplete, locked, wpc, sending, pSample, upc, cpc, m_bTerminate,
       items, calls, live, sent, flushes >>

commandVars ==
    << m_listPresentation, m_listStream, m_time, m_bStream, m_pQueue, m_cRef, m_bRunning,
       m_pClock, m_dwAdvise, m_tCurrentAdvise, m_evDue, advise, app, waiter, newtime, held,
       ended, fate, uncounted, crossed >>

queueVars == << inUse, samplesVars, commandVars >>

QueuesInit ==
    /\ inUse \in {"samples", "commands"}
    /\ Samples!Init /\ Deferred!Init
    /\ inUse = "commands" => cfg = CHOOSE c \in Samples!Configurations : TRUE

QueuesNext ==
    \/ inUse = "samples" /\ Samples!Next /\ UNCHANGED << inUse, commandVars >>
    \/ inUse = "commands" /\ Deferred!Next /\ UNCHANGED << inUse, samplesVars >>

QueuesSpec ==
    /\ QueuesInit /\ [][QueuesNext]_queueVars
    /\ WF_samplesVars(inUse = "samples" /\ Samples!Worker)
    /\ WF_samplesVars(inUse = "samples" /\ Samples!QueueSegment)
    /\ WF_samplesVars(inUse = "samples" /\ Samples!Returns)
    /\ WF_commandVars(inUse = "commands" /\ Deferred!WaiterStep)

------------------------------------------------------------------------------
\* Every sample handed to the output queue is released once and the worker
\* sleeps only while there is nothing to do (OutputQueue); the two lists of
\* commands are in the order of their times and hold one reference for each
\* command in them (CmdQueue).
QueuesSound ==
    /\ inUse = "samples" => Samples!QueueSound
    /\ inUse = "commands" => Deferred!CommandsSound

\* What leaves a queue leaves it once and in order: no sample after a later
\* one, none from before a flush; no command twice, after it was cancelled, or
\* before an earlier one that is due.
InOrder == [][Samples!DeliversInOrder /\ Deferred!TakesInOrder]_queueVars

\* Whoever calls the output queue for a flush, the end of the stream or its
\* destruction gets an answer, and a command that is due is executed.
InCall(c) == (inUse = "samples" /\ Samples!InControl) \/ (inUse = "commands" /\ Deferred!Waits(c))
Done(c)   == (inUse = "samples" /\ ~Samples!InControl) \/ (inUse = "commands" /\ Deferred!Served(c))

QueuesMove == \A c \in Commands : InCall(c) ~> Done(c)
==============================================================================
