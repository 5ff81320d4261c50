---------------------------- MODULE OutputQueue ----------------------------
(***************************************************************************)
(* COutputQueue (outputq.cpp): an output pin's queue of samples to the pin *)
(* it is connected to.  Three threads meet in it: Up, the streaming thread *)
(* of the filter, which queues samples, ends of stream and new segments;   *)
(* Worker, the queue's own thread, which sends them downstream in batches; *)
(* and Ctl, which flushes, resets and destroys the queue.  Without a       *)
(* worker ("direct") Up calls downstream itself.                           *)
(*                                                                         *)
(* A critical section of the object's lock is one action, except the inner *)
(* loop of the worker, whose iterations are actions under `locked'.        *)
(***************************************************************************)
EXTENDS Integers, FiniteSets, SequencesExt

CONSTANTS
    MaxItems,      \* things queued in a behaviour
    MaxMultiple,   \* samples in one ReceiveMultiple
    MaxFlushes     \* calls of BeginFlush and of Reset

QueueAssumption == MaxItems \in Nat /\ MaxMultiple \in Nat /\ MaxFlushes \in Nat

VARIABLES
    cfg,                \* the arguments of the constructor, and what the caller uses
    m_List, m_ppSamples,            \* queued, and in the batch (m_nBatched of them)
    m_hr, m_bFlushing, m_bFlushed,
    m_lWaiting, m_hSem, m_evFlushComplete, locked,
    wpc, sending, pSample,          \* the worker's place, lNumberToSend, pSample
    upc, cpc, m_bTerminate,
    items, calls,       \* how many items, and Ctl's calls, so far
    live,               \* the samples handed to the queue and not released
    delivered,          \* the last thing sent downstream
    flushes             \* how many EndFlush calls have passed

worker == <<wpc, sending, pSample>>
ctl    == <<cpc, calls, m_bTerminate, flushes>>
flush  == <<m_bFlushing, m_bFlushed>>
wake   == <<m_lWaiting, m_hSem>>
queue  == <<m_List, m_ppSamples>>
vars   == <<cfg, queue, m_hr, flush, wake, m_evFlushComplete, locked, worker,
            upc, ctl, items, live, delivered>>

Ok == "S_OK"
Bad == "S_FALSE"     \* and every failure: the sticky result of downstream

Item(kind, i) == [kind |-> kind, n |-> i, flushes |-> flushes]
NoItem == [kind |-> "none", n |-> 0, flushes |-> 0]
Numbers(s) == {s[i].n : i \in {j \in DOMAIN s : s[j].kind = "sample"}}

\* A filter that uses Reset is quiet from BeginFlush to EndFlush and does
\* not ask for the flushing optimisation; a direct queue that is not exact has
\* batches of one (README, "Not modelled").
Configurations ==
    {c \in [queued : BOOLEAN, exact : BOOLEAN, batch : 1..2, opt : BOOLEAN, resets : BOOLEAN] :
        /\ c.exact => c.batch > 1
        /\ ~c.queued => (c.exact \/ c.batch = 1) /\ ~c.opt
        /\ c.resets => ~c.opt}

Init ==
    /\ cfg \in Configurations
    /\ m_List = <<>> /\ m_ppSamples = <<>> /\ m_hr = Ok
    /\ m_bFlushing = FALSE /\ m_bFlushed = TRUE
    /\ m_lWaiting = 0 /\ m_hSem = 0 /\ m_evFlushComplete = FALSE /\ locked = FALSE
    /\ wpc = (IF cfg.queued THEN "top" ELSE "gone") /\ sending = <<>> /\ pSample = NoItem
    /\ upc = "idle" /\ cpc = "idle" /\ m_bTerminate = FALSE
    /\ items = 0 /\ calls = 0 /\ flushes = 0
    /\ live = {} /\ delivered = <<>>

-----------------------------------------------------------------------------
(* The worker. *)

QueueSamples(s) == m_List' = m_List \o s

NotifyThread_Cleared ==       \* mutated form: m_lWaiting is cleared before it is used
    m_hSem' = m_hSem /\ m_lWaiting' = 0

NotifyThread ==
    m_hSem' = m_hSem + m_lWaiting /\ m_lWaiting' = 0

FreeSamples ==
    /\ live' = live \ (Numbers(m_List) \cup Numbers(m_ppSamples))
    /\ m_List' = <<>> /\ m_ppSamples' = <<>>

Terminated ==
    /\ wpc = "top" /\ m_bTerminate
    /\ FreeSamples /\ wpc' = "gone" /\ locked' = FALSE
    /\ UNCHANGED <<cfg, m_hr, flush, wake, m_evFlushComplete, sending, pSample, upc, ctl,
                   items, delivered>>

\* Everything is discarded and the list is empty: the thread waits.
Flushed ==
    /\ wpc = "top" /\ ~m_bTerminate /\ m_bFlushing
    /\ FreeSamples /\ m_evFlushComplete' = TRUE
    /\ wpc' = "wait" /\ m_lWaiting' = m_lWaiting + 1 /\ locked' = FALSE
    /\ UNCHANGED <<cfg, m_hr, flush, m_hSem, sending, pSample, upc, ctl, items, delivered>>

Leave(special, list) ==
    /\ m_List' = list /\ pSample' = special
    /\ sending' = m_ppSamples /\ m_ppSamples' = <<>>
    /\ wpc' = "send" /\ locked' = FALSE

NextBatch ==
    LET p == Head(m_List)
        rest == Tail(m_List) IN
    \/ /\ m_List # <<>> /\ p.kind = "sample"
       /\ m_List' = rest
       /\ LET b == Append(m_ppSamples, p) IN
          IF Len(b) = cfg.batch
          THEN sending' = b /\ m_ppSamples' = <<>> /\ pSample' = p /\ wpc' = "send" /\ locked' = FALSE
          ELSE m_ppSamples' = b /\ locked' = TRUE /\ UNCHANGED <<sending, pSample, wpc>>
    \/ /\ m_List # <<>> /\ p.kind = "send" /\ m_ppSamples = <<>>
       /\ m_List' = rest /\ locked' = TRUE /\ UNCHANGED <<m_ppSamples, worker>>
    \/ /\ m_List # <<>> /\ (p.kind \in {"eos", "reset"} \/ (p.kind = "send" /\ m_ppSamples # <<>>))
       /\ Leave(p, rest)
    \/ /\ m_List # <<>> /\ p.kind = "segment"
       /\ Leave(p, Tail(rest))        \* the packet with the parameters
    \/ /\ m_List = <<>> /\ ~cfg.exact /\ m_ppSamples # <<>>
       /\ Leave(NoItem, <<>>)

Collect ==
    /\ wpc = "top" /\ ~m_bTerminate /\ ~m_bFlushing
    /\ \/ NextBatch /\ UNCHANGED m_lWaiting
       \/ /\ m_List = <<>> /\ (cfg.exact \/ m_ppSamples = <<>>)
          /\ m_lWaiting' = m_lWaiting + 1 /\ wpc' = "wait" /\ locked' = FALSE
          /\ UNCHANGED <<queue, sending, pSample>>
    /\ UNCHANGED <<cfg, m_hr, flush, m_hSem, m_evFlushComplete, upc, ctl, items, live, delivered>>

Wake ==
    /\ wpc = "wait" /\ m_hSem > 0
    /\ m_hSem' = m_hSem - 1 /\ wpc' = "top"
    /\ UNCHANGED <<cfg, queue, m_hr, flush, m_lWaiting, m_evFlushComplete, locked, sending, pSample,
                   upc, ctl, items, live, delivered>>

\* m_hr is looked at without the lock.
Send ==
    /\ wpc = "send"
    /\ IF sending # <<>> /\ m_hr = Ok
       THEN wpc' = "receiving" /\ delivered' = sending /\ UNCHANGED <<sending, live>>
       ELSE /\ wpc' = "special" /\ sending' = <<>> /\ live' = live \ Numbers(sending)
            /\ UNCHANGED delivered
    /\ UNCHANGED <<cfg, queue, m_hr, flush, wake, m_evFlushComplete, locked, pSample, upc, ctl, items>>

\* ReceiveMultiple returns; a flushing result is not overwritten.
StickyResult(hr) == IF m_hr = Ok THEN hr ELSE m_hr

Received ==
    /\ wpc = "receiving" /\ ~locked
    /\ \E hr \in {Ok, Bad} : m_hr' = StickyResult(hr)
    /\ wpc' = "special" /\ sending' = <<>> /\ live' = live \ Numbers(sending)
    /\ UNCHANGED <<cfg, queue, flush, wake, m_evFlushComplete, locked, pSample, upc, ctl, items, delivered>>

Special ==
    /\ wpc = "special"
    /\ pSample' = NoItem
    /\ \/ pSample.kind \notin {"eos", "reset", "segment"} /\ wpc' = "top" /\ UNCHANGED <<m_hr, delivered>>
       \/ /\ pSample.kind = "eos" /\ wpc' = "top" /\ UNCHANGED m_hr
          /\ delivered' = IF m_hr = Ok THEN <<pSample>> ELSE delivered
       \/ pSample.kind = "segment" /\ wpc' = "top" /\ delivered' = <<pSample>> /\ UNCHANGED m_hr
       \/ pSample.kind = "reset" /\ wpc' = "resetdone" /\ m_hr' = Ok /\ UNCHANGED delivered
    /\ UNCHANGED <<cfg, queue, flush, wake, m_evFlushComplete, locked, sending, upc, ctl, items, live>>

ResetDone ==
    /\ wpc = "resetdone" /\ wpc' = "top" /\ m_evFlushComplete' = TRUE
    /\ UNCHANGED <<cfg, queue, m_hr, flush, wake, locked, sending, pSample, upc, ctl, items, live, delivered>>

Worker == Terminated \/ Flushed \/ Collect \/ Wake \/ Send \/ Received \/ Special \/ ResetDone

-----------------------------------------------------------------------------
(* The streaming thread.  Its filter promises that nothing arrives while   *)
(* EndFlush runs, and nothing at all from the destructor on.               *)

MayCall ==
    /\ upc = "idle" /\ cpc \in {"idle", "flushed", "resetwait"}
    /\ cpc = "flushed" => ~cfg.resets

\* The samples of one call, the first numbered from + 1.
Samples(from, k) == [i \in 1..k |-> Item("sample", from + i)]

Notified_CountBatchOnly(list) == ~cfg.exact \/ Len(m_ppSamples) >= cfg.batch   \* mutated form: the list is not counted

Notified(list) == ~cfg.exact \/ Len(m_ppSamples) + Len(list) >= cfg.batch

ReceiveMultiple ==
    /\ cfg.queued /\ MayCall /\ ~locked
    /\ \E k \in 1..MaxMultiple :
          /\ items + k <= MaxItems /\ items' = items + k
          /\ IF m_hr # Ok
             THEN UNCHANGED <<m_List, m_bFlushed, wake, live>>       \* released at once
             ELSE /\ m_bFlushed' = FALSE
                  /\ QueueSamples(Samples(items, k))
                  /\ live' = live \cup (items + 1)..(items + k)
                  /\ IF Notified(m_List') THEN NotifyThread ELSE UNCHANGED wake
    /\ UNCHANGED <<cfg, m_ppSamples, m_hr, m_bFlushing, m_evFlushComplete, locked, worker, upc, ctl, delivered>>

EOS ==
    /\ cfg.queued /\ MayCall /\ ~locked /\ m_hr = Ok
    /\ items < MaxItems /\ items' = items + 1
    /\ m_bFlushed' = FALSE /\ QueueSamples(<<Item("eos", items + 1)>>) /\ NotifyThread
    /\ UNCHANGED <<cfg, m_ppSamples, m_hr, m_bFlushing, m_evFlushComplete, locked, worker, upc, ctl,
                   live, delivered>>

SendAnyway ==
    /\ cfg.queued /\ MayCall /\ ~locked
    /\ items < MaxItems /\ items' = items + 1
    /\ QueueSamples(<<Item("send", items + 1)>>) /\ NotifyThread
    /\ UNCHANGED <<cfg, m_ppSamples, m_hr, flush, m_evFlushComplete, locked, worker, upc, ctl, live, delivered>>

\* m_hr is looked at before the lock is taken.
NewSegment ==
    /\ MayCall /\ m_hr = Ok /\ items < MaxItems
    /\ upc' = "segment"
    /\ UNCHANGED <<cfg, queue, m_hr, flush, wake, m_evFlushComplete, locked, worker, ctl, items, live, delivered>>

QueueSegment ==
    /\ cfg.queued /\ upc = "segment" /\ ~locked
    /\ items' = items + 1 /\ upc' = "idle"
    /\ QueueSamples(<<Item("segment", items + 1), Item("packet", items + 1)>>) /\ NotifyThread
    /\ UNCHANGED <<cfg, m_ppSamples, m_hr, flush, m_evFlushComplete, locked, worker, ctl, live, delivered>>

-----------------------------------------------------------------------------
(* Without a worker: the batch goes downstream under the lock. *)

\* What ReceiveMultiple does with the batch b: sent when m_hr is S_OK.
DirectReceive ==
    /\ ~cfg.queued /\ MayCall /\ items < MaxItems /\ items' = items + 1
    /\ LET b == m_ppSamples \o Samples(items, 1) IN
       \/ /\ m_hr # Ok
          /\ UNCHANGED <<m_ppSamples, m_bFlushed, m_hr, live, delivered>>
       \/ /\ m_hr = Ok /\ Len(b) < cfg.batch
          /\ m_bFlushed' = FALSE /\ m_ppSamples' = b /\ live' = live \cup {items + 1}
          /\ UNCHANGED <<m_hr, delivered>>
       \/ /\ m_hr = Ok /\ Len(b) = cfg.batch
          /\ m_bFlushed' = FALSE /\ m_ppSamples' = <<>> /\ live' = live \ Numbers(b)
          /\ delivered' = b /\ m_hr' \in {Ok, Bad}
    /\ UNCHANGED <<cfg, m_List, m_bFlushing, wake, m_evFlushComplete, locked, worker, upc, ctl>>

\* SendAnyway, EOS and the second half of NewSegment: an exact batch goes first.
\* Then the end of stream, if m_hr is still S_OK, or the segment.
DirectSpecial ==
    /\ ~cfg.queued /\ items < MaxItems /\ items' = items + 1
    /\ upc' = "idle"
    /\ LET b == IF m_hr = Ok /\ cfg.exact THEN m_ppSamples ELSE <<>> IN
       \E hr \in IF b = <<>> THEN {m_hr} ELSE {Ok, Bad}, kind \in {"send", "eos", "segment"} :
          LET last == IF kind = "segment" \/ (kind = "eos" /\ hr = Ok)
                      THEN <<Item(kind, items + 1)>> ELSE <<>> IN
          /\ IF kind = "segment" THEN upc = "segment" ELSE MayCall
          /\ m_hr' = hr /\ live' = live \ Numbers(b)
          /\ m_ppSamples' = IF b = <<>> THEN m_ppSamples ELSE <<>>
          /\ m_bFlushed' = (m_bFlushed /\ ~(m_hr = Ok /\ (cfg.exact \/ kind = "eos")))
          /\ delivered' = IF b \o last = <<>> THEN delivered ELSE b \o last
    /\ UNCHANGED <<cfg, m_List, m_bFlushing, wake, m_evFlushComplete, locked, worker, ctl>>

Up ==
    \/ ReceiveMultiple \/ EOS \/ SendAnyway \/ NewSegment \/ QueueSegment
    \/ DirectReceive \/ DirectSpecial

-----------------------------------------------------------------------------
(* Control: flushing, Reset and the destructor. *)

BeginFlush ==
    /\ cpc = "idle" /\ ~locked /\ calls < MaxFlushes /\ calls' = calls + 1
    /\ cfg.resets => upc = "idle"
    /\ m_bFlushing' = TRUE /\ m_hr' = Bad
    /\ IF cfg.queued /\ ~(m_bFlushed /\ cfg.opt)
       THEN m_evFlushComplete' = FALSE /\ NotifyThread
       ELSE UNCHANGED <<m_evFlushComplete, wake>>
    /\ cpc' = "flushed"
    /\ UNCHANGED <<cfg, queue, m_bFlushed, locked, worker, upc, m_bTerminate, flushes, items,
                   live, delivered>>

EndFlush ==
    /\ cpc = "flushed" /\ upc = "idle" /\ ~locked
    /\ IF cfg.opt /\ m_bFlushed /\ cfg.queued
       THEN m_bFlushing' = FALSE /\ m_hr' = Ok /\ cpc' = "idle" /\ flushes' = flushes + 1
       ELSE cpc' = "endwait" /\ UNCHANGED <<m_bFlushing, m_hr, flushes>>
    /\ UNCHANGED <<cfg, queue, m_bFlushed, wake, m_evFlushComplete, locked, worker, upc, calls,
                   m_bTerminate, items, live, delivered>>

EndFlushWait_NoWait == TRUE     \* mutated form: EndFlush does not wait for the worker

EndFlushWait == cfg.queued => m_evFlushComplete

Synchronised ==
    /\ cpc = "endwait" /\ EndFlushWait
    /\ m_evFlushComplete' = FALSE /\ cpc' = "endclear"
    /\ IF cfg.queued THEN UNCHANGED <<queue, live>> ELSE FreeSamples
    /\ UNCHANGED <<cfg, m_hr, flush, wake, locked, worker, upc, calls, m_bTerminate, flushes, items,
                   delivered>>

\* Be daring: no lock.
EndClear ==
    /\ cpc = "endclear" /\ cpc' = "endpass"
    /\ m_bFlushing' = FALSE /\ m_bFlushed' = TRUE
    /\ UNCHANGED <<cfg, queue, m_hr, wake, m_evFlushComplete, locked, worker, upc, calls, m_bTerminate,
                   flushes, items, live, delivered>>

EndPass ==
    /\ cpc = "endpass" /\ cpc' = "endhr" /\ flushes' = flushes + 1
    /\ UNCHANGED <<cfg, queue, m_hr, flush, wake, m_evFlushComplete, locked, worker, upc, calls,
                   m_bTerminate, items, live, delivered>>

EndHr ==
    /\ cpc = "endhr" /\ cpc' = "idle" /\ m_hr' = Ok
    /\ UNCHANGED <<cfg, queue, flush, wake, m_evFlushComplete, locked, worker, upc, calls, m_bTerminate,
                   flushes, items, live, delivered>>

Reset ==
    /\ cfg.resets /\ cpc = "idle" /\ ~locked /\ calls < MaxFlushes /\ calls' = calls + 1
    /\ IF cfg.queued
       THEN /\ QueueSamples(<<Item("reset", 0)>>) /\ NotifyThread
            /\ cpc' = "resetwait" /\ UNCHANGED m_hr
       ELSE m_hr' = Ok /\ UNCHANGED <<m_List, wake, cpc>>
    /\ UNCHANGED <<cfg, m_ppSamples, flush, m_evFlushComplete, locked, worker, upc, m_bTerminate, flushes,
                   items, live, delivered>>

ResetReturns ==
    /\ cpc = "resetwait" /\ m_evFlushComplete
    /\ m_evFlushComplete' = FALSE /\ cpc' = "idle"
    /\ UNCHANGED <<cfg, queue, m_hr, flush, wake, locked, worker, upc, calls, m_bTerminate, flushes, items,
                   live, delivered>>

Destroy ==
    /\ cpc \in {"idle", "flushed"} /\ upc = "idle" /\ ~locked
    /\ cpc' = "joining" /\ m_bTerminate' = TRUE
    /\ IF cfg.queued THEN m_hr' = Bad /\ NotifyThread /\ UNCHANGED <<queue, live>>
                     ELSE FreeSamples /\ UNCHANGED <<m_hr, wake>>
    /\ UNCHANGED <<cfg, flush, m_evFlushComplete, locked, worker, upc, calls, flushes, items, delivered>>

Joined ==
    /\ cpc = "joining" /\ wpc = "gone" /\ cpc' = "gone"
    /\ UNCHANGED <<cfg, queue, m_hr, flush, wake, m_evFlushComplete, locked, worker, upc, calls,
                   m_bTerminate, flushes, items, live, delivered>>

Returns == Synchronised \/ EndClear \/ EndPass \/ EndHr \/ ResetReturns \/ Joined

Ctl == BeginFlush \/ EndFlush \/ Reset \/ Destroy \/ Returns

-----------------------------------------------------------------------------
Next == Worker \/ Up \/ Ctl

\* The threads run, downstream returns from its calls; nobody has to call.
Fairness == WF_vars(Worker) /\ WF_vars(QueueSegment) /\ WF_vars(Returns)

Spec == Init /\ [][Next]_vars /\ Fairness

-----------------------------------------------------------------------------
\* Every sample that was handed over and not yet released is in exactly one of
\* the list, the batch and the worker's hands; after the destructor none is.
SamplesAccounted ==
    LET everywhere == m_List \o m_ppSamples \o sending IN
    /\ \A i, j \in DOMAIN everywhere :
          everywhere[i].kind = "sample" /\ everywhere[j].kind = "sample"
          /\ everywhere[i].n = everywhere[j].n => i = j
    /\ Numbers(everywhere) = live
    /\ cpc = "gone" => live = {}

\* A worker that waits without a wake-up on the way has nothing to do: no
\* control item, no full batch (nothing at all, unless batches are exact), and
\* no flush or termination that it has not seen.
WaitsForAReason ==
    /\ m_lWaiting + m_hSem = IF wpc = "wait" THEN 1 ELSE 0
    /\ (wpc = "wait" /\ m_hSem = 0) =>
          /\ ~m_bTerminate
          /\ \A i \in DOMAIN m_List : m_List[i].kind = "sample"
          /\ Len(m_ppSamples) + Len(m_List) < IF cfg.exact THEN cfg.batch ELSE 1
          /\ cpc = "endwait" => m_evFlushComplete

\* m_bFlushed is only set when downstream is not being given anything: the
\* assertions on both sides of the worker's ReceiveMultiple.
FlushedIsQuiet == wpc = "receiving" => ~m_bFlushed

QueueSound == SamplesAccounted /\ WaitsForAReason /\ FlushedIsQuiet

\* As outputq.cpp says and asserts in IsIdle, there is nothing on the work queue
\* when it answers TRUE.  Less than an exact batch is queued without waking the
\* worker, and IsIdle looks at the batch only.
IsIdle == (cfg.queued => m_lWaiting > 0) /\ m_ppSamples = <<>>

IdleIsEmpty == ~locked /\ IsIdle /\ cfg.queued => m_List = <<>>

\* What goes downstream goes in the order in which it was queued, and nothing
\* that was queued before a flush is sent after its EndFlush, except a new
\* segment: NewSegment looks at m_hr before it takes the lock, so that it may
\* queue one when the worker has already discarded everything.
DeliversInOrder ==
    delivered' # delivered =>
        /\ \A i \in 1..(Len(delivered') - 1) : delivered'[i].n < delivered'[i + 1].n
        /\ delivered # <<>> => Last(delivered).n < Head(delivered').n
        /\ \A i \in DOMAIN delivered' :
              delivered'[i].flushes = flushes \/ delivered'[i].kind = "segment"

OrderedAndFresh == [][DeliversInOrder]_vars

\* EndFlush, Reset and the destructor return: the worker is always woken up for
\* them and sets the event they wait for.
InControl == cpc \notin {"idle", "flushed", "gone"}

ControlReturns == InControl ~> ~InControl

=============================================================================
