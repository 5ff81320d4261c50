------------------------------- MODULE PullPin -------------------------------
(***************************************************************************)
(* CPullPin (baseclasses pullpin.h, pullpin.cpp): a pin that pulls a file  *)
(* through IAsyncReader.  A worker thread requests the samples from the    *)
(* start to the stop position, two at a time where the allocator has two,  *)
(* and passes them to Receive; the application starts, seeks, stops and    *)
(* disconnects it with commands, flushing the reader so that the worker is *)
(* not stuck in WaitForNext.  The reader, the downstream filter and the    *)
(* owner's callbacks are external.  Positions are in bytes.  Every method  *)
(* of the application holds m_AccessLock from end to end: one client.      *)
(***************************************************************************)
EXTENDS Integers, FiniteSets, Sequences

CONSTANTS
    Buffers,        \* the samples of the allocator
    BufferSize,
    Align,          \* the reader's alignment
    FileLength,     \* what IAsyncReader::Length says
    Starts, Stops   \* the positions asked of Seek

PullPinAssumption ==
    /\ IsFiniteSet(Buffers) /\ Buffers # {}
    /\ Align \in Nat \ {0}
    /\ BufferSize \in Nat \ {0} /\ BufferSize % Align = 0
    /\ FileLength \in Nat
    /\ Starts \subseteq Nat /\ Stops \subseteq Nat

VARIABLES
    connected,      \* m_pReader and m_pAlloc are set
    m_bSync, m_tStart, m_tStop,
    m_State,        \* the last command: "Start", "Pause" or "Exit"
    thread,         \* the worker's handle is set
    request,        \* the command that is posted, or "none"
    replied,        \* the completion event
    flushing,       \* the reader is between BeginFlush and EndFlush
    place,          \* of each sample: "free", "worker", "pending" or "done" at the
                    \* reader, "failed" there, or "down"stream
    range,          \* of each sample: its first position and the one after its last
    method, client, \* what the application is in, and where
    worker,         \* where the worker is
    job,            \* the worker's tStart, tStop, tAlignStop and tCurrent
    delivered,      \* the ranges passed to Receive since the last start
    ended           \* EndOfStream was called since the last start

ctlVars  == << connected, m_bSync, m_tStart, m_tStop, m_State >>
cmdVars  == << thread, request, replied >>
cliVars  == << method, client >>
outVars  == << delivered, ended >>
bufVars  == << place, range >>
vars == << ctlVars, cmdVars, flushing, bufVars, cliVars, worker, job, outVars >>

Least(a, b)  == IF a < b THEN a ELSE b
AlignDown(l) == l - (l % Align)
AlignUp(l)   == AlignDown(l + Align - 1)

NoJob == [tStart |-> 0, tStop |-> 0, tAlignStop |-> 0, tCurrent |-> 0]

Init ==
    /\ connected = FALSE /\ m_bSync = FALSE
    /\ m_tStart = 0 /\ m_tStop = 0 /\ m_State = "Exit"
    /\ thread = FALSE /\ request = "none" /\ replied = FALSE
    /\ flushing = FALSE
    /\ place = [b \in Buffers |-> "free"]
    /\ range = [b \in Buffers |-> << 0, 0 >>]
    /\ method = "none" /\ client = "idle"
    /\ worker = "none" /\ job = NoJob
    /\ delivered = << >> /\ ended = FALSE

-----------------------------------------------------------------------------
(* The reader and the downstream filter, external.                         *)

\* BeginFlush cancels what is pending: it waits, failed, to be collected.
BeginFlush ==
    /\ flushing' = TRUE
    /\ place' = [b \in Buffers |-> IF place[b] = "pending" THEN "failed" ELSE place[b]]

EndFlush == flushing' = FALSE

\* The requests complete in any order.
Complete ==
    \E b \in Buffers, how \in {"done", "failed"} :
        /\ place[b] = "pending"
        /\ place' = [place EXCEPT ![b] = how]
        /\ UNCHANGED << ctlVars, cmdVars, flushing, range, cliVars, worker, job, outVars >>

DownstreamRelease ==
    \E b \in Buffers :
        /\ place[b] = "down"
        /\ place' = [place EXCEPT ![b] = "free"]
        /\ UNCHANGED << ctlVars, cmdVars, flushing, range, cliVars, worker, job, outVars >>

-----------------------------------------------------------------------------
(* The application.                                                        *)

Call(m, at) == client = "idle" /\ method' = m /\ client' = at

Connect(bSync) ==
    /\ client = "idle" /\ ~connected
    /\ connected' = TRUE
    /\ m_bSync' = bSync /\ m_tStart' = 0 /\ m_tStop' = FileLength
    /\ UNCHANGED << m_State, cmdVars, flushing, bufVars, cliVars, worker, job, outVars >>

\* CallWorker: the command is posted, and the reply awaited.
Post(cmd, at) ==
    /\ m_State' = cmd /\ request' = cmd
    /\ client' = at

\* Active, with no thread there: StartThread creates it.
Active ==
    /\ Call("Active", "started") /\ connected /\ ~thread
    /\ thread' = TRUE /\ worker' = "get"
    /\ Post("Start", "started")
    /\ UNCHANGED << connected, m_bSync, m_tStart, m_tStop, replied, flushing, bufVars, job, outVars >>

\* StopThread returns at once without a thread.
Inactive ==
    /\ Call("Inactive", "flush") /\ thread
    /\ UNCHANGED << ctlVars, cmdVars, flushing, bufVars, worker, job, outVars >>

SetPositions(tStart, tStop) == m_tStart' = tStart /\ m_tStop' = tStop

SeekStopped(tStart, tStop) ==
    /\ client = "idle" /\ connected /\ m_State # "Start"
    /\ SetPositions(tStart, tStop)
    /\ UNCHANGED << connected, m_bSync, m_State, cmdVars, flushing, bufVars, cliVars, worker, job, outVars >>

SeekStarted ==
    /\ Call("Seek", "flush") /\ m_State = "Start"
    /\ UNCHANGED << ctlVars, cmdVars, flushing, bufVars, worker, job, outVars >>

Disconnect ==
    /\ connected
    /\ Call("Disconnect", IF thread THEN "flush" ELSE "release")
    /\ UNCHANGED << ctlVars, cmdVars, flushing, bufVars, worker, job, outVars >>

\* PauseThread and StopThread flush the reader before they send the command.
FlushReader_Not ==                  \* mutated form: the worker may sit in WaitForNext
    /\ client = "flush" /\ client' = "post"
    /\ UNCHANGED << ctlVars, cmdVars, flushing, bufVars, method, worker, job, outVars >>

FlushReader ==
    /\ client = "flush" /\ client' = "post"
    /\ BeginFlush
    /\ UNCHANGED << ctlVars, cmdVars, range, method, worker, job, outVars >>

PostStop ==
    /\ client = "post"
    /\ Post(IF method = "Seek" THEN "Pause" ELSE "Exit", "stopped")
    /\ UNCHANGED << connected, m_bSync, m_tStart, m_tStop, thread, replied, flushing,
                    bufVars, method, worker, job, outVars >>

\* The reply to Start: the worker has begun, and the call is over.
Started ==
    /\ client = "started" /\ replied
    /\ replied' = FALSE
    /\ client' = "idle" /\ method' = "none"
    /\ UNCHANGED << ctlVars, thread, request, flushing, bufVars, worker, job, outVars >>

\* The reply to Pause or Exit.
Stopped ==
    /\ client = "stopped" /\ replied
    /\ replied' = FALSE
    /\ client' = IF method = "Seek" THEN "restart" ELSE "join"
    /\ EndFlush
    /\ UNCHANGED << ctlVars, thread, request, bufVars, method, worker, job, outVars >>

\* Seek sets the positions while the worker is paused, and starts it again.
Restart(tStart, tStop) ==
    /\ client = "restart"
    /\ SetPositions(tStart, tStop)
    /\ Post("Start", "started")
    /\ UNCHANGED << connected, m_bSync, thread, replied, flushing, bufVars, method, worker, job, outVars >>

\* Close waits for the thread to end.
Join ==
    /\ client = "join" /\ worker = "ended"
    /\ thread' = FALSE /\ worker' = "none"
    /\ client' = IF method = "Disconnect" THEN "release" ELSE "idle"
    /\ method' = IF method = "Disconnect" THEN method ELSE "none"
    /\ UNCHANGED << ctlVars, request, replied, flushing, bufVars, job, outVars >>

ReleaseReader ==
    /\ client = "release"
    /\ connected' = FALSE
    /\ client' = "idle" /\ method' = "none"
    /\ UNCHANGED << m_bSync, m_tStart, m_tStop, m_State, cmdVars, flushing, bufVars, worker, job, outVars >>

-----------------------------------------------------------------------------
(* The worker.                                                             *)

\* A step of the worker's own, from one place to another.
Go(from, to) == worker = from /\ worker' = to

Held == { b \in Buffers : place[b] = "worker" }

Reply == request' = "none" /\ replied' = TRUE

GetExit ==
    /\ request = "Exit" /\ Go("get", "ended")
    /\ Reply
    /\ UNCHANGED << ctlVars, thread, flushing, bufVars, cliVars, job, outVars >>

GetPause ==
    /\ request = "Pause" /\ Go("get", "flush")
    /\ Reply
    /\ UNCHANGED << ctlVars, thread, flushing, bufVars, cliVars, job, outVars >>

GetStart ==
    /\ request = "Start" /\ Go("get", "process")
    /\ Reply
    /\ delivered' = << >> /\ ended' = FALSE
    /\ UNCHANGED << ctlVars, thread, flushing, bufVars, cliVars, job >>

\* Process reads the positions; nothing to do is an end of stream at once.
Process ==
    /\ \/ m_tStop <= m_tStart /\ Go("process", "end") /\ job' = NoJob
       \/ /\ m_tStop > m_tStart /\ Go("process", "outer")
          /\ LET tStop == Least(m_tStop, FileLength) IN
             job' = [tStart |-> AlignDown(m_tStart), tCurrent |-> AlignDown(m_tStart),
                     tStop |-> tStop, tAlignStop |-> AlignUp(tStop)]
    /\ UNCHANGED << ctlVars, cmdVars, flushing, bufVars, cliVars, outVars >>

More == job.tCurrent < job.tAlignStop

\* Only the outer loop looks for a command.
Outer ==
    /\ Go("outer", IF ~More THEN "end"
                   ELSE IF request # "none" THEN "flush"
                   ELSE IF m_bSync THEN "read"
                   ELSE IF Cardinality(Buffers) > 1 THEN "first" ELSE "next")
    /\ UNCHANGED << ctlVars, cmdVars, flushing, bufVars, cliVars, job, outVars >>

\* The inner loop of the asynchronous mode; with two samples, the one still
\* at the reader is collected after it.
Inner ==
    /\ Go("inner", IF More THEN "next"
                   ELSE IF Cardinality(Buffers) > 1 THEN "last" ELSE "outer")
    /\ UNCHANGED << ctlVars, cmdVars, flushing, bufVars, cliVars, job, outVars >>

\* GetBuffer waits for a free sample; the next range is written into it.
TakeBuffer(from, to) ==
    /\ Go(from, to)
    /\ \E b \in Buffers :
        /\ place[b] = "free"
        /\ LET tStopThis == Least(job.tCurrent + BufferSize, job.tAlignStop) IN
           /\ range' = [range EXCEPT ![b] = << job.tCurrent, tStopThis >>]
           /\ job' = [job EXCEPT !.tCurrent = tStopThis]
        /\ place' = [place EXCEPT ![b] = "worker"]
    /\ UNCHANGED << ctlVars, cmdVars, flushing, cliVars, outVars >>

GetBuffer ==
    \/ TakeBuffer("first", "request1")
    \/ TakeBuffer("next", "request2")
    \/ TakeBuffer("read", "syncread")

\* Request fails while the reader is flushed, and when the reader says so.
RequestSample(from, to) ==
    /\ worker = from
    /\ \E b \in Held :
        \/ /\ ~flushing /\ worker' = to
           /\ place' = [place EXCEPT ![b] = "pending"]
        \/ /\ worker' = "cleanup"
           /\ place' = [place EXCEPT ![b] = "free"]
    /\ UNCHANGED << ctlVars, cmdVars, flushing, range, cliVars, job, outVars >>

Request ==
    \/ RequestSample("request1", "inner")
    \/ RequestSample("request2", "collect")

\* WaitForNext without a limit: a sample, a failed one, or none in a flush.
WaitForNext(from, to) ==
    /\ worker = from
    /\ \/ \E b \in Buffers :
            \/ /\ place[b] = "done" /\ worker' = to
               /\ place' = [place EXCEPT ![b] = "worker"]
            \/ /\ place[b] = "failed" /\ worker' = "cleanup"
               /\ place' = [place EXCEPT ![b] = "free"]
       \/ /\ flushing /\ \A b \in Buffers : place[b] \notin {"done", "failed"}
          /\ worker' = "cleanup" /\ UNCHANGED place
    /\ UNCHANGED << ctlVars, cmdVars, flushing, range, cliVars, job, outVars >>

Collect ==
    \/ WaitForNext("collect", "deliver")
    \/ WaitForNext("last", "deliverlast")

\* SyncReadAligned; OnError is called on a failure.
SyncRead ==
    /\ worker = "syncread"
    /\ \E b \in Held :
        \/ ~flushing /\ worker' = "deliversync" /\ UNCHANGED place
        \/ worker' = "flush" /\ place' = [place EXCEPT ![b] = "free"]
    /\ UNCHANGED << ctlVars, cmdVars, flushing, range, cliVars, job, outVars >>

\* DeliverSample: the stop position is cut to the one asked for, the times are
\* made relative; Receive says go on, stop or error, and may keep the sample.
DeliverSample_Whole(from, ok, no, err) ==    \* mutated form: not cut to tStop
    /\ worker = from /\ worker' \in {ok, no, err}
    /\ \E b \in Held, kept \in {"free", "down"} :
        /\ delivered' = Append(delivered, << range[b][1] - job.tStart, range[b][2] - job.tStart >>)
        /\ place' = [place EXCEPT ![b] = kept]
    /\ UNCHANGED << ctlVars, cmdVars, flushing, range, cliVars, job, ended >>

DeliverSample(from, ok, no, err) ==
    /\ worker = from /\ worker' \in {ok, no, err}
    /\ \E b \in Held, kept \in {"free", "down"} :
        /\ delivered' = Append(delivered, << range[b][1] - job.tStart,
                                             Least(range[b][2], job.tStop) - job.tStart >>)
        /\ place' = [place EXCEPT ![b] = kept]
    /\ UNCHANGED << ctlVars, cmdVars, flushing, range, cliVars, job, ended >>

\* The last sample's S_FALSE does not stop the loop, which is over anyway.
Deliver ==
    \/ DeliverSample("deliver", "inner", "flush", "cleanup")
    \/ DeliverSample("deliverlast", "outer", "outer", "cleanup")
    \/ DeliverSample("deliversync", "outer", "flush", "flush")

EndOfStream ==
    /\ Go("end", "flush")
    /\ ended' = TRUE
    /\ UNCHANGED << ctlVars, cmdVars, flushing, bufVars, cliVars, job, delivered >>

\* CleanupCancelled: WaitForNext(0) until there is no sample.
CleanupCancelled(from, to) ==
    /\ worker = from
    /\ \/ \E b \in Buffers :
            /\ place[b] \in {"done", "failed"}
            /\ place' = [place EXCEPT ![b] = "free"] /\ UNCHANGED worker
       \/ /\ \A b \in Buffers : place[b] \notin {"done", "failed"}
          /\ worker' = to /\ UNCHANGED place
    /\ UNCHANGED << ctlVars, cmdVars, flushing, range, cliVars, job, outVars >>

\* Before the next command: flush, collect what was cancelled, end the flush.
\* The application may be in a flush of its own; this one ends that too.
IdleFlush_Not ==                    \* mutated form: nothing to clean up
    /\ Go("flush", "get")
    /\ UNCHANGED << ctlVars, cmdVars, flushing, bufVars, cliVars, job, outVars >>

IdleFlush ==
    /\ Go("flush", "collectall")
    /\ BeginFlush
    /\ UNCHANGED << ctlVars, cmdVars, range, cliVars, job, outVars >>

IdleEndFlush ==
    /\ Go("endflush", "get")
    /\ EndFlush
    /\ UNCHANGED << ctlVars, cmdVars, bufVars, cliVars, job, outVars >>

Cleanup ==
    \/ CleanupCancelled("cleanup", "flush")
    \/ CleanupCancelled("collectall", "endflush")

Worker ==
    \/ GetExit \/ GetPause \/ GetStart
    \/ Process \/ Outer \/ Inner \/ GetBuffer \/ Request \/ Collect
    \/ SyncRead \/ Deliver \/ EndOfStream
    \/ Cleanup \/ IdleFlush \/ IdleEndFlush

\* What the application's methods do until they return.
Continue ==
    \/ FlushReader \/ PostStop \/ Started \/ Stopped \/ Join \/ ReleaseReader
    \/ \E tStart \in Starts, tStop \in Stops : Restart(tStart, tStop)

Next ==
    \/ \E bSync \in BOOLEAN : Connect(bSync)
    \/ Active \/ Inactive \/ SeekStarted \/ Disconnect
    \/ \E tStart \in Starts, tStop \in Stops : SeekStopped(tStart, tStop)
    \/ Continue \/ Worker \/ Complete \/ DownstreamRelease

\* Threads run, and a downstream filter releases what it holds, as it must when
\* it is flushed or stopped.  No read need ever complete.
Spec == Init /\ [][Next]_vars
        /\ WF_vars(Worker) /\ WF_vars(Continue)
        /\ WF_vars(DownstreamRelease)

-----------------------------------------------------------------------------
Outstanding == { b \in Buffers : place[b] \notin {"free", "down"} }

\* "At this point, there should be no outstanding requests on the upstream
\* filter" (ThreadProc): whenever the worker waits for a command, every sample
\* is back, whatever made Process return.
NothingOutstanding == worker \in {"none", "get", "ended"} => Outstanding = {}

\* The two flushes, the application's and the worker's, may overlap and end one
\* another, but neither leaves the reader flushing, and the samples of a new
\* start are not cancelled by an old flush.
FlushesEnd ==
    flushing => client \in {"post", "stopped"} \/ worker \in {"collectall", "endflush"}

\* After Pause or Exit was answered the worker pulls and delivers nothing: Seek
\* changes the positions, and Disconnect releases the reader, under no one.
PausedIsQuiet ==
    /\ client = "restart" => worker \in {"flush", "collectall", "endflush", "get"}
    /\ client = "release" => worker = "none"
    /\ ~connected => worker = "none"

PullSound == NothingOutstanding /\ FlushesEnd /\ PausedIsQuiet

\* Whatever order the reads complete in, no position is delivered twice, none
\* outside the range asked for, times are relative to the aligned start, and the
\* end of the stream comes only after every position asked for.
Positions(r) == (r[1] + job.tStart) .. (r[2] + job.tStart - 1)

EndMeansAll ==
    /\ \A i, j \in DOMAIN delivered : i # j => Positions(delivered[i]) \cap Positions(delivered[j]) = {}
    /\ \A i \in DOMAIN delivered : Positions(delivered[i]) \subseteq job.tStart .. (job.tStop - 1)
    /\ ended => UNION { Positions(delivered[i]) : i \in DOMAIN delivered } = job.tStart .. (job.tStop - 1)

\* Every method returns, though the reader may never complete a request: the
\* flush lets the worker out of WaitForNext, also when the worker's own flush
\* ends it early.
CallsReturn == client # "idle" ~> client = "idle"
==============================================================================
