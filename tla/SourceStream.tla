---------------------------- MODULE SourceStream ----------------------------
(***************************************************************************)
(* The capture filter at work: application threads that call Pause, Run,   *)
(* Stop, Connect ... on CCamFilter, the worker thread of CCamPin that      *)
(* fills and delivers frames (CSourceStream::ThreadProc), the connection's *)
(* allocator (module MemAllocator) and the handshake between them (module  *)
(* CAMThread).  The downstream filter and the graph's clock are external.  *)
(*                                                                         *)
(* The filter's state lock (m_pLock, the same object as CSource's          *)
(* m_cStateLock) is a critical section the owner may enter again, so only  *)
(* the outermost entry shows here.  The worker never takes it.             *)
(***************************************************************************)
EXTENDS CAMThread, MemAllocator

CONSTANTS
    Clients,        \* application threads
    Nobody          \* the lock is free

ASSUME NobodyAssumption == Nobody \notin Clients

FrameCap == 2       \* frames are counted up to this: 0, 1, "more than one"
Count(n) == IF n < FrameCap THEN n + 1 ELSE FrameCap
NoSample == 0

VARIABLES
    m_State,        \* CBaseFilter: the filter's state
    m_pLock,        \* owner of the state lock
    m_Connected,    \* the pin is connected
    m_pClock,       \* the filter has a reference clock
    formattype,     \* m_mt.formattype of the pin
    m_iFrameNumber, \* CCamPin: frames stamped since the start
    pc, op, want,   \* a client: where it is, its method, the command it sends
    wpc, wthen,     \* the worker: where it is, where it goes on afterwards
    wreply,         \* the worker: the result it is replying
    sample,         \* the worker's sample, or NoSample
    discontinuity,  \* the flag it set on that sample
    downstream      \* samples the downstream filter keeps a reference on

\* History: what an observer downstream has seen.
VARIABLES
    session,        \* the stream is "closed", "open" or "ended"
    delivered,      \* frames handed to Receive in this session
    credit          \* a frame begun while Running may still come

filterVars  == << m_State, m_pLock, m_Connected, m_pClock, formattype, m_iFrameNumber >>
clientVars  == << pc, op, want >>
workerVars  == << wpc, wthen, wreply, sample, discontinuity >>
historyVars == << session, delivered, credit >>
vars == << threadVars, allocVars, filterVars, clientVars, workerVars, downstream,
           historyVars >>

ClientLabel == {"idle", "commit", "create", "post", "wait", "paused", "running",
                "decommit", "close", "join", "stopped"}
WorkerLabel == {"none", "init", "request", "reply", "complete", "check", "getbuffer",
                "semwait", "state", "poll", "capture", "time", "throttle", "stamp",
                "deliver", "release", "eos", "abort", "exit"}

TypeOK ==
    /\ ThreadTypeOK
    /\ AllocTypeOK
    /\ m_State \in {"Stopped", "Paused", "Running"}
    /\ m_pLock \in Clients \cup {Nobody}
    /\ m_Connected \in BOOLEAN
    /\ m_pClock \in BOOLEAN
    /\ formattype \in {"VideoInfo", "other"}
    /\ m_iFrameNumber \in 0 .. FrameCap
    /\ pc \in [Clients -> ClientLabel]
    /\ op \in [Clients -> {"Pause", "Run", "Stop"}]
    /\ want \in [Clients -> Command]
    /\ wpc \in WorkerLabel
    /\ wthen \in WorkerLabel
    /\ wreply \in Result
    /\ sample \in Sample \cup {NoSample}
    /\ discontinuity \in BOOLEAN
    /\ downstream \subseteq Sample
    /\ session \in {"closed", "open", "ended"}
    /\ delivered \in 0 .. FrameCap
    /\ credit \in BOOLEAN

Init ==
    /\ ThreadInit
    /\ AllocInit
    /\ m_State = "Stopped"
    /\ m_pLock = Nobody
    /\ m_Connected = FALSE
    /\ m_pClock = FALSE
    /\ formattype = "VideoInfo"         \* put_Settings in the constructor
    /\ m_iFrameNumber = 0
    /\ pc = [c \in Clients |-> "idle"]
    /\ op = [c \in Clients |-> "Stop"]
    /\ want = [c \in Clients |-> "INIT"]
    /\ wpc = "none"
    /\ wthen = "none"
    /\ wreply = "S_OK"
    /\ sample = NoSample
    /\ discontinuity = FALSE
    /\ downstream = {}
    /\ session = "closed"
    /\ delivered = 0
    /\ credit = FALSE

-----------------------------------------------------------------------------
(* Application threads.  A method runs under the state lock from its first *)
(* step to its last.                                                       *)

EnterLock_Ignored(c) == m_pLock' = c        \* mutated form: no CAutoLock
EnterLock(c) == m_pLock = Nobody /\ m_pLock' = c

Begin(c, method, label) ==
    /\ pc[c] = "idle"
    /\ EnterLock(c)
    /\ op' = [op EXCEPT ![c] = method]
    /\ pc' = [pc EXCEPT ![c] = label]

Goto(c, label) == pc' = [pc EXCEPT ![c] = label]

CallWorker(c, cmd) ==
    /\ Goto(c, "post")
    /\ want' = [want EXCEPT ![c] = cmd]

Return(c) == m_pLock' = Nobody /\ Goto(c, "idle")

\* Only a connected pin is activated, and only on the way out of Stopped.
ActivatesPin == m_State = "Stopped" /\ m_Connected

BeginPause(c) ==
    /\ Begin(c, "Pause", IF ActivatesPin THEN "commit" ELSE "paused")
    /\ UNCHANGED << threadVars, allocVars, m_State, m_Connected, m_pClock, formattype,
                    m_iFrameNumber, want, workerVars, downstream, historyVars >>

BeginRun(c) ==
    /\ Begin(c, "Run", IF ActivatesPin THEN "commit"
                       ELSE IF m_State = "Stopped" THEN "paused" ELSE "running")
    /\ UNCHANGED << threadVars, allocVars, m_State, m_Connected, m_pClock, formattype,
                    m_iFrameNumber, want, workerVars, downstream, historyVars >>

BeginStop(c) ==
    /\ Begin(c, "Stop", IF m_State # "Stopped" /\ m_Connected THEN "decommit" ELSE "stopped")
    /\ UNCHANGED << threadVars, allocVars, m_State, m_Connected, m_pClock, formattype,
                    m_iFrameNumber, want, workerVars, downstream, historyVars >>

\* CSourceStream::Active: commit, create the thread, CMD_INIT, CMD_PAUSE.
\* Each step may fail, and then Pause fails with the state still Stopped.
ActiveCommit(c) ==
    /\ pc[c] = "commit"
    /\ \/ Commit /\ Goto(c, "create") /\ UNCHANGED m_pLock
       \/ CommitFails /\ Return(c)
    /\ UNCHANGED << threadVars, m_State, m_Connected, m_pClock, formattype,
                    m_iFrameNumber, op, want, workerVars, downstream, historyVars >>

ActiveCreate(c) ==
    /\ pc[c] = "create"
    /\ Create
    /\ wpc' = "init"
    /\ CallWorker(c, "INIT")
    /\ UNCHANGED << allocVars, filterVars, op, wthen, wreply, sample, discontinuity,
                    downstream, historyVars >>

ActiveCreateFails(c) ==
    /\ pc[c] = "create"
    /\ Return(c)
    /\ UNCHANGED << threadVars, allocVars, m_State, m_Connected, m_pClock, formattype,
                    m_iFrameNumber, op, want, workerVars, downstream, historyVars >>

\* Active fails, and with it Pause; Stop goes on.
CallFailed(c) ==
    IF op[c] = "Stop" THEN Goto(c, "stopped") /\ UNCHANGED m_pLock ELSE Return(c)

Post(c) ==
    /\ pc[c] = "post"
    /\ IF ThreadExists
       THEN SendRequest(want[c]) /\ Goto(c, "wait") /\ UNCHANGED m_pLock
       ELSE UNCHANGED threadVars /\ CallFailed(c)
    /\ UNCHANGED << allocVars, m_State, m_Connected, m_pClock, formattype,
                    m_iFrameNumber, op, want, workerVars, downstream, historyVars >>

\* What follows a successful reply, in Active and in Inactive.
Continue(c) ==
    CASE want[c] = "INIT"  -> CallWorker(c, "PAUSE")
      [] want[c] = "PAUSE" -> Goto(c, "paused") /\ UNCHANGED want
      [] want[c] = "STOP"  -> CallWorker(c, "EXIT")
      [] want[c] = "EXIT"  -> Goto(c, "close")  /\ UNCHANGED want

WaitReply(c) ==
    /\ pc[c] = "wait"
    /\ TakeReply
    /\ IF m_dwReturnVal = "S_OK" THEN Continue(c) /\ UNCHANGED m_pLock
                                 ELSE CallFailed(c) /\ UNCHANGED want
    /\ UNCHANGED << allocVars, m_State, m_Connected, m_pClock, formattype,
                    m_iFrameNumber, op, workerVars, downstream, historyVars >>

EnterPaused(c) ==
    /\ pc[c] = "paused"
    /\ m_State' = "Paused"
    /\ IF op[c] = "Run" THEN Goto(c, "running") /\ UNCHANGED m_pLock ELSE Return(c)
    /\ UNCHANGED << threadVars, allocVars, m_Connected, m_pClock, formattype,
                    m_iFrameNumber, op, want, workerVars, downstream, historyVars >>

EnterRunning(c) ==
    /\ pc[c] = "running"
    /\ m_State' = "Running"
    /\ credit' = TRUE
    /\ Return(c)
    /\ UNCHANGED << threadVars, allocVars, m_Connected, m_pClock, formattype,
                    m_iFrameNumber, op, want, workerVars, downstream, session, delivered >>

\* CSourceStream::Inactive: decommit first ("we may be stuck waiting for our
\* own allocator"), then CMD_STOP, CMD_EXIT, and wait for the thread.
InactiveDecommit_NoStop(c) ==           \* mutated form: CMD_EXIT at once
    /\ pc[c] = "decommit"
    /\ Decommit
    /\ IF ThreadExists THEN CallWorker(c, "EXIT") ELSE Goto(c, "stopped") /\ UNCHANGED want
    /\ UNCHANGED << threadVars, filterVars, op, workerVars, downstream, historyVars >>

InactiveDecommit(c) ==
    /\ pc[c] = "decommit"
    /\ Decommit
    /\ IF ThreadExists THEN CallWorker(c, "STOP") ELSE Goto(c, "stopped") /\ UNCHANGED want
    /\ UNCHANGED << threadVars, filterVars, op, workerVars, downstream, historyVars >>

InactiveClose(c) ==
    /\ pc[c] = "close"
    /\ TakeHandle
    /\ Goto(c, "join")
    /\ UNCHANGED << allocVars, filterVars, op, want, workerVars, downstream, historyVars >>

InactiveJoin_NoWait(c) ==               \* mutated form: CloseHandle without waiting
    /\ pc[c] = "join"
    /\ Goto(c, "stopped")
    /\ UNCHANGED << threadVars, allocVars, filterVars, op, want, workerVars, downstream,
                    historyVars >>

InactiveJoin(c) ==
    /\ pc[c] = "join"
    /\ wpc = "none"
    /\ Goto(c, "stopped")
    /\ UNCHANGED << threadVars, allocVars, filterVars, op, want, workerVars, downstream,
                    historyVars >>

EnterStopped(c) ==
    /\ pc[c] = "stopped"
    /\ m_State' = "Stopped"
    /\ m_iFrameNumber' = 0
    /\ Return(c)
    /\ UNCHANGED << threadVars, allocVars, m_Connected, m_pClock, formattype, op, want,
                    workerVars, downstream, historyVars >>

-----------------------------------------------------------------------------
(* Methods that do their work in one critical section of the state lock.   *)

CanConnect == m_pLock = Nobody /\ m_State = "Stopped" /\ ~m_Connected

\* DecideAllocator: the allocator that downstream offers (the last one again),
\* or a new one.  Samples of the old one that are still out are then no longer
\* this connection's.  DecideBufferSize asks either for one buffer.
DecideAllocator ==
    \/ SetProperties(1) /\ UNCHANGED downstream
    \/ CreateFor(1) /\ downstream' = {}

\* CBasePin::Connect.  CheckMediaType does not look at the format type that is
\* proposed.  No media type agrees, or no allocator does, or the pin connects;
\* the last type that was tried stays in m_mt.
Connect ==
    /\ CanConnect
    /\ \/ UNCHANGED << allocVars, downstream, m_Connected >>
       \/ DecideAllocator /\ m_Connected' \in BOOLEAN
    /\ formattype' \in {"VideoInfo", "other"}
    /\ m_iFrameNumber' = 0
    /\ UNCHANGED << threadVars, m_State, m_pLock, m_pClock, clientVars, workerVars,
                    historyVars >>

Disconnect_Anytime ==           \* mutated form: no check for IsStopped
    /\ m_pLock = Nobody /\ m_Connected
    /\ Decommit
    /\ m_Connected' = FALSE
    /\ UNCHANGED << threadVars, m_State, m_pLock, m_pClock, formattype, m_iFrameNumber,
                    clientVars, workerVars, downstream, historyVars >>

Disconnect_Committed ==         \* mutated form: the allocator stays committed
    /\ m_pLock = Nobody /\ m_State = "Stopped" /\ m_Connected
    /\ m_Connected' = FALSE
    /\ UNCHANGED << threadVars, allocVars, m_State, m_pLock, m_pClock, formattype,
                    m_iFrameNumber, clientVars, workerVars, downstream, historyVars >>

Disconnect ==
    /\ m_pLock = Nobody /\ m_State = "Stopped" /\ m_Connected
    /\ Decommit
    /\ m_Connected' = FALSE
    /\ UNCHANGED << threadVars, m_State, m_pLock, m_pClock, formattype, m_iFrameNumber,
                    clientVars, workerVars, downstream, historyVars >>

\* The graph sets or takes away the clock, in any state of the filter.
SetSyncSource ==
    /\ m_pLock = Nobody
    /\ m_pClock' \in BOOLEAN
    /\ UNCHANGED << threadVars, allocVars, m_State, m_pLock, m_Connected, formattype,
                    m_iFrameNumber, clientVars, workerVars, downstream, historyVars >>

\* Builds the asked-for media type in the pin's own m_mt, whatever the state.
\* put_Settings and SetFormat leave the same format type there.
GetStreamCaps ==
    /\ m_pLock = Nobody
    /\ formattype' = "VideoInfo"
    /\ UNCHANGED << threadVars, allocVars, m_State, m_pLock, m_Connected, m_pClock,
                    m_iFrameNumber, clientVars, workerVars, downstream, historyVars >>

-----------------------------------------------------------------------------
(* The worker: ThreadProc. *)

WGoto(label) == wpc' = label /\ UNCHANGED << wthen, wreply >>

ReplyThen(hr, label) ==
    /\ wpc' = "reply"
    /\ wreply' = hr
    /\ wthen' = label

\* The first loop of ThreadProc and OnThreadCreate, which cannot fail here.
WInit ==
    /\ wpc = "init"
    /\ m_EventSend
    /\ IF m_dwParam = "INIT"
       THEN ReplyThen("S_OK", "request") /\ m_iFrameNumber' = 0
       ELSE ReplyThen("E_UNEXPECTED", "init") /\ UNCHANGED m_iFrameNumber
    /\ UNCHANGED << threadVars, allocVars, m_State, m_pLock, m_Connected, m_pClock,
                    formattype, clientVars, sample, discontinuity, downstream, historyVars >>

\* The main loop; CMD_PAUSE starts the buffer processing loop.
WRequest ==
    /\ wpc = "request"
    /\ m_EventSend
    /\ CASE m_dwParam = "EXIT"  -> ReplyThen("S_OK", "exit")
         [] m_dwParam = "PAUSE" -> ReplyThen("S_OK", "check")
         [] m_dwParam = "STOP"  -> ReplyThen("S_OK", "request")
         [] m_dwParam = "INIT"  -> ReplyThen("E_NOTIMPL", "request")
    /\ IF m_dwParam = "PAUSE" THEN session' = "open" /\ delivered' = 0 /\ credit' = FALSE
                              ELSE UNCHANGED historyVars
    /\ UNCHANGED << threadVars, allocVars, filterVars, clientVars, sample, discontinuity,
                    downstream >>

WReply ==
    /\ wpc = "reply"
    /\ WithdrawRequest(wreply)
    /\ WGoto("complete")
    /\ UNCHANGED << allocVars, filterVars, clientVars, sample, discontinuity, downstream,
                    historyVars >>

WComplete ==
    /\ wpc = "complete"
    /\ SignalComplete
    /\ WGoto(wthen)
    /\ UNCHANGED << allocVars, filterVars, clientVars, sample, discontinuity, downstream,
                    historyVars >>

WExit ==
    /\ wpc = "exit"
    /\ WGoto("none")
    /\ session' = "closed"
    /\ UNCHANGED << threadVars, allocVars, filterVars, clientVars, sample, discontinuity,
                    downstream, delivered, credit >>

-----------------------------------------------------------------------------
(* The worker: DoBufferProcessingLoop. *)

\* CheckRequest leaves the request posted; after CMD_STOP the main loop finds
\* it again and replies.
WCheck ==
    /\ wpc = "check"
    /\ CASE ~m_EventSend      -> WGoto("getbuffer") /\ UNCHANGED session
         [] Requested("STOP") -> WGoto("request") /\ session' = "ended"
         [] OTHER ->
               /\ ReplyThen(IF m_dwParam = "PAUSE" THEN "S_OK" ELSE "E_UNEXPECTED", "check")
               /\ UNCHANGED session
    /\ UNCHANGED << threadVars, allocVars, filterVars, clientVars, sample, discontinuity,
                    downstream, delivered, credit >>

WGetBuffer ==
    /\ wpc = "getbuffer"
    /\ \/ GetRejected /\ WGoto("check") /\ UNCHANGED sample
       \/ \E s \in m_lFree : GetTakes(s) /\ sample' = s /\ WGoto("state")
       \/ GetMustWait /\ WGoto("semwait") /\ UNCHANGED sample
    /\ UNCHANGED << threadVars, filterVars, clientVars, discontinuity, downstream, historyVars >>

WSemWait ==
    /\ wpc = "semwait"
    /\ SemWait
    /\ WGoto("getbuffer")
    /\ UNCHANGED << threadVars, filterVars, clientVars, sample, discontinuity, downstream,
                    historyVars >>

\* The sample's reference goes, then the worker continues at the label.
ReleaseThen(label) == wpc' = "release" /\ wthen' = label /\ UNCHANGED wreply

WRelease_Always ==              \* mutated form: freed though downstream holds it
    /\ wpc = "release"
    /\ sample' = NoSample
    /\ ReleaseBuffer(sample)
    /\ WGoto(wthen)
    /\ UNCHANGED << threadVars, filterVars, clientVars, discontinuity, downstream, historyVars >>

WRelease ==
    /\ wpc = "release"
    /\ sample' = NoSample
    /\ IF sample \in downstream THEN UNCHANGED allocVars ELSE ReleaseBuffer(sample)
    /\ WGoto(wthen)
    /\ UNCHANGED << threadVars, filterVars, clientVars, discontinuity, downstream, historyVars >>

\* DeliverEndOfStream, when FillBuffer returned S_FALSE.
WEndOfStream ==
    /\ wpc = "eos"
    /\ WGoto("request")
    /\ session' = "ended"
    /\ UNCHANGED << threadVars, allocVars, filterVars, clientVars, sample, discontinuity,
                    downstream, delivered, credit >>

\* DeliverEndOfStream and EC_ERRORABORT, when FillBuffer failed.
WAbort ==
    /\ wpc = "abort"
    /\ WGoto("request")
    /\ session' = "ended"
    /\ UNCHANGED << threadVars, allocVars, filterVars, clientVars, sample, discontinuity,
                    downstream, delivered, credit >>

-----------------------------------------------------------------------------
(* The worker: CCamPin::FillBuffer. *)

\* CCamFilter::GetState reads m_State without the state lock.
StateReadable_Locked == m_pLock = Nobody        \* mutated form: GetState locks
StateReadable == TRUE

WState_NoTest ==                \* mutated form: frames in every state
    /\ wpc = "state"
    /\ WGoto("capture")
    /\ UNCHANGED << threadVars, allocVars, filterVars, clientVars, sample, discontinuity,
                    downstream, historyVars >>

WState ==
    /\ wpc = "state"
    /\ StateReadable
    /\ WGoto(IF m_State = "Running" THEN "capture" ELSE "poll")
    /\ UNCHANGED << threadVars, allocVars, filterVars, clientVars, sample, discontinuity,
                    downstream, historyVars >>

\* Waiting for Running: Sleep(1), CheckRequest; CMD_STOP makes FillBuffer
\* return S_FALSE.
WPoll ==
    /\ wpc = "poll"
    /\ IF Requested("STOP") THEN ReleaseThen("eos") ELSE WGoto("state")
    /\ UNCHANGED << threadVars, allocVars, filterVars, clientVars, sample, discontinuity,
                    downstream, historyVars >>

\* The picture is taken; with a format type other than VIDEOINFO it fails.
WCapture ==
    /\ wpc = "capture"
    /\ IF formattype = "VideoInfo" THEN WGoto("time") ELSE ReleaseThen("abort")
    /\ UNCHANGED << threadVars, allocVars, filterVars, clientVars, sample, discontinuity,
                    downstream, historyVars >>

\* Too early by the stream time: wait.  Without a clock it is never early.
WTime ==
    /\ wpc = "time"
    /\ \/ WGoto("stamp")
       \/ m_pClock /\ WGoto("throttle")
    /\ UNCHANGED << threadVars, allocVars, filterVars, clientVars, sample, discontinuity,
                    downstream, historyVars >>

\* The stream time has reached the end of the previous frame.  The wait looks
\* at nothing else, and without a clock the stream time stands still.
WThrottle ==
    /\ wpc = "throttle"
    /\ m_pClock
    /\ WGoto("stamp")
    /\ UNCHANGED << threadVars, allocVars, filterVars, clientVars, sample, discontinuity,
                    downstream, historyVars >>

\* Sleep(1) and StreamTime again, too early still or without a clock.
WThrottleAgain == wpc = "throttle" /\ UNCHANGED vars

WStamp_TestFirst ==             \* mutated form: tested before the increment
    /\ wpc = "stamp"
    /\ m_iFrameNumber' = Count(m_iFrameNumber)
    /\ discontinuity' = (m_iFrameNumber <= 1)
    /\ WGoto("deliver")
    /\ UNCHANGED << threadVars, allocVars, m_State, m_pLock, m_Connected, m_pClock,
                    formattype, clientVars, sample, downstream, historyVars >>

WStamp ==
    /\ wpc = "stamp"
    /\ m_iFrameNumber' = Count(m_iFrameNumber)
    /\ discontinuity' = (m_iFrameNumber' <= 1)
    /\ WGoto("deliver")
    /\ UNCHANGED << threadVars, allocVars, m_State, m_pLock, m_Connected, m_pClock,
                    formattype, clientVars, sample, downstream, historyVars >>

-----------------------------------------------------------------------------
(* The downstream filter (external): Receive keeps a reference or not, and *)
(* accepts or refuses; later the reference is released from its threads.   *)

WDeliver_IgnoreResult ==        \* mutated form: the result of Deliver is not tested
    /\ wpc = "deliver"
    /\ delivered' = Count(delivered)
    /\ credit' = (credit /\ m_State = "Running")
    /\ downstream' \in {downstream, downstream \cup {sample}}
    /\ session' \in {"open", "ended"}
    /\ ReleaseThen("check")
    /\ UNCHANGED << threadVars, allocVars, filterVars, clientVars, sample, discontinuity >>

WDeliver ==
    /\ wpc = "deliver"
    /\ delivered' = Count(delivered)
    /\ credit' = (credit /\ m_State = "Running")
    /\ downstream' \in {downstream, downstream \cup {sample}}
    /\ \/ ReleaseThen("check") /\ UNCHANGED session
       \/ ReleaseThen("request") /\ session' = "ended"
    /\ UNCHANGED << threadVars, allocVars, filterVars, clientVars, sample, discontinuity >>

DownstreamRelease(s) ==
    /\ s \in downstream
    /\ downstream' = downstream \ {s}
    /\ IF s = sample THEN UNCHANGED allocVars ELSE ReleaseBuffer(s)
    /\ UNCHANGED << threadVars, filterVars, clientVars, workerVars, historyVars >>

-----------------------------------------------------------------------------
ClientStep(c) ==
    \/ ActiveCommit(c) \/ ActiveCreate(c) \/ ActiveCreateFails(c)
    \/ Post(c) \/ WaitReply(c)
    \/ EnterPaused(c) \/ EnterRunning(c)
    \/ InactiveDecommit(c) \/ InactiveClose(c) \/ InactiveJoin(c) \/ EnterStopped(c)

WorkerStep ==
    \/ WInit \/ WRequest \/ WReply \/ WComplete \/ WExit
    \/ WCheck \/ WGetBuffer \/ WSemWait \/ WRelease \/ WEndOfStream \/ WAbort
    \/ WState \/ WPoll \/ WCapture \/ WTime \/ WThrottle \/ WStamp \/ WDeliver

Next ==
    \/ \E c \in Clients : BeginPause(c) \/ BeginRun(c) \/ BeginStop(c) \/ ClientStep(c)
    \/ Connect \/ Disconnect \/ SetSyncSource \/ GetStreamCaps
    \/ WorkerStep
    \/ WThrottleAgain
    \/ \E s \in Sample : DownstreamRelease(s)

Spec == Init /\ [][Next]_vars

\* Every thread that can run does; the downstream filter returns from Receive
\* and lets go of its samples; a clock that is there advances.
Fairness ==
    /\ \A c \in Clients : WF_vars(ClientStep(c))
    /\ WF_vars(WorkerStep)
    /\ \A s \in Sample : WF_vars(DownstreamRelease(s))

FairSpec == Spec /\ Fairness

-----------------------------------------------------------------------------
(* Properties. *)

\* The lock is held by the client that is inside a method and by nobody else.
LockOwner == \A c \in Clients : pc[c] # "idle" <=> m_pLock = c

\* No stale completion: m_EventComplete is signalled only while a client waits
\* for it and its request has been withdrawn, so that no CallWorker can return
\* with the answer to an earlier request.
ReplyAnswersRequest ==
    m_EventComplete =>
        /\ ~m_EventSend
        /\ \E c \in Clients : pc[c] = "wait" /\ want[c] = m_dwParam

\* Every command meets the worker where it is expected: no request is ever
\* answered with E_UNEXPECTED or E_NOTIMPL ("Thread expected init command",
\* "Unexpected command!!!", "Unknown command").
NoUnexpectedCommand == wpc \in {"reply", "complete"} => wreply = "S_OK"

\* After a Stop (and before the first Pause) nothing of the stream is left: no
\* worker, no request, no sample in its hands, no stream open downstream.
StoppedIsQuiet ==
    m_State = "Stopped" /\ m_pLock = Nobody =>
        /\ wpc = "none" /\ ~m_hThread /\ ~m_EventSend /\ sample = NoSample
        /\ session = "closed"

\* The worker delivers without the lock the comment over Deliver asks for; that
\* is harmless because the pin stays connected as long as the worker exists.
ConnectedWhileStreaming == wpc # "none" => m_Connected

\* A broken connection leaves no committed allocator behind, even when Active
\* failed between Commit and the creation of the thread.
DisconnectedIsDecommitted == ~m_Connected => ~m_bCommitted

\* Frames come only from a Running filter: none before the first Run of a
\* stream, and after a Pause at most the one frame that the worker had begun
\* when it last saw the filter Running.
FramesOnlyWhenRunning == wpc = "deliver" => (m_State = "Running" \/ credit)

\* The first frame of a stream is marked as a discontinuity, and only that one.
FirstFrameDiscontinuous ==
    wpc = "deliver" => (discontinuity <=> delivered = 0)

\* No frame after the end of the stream, nor after downstream refused one.
NothingAfterTheEnd == wpc = "deliver" => session = "open"

\* Each sample is free, with the worker or downstream.
SampleAccounting ==
    \A s \in Sample :
        s \in m_lFree <=> (s \in Allocated /\ s # sample /\ s \notin downstream)

\* Every call of Pause, Run and Stop returns, whatever the worker was doing;
\* unless the clock was taken away while the worker waited for it.
CallsReturn ==
    \A c \in Clients :
        pc[c] # "idle" ~> (pc[c] = "idle" \/ (wpc = "throttle" /\ ~m_pClock))

\* A filter that stays Running, with its clock and an unrefused stream, goes on
\* to deliver frames.
FramesFlow ==
    (m_State = "Running" /\ session = "open")
        ~> (wpc = "deliver" \/ m_State # "Running" \/ m_pLock # Nobody
              \/ session # "open" \/ ~m_pClock)

\* The handshake of CallWorker and Reply: every answer belongs to the request its
\* caller waits for, and every command meets the worker where it is expected.
AnswersMatch == LockOwner /\ ReplyAnswersRequest /\ NoUnexpectedCommand

\* The pin is connected as long as there is a stream, and without a connection
\* the allocator is decommitted.
ConnectionOutlivesStream == ConnectedWhileStreaming /\ DisconnectedIsDecommitted

\* What reaches downstream: frames of a Running filter from the first, marked
\* one to the end of the stream, each in a sample of its own.
StreamInOrder ==
    FramesOnlyWhenRunning /\ FirstFrameDiscontinuous /\ NothingAfterTheEnd /\ SampleAccounting

\* The stream as the graph sees it (module FrameSource).
Abstract == INSTANCE FrameSource WITH
    state <- m_State, linked <- m_Connected, frames <- delivered

ImplementsFrameSource == Abstract!Spec
=============================================================================
