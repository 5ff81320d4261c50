------------------------- MODULE SourceStreamProofs -------------------------
(* Proofs about SourceStream, for every set of application threads and     *)
(* every number of buffers.  The inductive invariant has five parts: the   *)
(* types, the lock, the samples, the command handshake, and the stream as  *)
(* downstream sees it.                                                     *)
EXTENDS SourceStream, MemAllocatorProofs

-----------------------------------------------------------------------------
(* Where the worker is. *)

HasSample == {"state", "poll", "capture", "time", "throttle", "stamp", "deliver", "release"}
Loop == HasSample \cup {"check", "getbuffer", "semwait", "eos", "abort"}

\* What the worker does about a command: where it takes it, where it goes on
\* after the reply, and where it may be when the caller has the reply.
Takes == [cmd \in Command |->
            CASE cmd = "INIT" -> {"init"}
              [] cmd = "STOP" -> Loop \cup {"request"}
              [] OTHER        -> {"request"}]
Then  == [cmd \in Command |->
            CASE cmd = "PAUSE" -> "check" [] cmd = "EXIT" -> "exit" [] OTHER -> "request"]
After == [cmd \in Command |->
            CASE cmd = "PAUSE" -> Loop \cup {"request"}
              [] cmd = "EXIT"  -> {"exit", "none"}
              [] OTHER         -> {"request"}]

-----------------------------------------------------------------------------
(* The parts of the invariant. *)

Counted == 0 .. FrameCap

Types ==
    /\ ThreadTypeOK
    /\ m_State \in {"Stopped", "Paused", "Running"}
    /\ m_pLock \in Clients \cup {Nobody}
    /\ m_Connected \in BOOLEAN
    /\ m_pClock \in BOOLEAN
    /\ formattype \in {"VideoInfo", "other"}
    /\ m_iFrameNumber \in Counted
    /\ pc \in [Clients -> ClientLabel]
    /\ op \in [Clients -> {"Pause", "Run", "Stop"}]
    /\ want \in [Clients -> Command]
    /\ wpc \in WorkerLabel
    /\ wthen \in WorkerLabel
    /\ wreply \in Result
    /\ discontinuity \in BOOLEAN
    /\ session \in {"closed", "open", "ended"}
    /\ delivered \in Counted
    /\ credit \in BOOLEAN

\* The worker has a sample exactly between GetBuffer and its Release, and every
\* sample that is out is with the worker or downstream.
Samples ==
    /\ sample # NoSample <=> wpc \in HasSample
    /\ Outstanding = ({sample} \cup downstream) \ {NoSample}
    /\ NoSample \notin downstream

\* The thread is not there, or it is there and no command is under way.
Absent ==
    /\ wpc = "none" /\ ~m_hThread
    /\ ~m_EventSend /\ ~m_EventComplete
Working ==
    /\ wpc \in Loop \cup {"request"} /\ m_hThread
    /\ ~m_EventSend /\ ~m_EventComplete

\* A command of client c is posted, being answered, answered.
Posted(c) ==
    /\ m_EventSend /\ ~m_EventComplete /\ m_dwParam = want[c]
    /\ \/ wpc \in Takes[want[c]]
       \/ wpc = "reply" /\ wreply = "S_OK" /\ wthen = Then[want[c]]
Answering(c) ==
    /\ ~m_EventSend /\ ~m_EventComplete /\ m_dwParam = want[c]
    /\ wpc = "complete" /\ wreply = "S_OK" /\ wthen = Then[want[c]]
    /\ m_dwReturnVal = "S_OK"
Answered(c) ==
    /\ ~m_EventSend /\ m_EventComplete /\ m_dwParam = want[c]
    /\ wpc \in After[want[c]]
    /\ m_dwReturnVal = "S_OK"

\* What a client's command has to do with its method and the filter's state.
Purpose(c) ==
    IF want[c] \in {"INIT", "PAUSE"} THEN op[c] # "Stop" /\ m_State = "Stopped"
                                     ELSE op[c] = "Stop" /\ m_State # "Stopped"

Phase(c) ==
    /\ pc[c] = "commit" => Absent /\ m_State = "Stopped" /\ m_Connected /\ op[c] # "Stop"
    /\ pc[c] = "create" => Absent /\ m_State = "Stopped" /\ m_Connected /\ op[c] # "Stop"
    /\ pc[c] = "post" => /\ m_Connected /\ m_hThread /\ Purpose(c)
                         /\ ~m_EventSend /\ ~m_EventComplete
                         /\ wpc \in Takes[want[c]]
    /\ pc[c] = "wait" => /\ m_Connected /\ m_hThread /\ Purpose(c)
                         /\ Posted(c) \/ Answering(c) \/ Answered(c)
    /\ pc[c] \in {"paused", "running"} =>
           /\ op[c] # "Stop"
           /\ IF m_Connected THEN Working ELSE Absent
    /\ pc[c] = "running" => op[c] = "Run" /\ m_State # "Stopped"
    /\ pc[c] = "decommit" => Working /\ m_Connected /\ m_State # "Stopped" /\ op[c] = "Stop"
    /\ pc[c] \in {"close", "join"} =>
           /\ wpc \in {"exit", "none"} /\ (m_hThread <=> pc[c] = "close")
           /\ m_Connected /\ m_State # "Stopped" /\ op[c] = "Stop"
           /\ ~m_EventSend /\ ~m_EventComplete
    /\ pc[c] = "stopped" => Absent /\ op[c] = "Stop"

\* No method is running.
Settled == IF m_State # "Stopped" /\ m_Connected THEN Working ELSE Absent

Handshake ==
    /\ m_pLock = Nobody => Settled
    /\ \A c \in Clients : m_pLock = c => Phase(c)

\* The stream downstream sees.
Streams ==
    /\ wpc \in {"none", "init"} => session = "closed"
    /\ wpc \in Loop =>
           (session = "open" <=> ~(wpc = "release" /\ wthen = "request"))
    /\ wpc \in {"request", "exit"} => session # "open"
    /\ wpc \in {"reply", "complete"} => (session = "open" <=> wthen = "check")
    /\ wpc = "release" => wthen \in {"check", "eos", "abort", "request"}
    /\ wpc \in {"reply", "complete"} => wthen \in {"request", "check", "exit"}

\* From OnThreadCreate to CMD_PAUSE no frame has been counted.
StartsFrom(c) ==
    /\ pc[c] \in {"post", "wait"}
    /\ \/ want[c] = "INIT" /\ wpc # "init"
       \/ want[c] = "PAUSE" /\ wpc = "request" /\ ~m_EventComplete

\* The stream downstream sees is closed until CMD_PAUSE is taken.
Opening ==
    session = "closed" <=> wpc \in {"none", "init"} \/ \E c \in Clients : StartsFrom(c)

\* The frames the stream is made of.
FrameRegion == {"capture", "time", "throttle", "stamp", "deliver"}
Frames ==
    /\ m_State = "Running" => credit
    /\ wpc \in FrameRegion => credit
    /\ wpc \in Loop /\ wpc # "deliver" => m_iFrameNumber = delivered
    /\ wpc = "deliver" => /\ m_iFrameNumber = Count(delivered)
                          /\ discontinuity <=> delivered = 0
    /\ wpc \in {"reply", "complete"} /\ wthen = "check" => delivered = 0 /\ m_iFrameNumber = 0
    /\ \A c \in Clients : StartsFrom(c) => m_iFrameNumber = 0

Inv ==
    /\ Types /\ LockOwner
    /\ AllocInv /\ Samples
    /\ DisconnectedIsDecommitted
    /\ Handshake
    /\ Streams
    /\ Opening
    /\ Frames

-----------------------------------------------------------------------------
(* Types. *)

\* Counting stays within the cap.
LEMMA CountIsCounted == 0 \in Counted /\ \A n \in Counted : Count(n) \in Counted
BY DEF Counted, Count, FrameCap

\* Every step keeps the types.
LEMMA TypesStep == Types /\ [Next]_vars => Types'
<1> SUFFICES ASSUME Types, [Next]_vars PROVE Types'
  OBVIOUS
<1> USE CountIsCounted DEF Types, ThreadTypeOK, ClientLabel, WorkerLabel, Command, Result, threadVars, filterVars, clientVars, workerVars, historyVars
<1>1. CASE \E c \in Clients : BeginPause(c)
  BY <1>1 DEF BeginPause, Begin, EnterLock
<1>2. CASE \E c \in Clients : BeginRun(c)
  BY <1>2 DEF BeginRun, Begin, EnterLock
<1>3. CASE \E c \in Clients : BeginStop(c)
  BY <1>3 DEF BeginStop, Begin, EnterLock
<1>4. CASE \E c \in Clients : ActiveCommit(c)
  BY <1>4 DEF ActiveCommit, Goto, Return
<1>5. CASE \E c \in Clients : ActiveCreate(c)
  BY <1>5 DEF ActiveCreate, Create, CallWorker, Goto
<1>6. CASE \E c \in Clients : ActiveCreateFails(c)
  BY <1>6 DEF ActiveCreateFails, Return, Goto
<1>7. CASE \E c \in Clients : Post(c)
  <2>1. m_EventSend' \in BOOLEAN
    BY <1>7, Zenon DEF Post, SendRequest
  <2>2. pc' \in [Clients -> ClientLabel] /\ m_pLock' \in Clients \cup {Nobody}
    BY <1>7 DEF Post, CallFailed, Return, Goto
  <2> QED
    BY <1>7, <2>1, <2>2 DEF Post, SendRequest
<1>8. CASE \E c \in Clients : WaitReply(c)
  <2>1. PICK c \in Clients : WaitReply(c)
    BY <1>8
  <2>2. m_EventComplete' \in BOOLEAN
    BY <2>1, Zenon DEF WaitReply, TakeReply
  <2>3. pc' \in [Clients -> ClientLabel] /\ want' \in [Clients -> Command]
    BY <2>1 DEF WaitReply, Continue, CallFailed, CallWorker, Goto, Return
  <2>4. m_pLock' \in Clients \cup {Nobody}
    BY <2>1 DEF WaitReply, CallFailed, Return
  <2> QED
    BY <2>1, <2>2, <2>3, <2>4 DEF WaitReply, TakeReply
<1>9. CASE \E c \in Clients : EnterPaused(c)
  BY <1>9 DEF EnterPaused, Goto, Return
<1>10. CASE \E c \in Clients : EnterRunning(c)
  BY <1>10 DEF EnterRunning, Goto, Return
<1>11. CASE \E c \in Clients : InactiveDecommit(c)
  BY <1>11 DEF InactiveDecommit, CallWorker, Goto
<1>12. CASE \E c \in Clients : InactiveClose(c)
  <2>1. m_hThread' \in BOOLEAN
    BY <1>12, Zenon DEF InactiveClose, TakeHandle, Goto
  <2> QED
    BY <1>12, <2>1 DEF InactiveClose, TakeHandle, Goto
<1>13. CASE \E c \in Clients : InactiveJoin(c)
  BY <1>13 DEF InactiveJoin, Goto
<1>14. CASE \E c \in Clients : EnterStopped(c)
  BY <1>14 DEF EnterStopped, Goto, Return
<1>15. CASE Connect
  BY <1>15 DEF Connect
<1>16. CASE Disconnect
  <2>1. m_Connected' \in BOOLEAN
    BY <1>16, Zenon DEF Disconnect
  <2> QED
    BY <1>16, <2>1 DEF Disconnect
<1>17. CASE SetSyncSource
  BY <1>17 DEF SetSyncSource
<1>18. CASE GetStreamCaps
  BY <1>18 DEF GetStreamCaps
<1>19. CASE WInit
  BY <1>19 DEF WInit, ReplyThen
<1>20. CASE WRequest
  <2>1. credit' \in BOOLEAN
    BY <1>20, Zenon DEF WRequest
  <2>2. session' \in {"closed", "open", "ended"} /\ delivered' \in Counted
    BY <1>20 DEF WRequest
  <2>3. wpc' \in WorkerLabel /\ wreply' \in Result /\ wthen' \in WorkerLabel
    BY <1>20 DEF WRequest, ReplyThen
  <2> QED
    BY <1>20, <2>1, <2>2, <2>3 DEF WRequest
<1>21. CASE WReply
  <2>1. m_EventSend' \in BOOLEAN
    BY <1>21, Zenon DEF WReply, WithdrawRequest, WGoto
  <2> QED
    BY <1>21, <2>1 DEF WReply, WithdrawRequest, WGoto
<1>22. CASE WComplete
  BY <1>22 DEF WComplete, SignalComplete, WGoto
<1>23. CASE WExit
  BY <1>23 DEF WExit, WGoto
<1>24. CASE WCheck
  BY <1>24 DEF WCheck, WGoto, ReplyThen
<1>25. CASE WGetBuffer
  BY <1>25 DEF WGetBuffer, WGoto
<1>26. CASE WSemWait
  BY <1>26 DEF WSemWait, WGoto
<1>27. CASE WRelease
  BY <1>27 DEF WRelease, WGoto
<1>28. CASE WEndOfStream
  BY <1>28 DEF WEndOfStream, WGoto
<1>29. CASE WAbort
  BY <1>29 DEF WAbort, WGoto
<1>30. CASE WState
  BY <1>30 DEF WState, WGoto
<1>31. CASE WPoll
  BY <1>31 DEF WPoll, WGoto, ReleaseThen
<1>32. CASE WCapture
  BY <1>32 DEF WCapture, WGoto, ReleaseThen
<1>33. CASE WTime
  BY <1>33 DEF WTime, WGoto
<1>34. CASE WThrottle
  BY <1>34 DEF WThrottle, WGoto
<1>35. CASE WStamp
  BY <1>35 DEF WStamp, WGoto
<1>36. CASE WDeliver
  BY <1>36 DEF WDeliver, ReleaseThen
<1>37. CASE WThrottleAgain \/ UNCHANGED vars
  BY <1>37 DEF WThrottleAgain, vars
<1>38. CASE \E s \in Sample : DownstreamRelease(s)
  BY <1>38 DEF DownstreamRelease
<1> QED
  BY <1>1, <1>2, <1>3, <1>4, <1>5, <1>6, <1>7, <1>8, <1>9, <1>10, <1>11, <1>12, <1>13, <1>14, <1>15, <1>16, <1>17, <1>18, <1>19, <1>20, <1>21, <1>22, <1>23, <1>24, <1>25, <1>26, <1>27, <1>28, <1>29, <1>30, <1>31, <1>32, <1>33, <1>34, <1>35, <1>36, <1>37, <1>38 DEF Next, ClientStep, WorkerStep

-----------------------------------------------------------------------------
(* The lock. *)

\* The worker and the downstream filter leave the clients alone.
LEMMA WorkerFrame ==
    ASSUME WorkerStep \/ WThrottleAgain \/ (\E s \in Sample : DownstreamRelease(s))
    PROVE  UNCHANGED << pc, op, want, m_pLock, m_State, m_Connected >>
BY DEF WorkerStep, filterVars, clientVars, vars, WThrottleAgain, DownstreamRelease,
       WInit, WRequest, WReply, WComplete, WExit, WCheck, WGetBuffer, WSemWait, WRelease,
       WEndOfStream, WAbort, WState, WPoll, WCapture, WTime, WThrottle, WStamp, WDeliver

\* After a successful reply the client goes on.
LEMMA ContinueGoesOn ==
    ASSUME NEW c \in Clients, want \in [Clients -> Command], Continue(c)
    PROVE  \E x \in ClientLabel \ {"idle"} : pc' = [pc EXCEPT ![c] = x]
BY DEF Continue, Command, CallWorker, Goto, ClientLabel

\* Every step keeps the lock with the client inside a method.
LEMMA LockStep == Types /\ LockOwner /\ [Next]_vars => LockOwner'
<1> SUFFICES ASSUME Types, LockOwner, [Next]_vars PROVE LockOwner'
  OBVIOUS
<1>0. pc \in [Clients -> ClientLabel] /\ want \in [Clients -> Command]
  BY DEF Types
<1> USE <1>0, NobodyAssumption DEF LockOwner
<1>1. CASE \E c \in Clients : BeginPause(c) \/ BeginRun(c) \/ BeginStop(c)
  BY <1>1 DEF BeginPause, BeginRun, BeginStop, Begin, EnterLock
<1>2. CASE \E c \in Clients : ClientStep(c)
  <2>1. PICK c \in Clients : ClientStep(c)
    BY <1>2
  <2>2. pc[c] # "idle" /\ m_pLock = c
    BY <2>1 DEF ClientStep, ActiveCommit, ActiveCreate, ActiveCreateFails, Post, WaitReply,
                EnterPaused, EnterRunning, InactiveDecommit, InactiveClose, InactiveJoin,
                EnterStopped
  <2>3. CASE m_pLock' = Nobody /\ pc' = [pc EXCEPT ![c] = "idle"]
    BY <2>2, <2>3
  <2>4. CASE m_pLock' = m_pLock
             /\ \E x \in ClientLabel \ {"idle"} : pc' = [pc EXCEPT ![c] = x]
    BY <2>2, <2>4
  <2>5. CASE WaitReply(c)
    BY <2>3, <2>4, <2>5, ContinueGoesOn DEF WaitReply, CallFailed, Return, Goto, ClientLabel
  <2>6. CASE Post(c)
    BY <2>3, <2>4, <2>6 DEF Post, CallFailed, Return, Goto, ClientLabel
  <2> QED
    BY <2>1, <2>3, <2>4, <2>5, <2>6
       DEF ClientStep, ActiveCommit, ActiveCreate, ActiveCreateFails, CallWorker,
           EnterPaused, EnterRunning, InactiveDecommit, InactiveClose, InactiveJoin,
           EnterStopped, Goto, Return, ClientLabel, filterVars
<1>3. CASE Connect \/ Disconnect \/ SetSyncSource \/ GetStreamCaps \/ UNCHANGED vars
  BY <1>3 DEF Connect, Disconnect, SetSyncSource, GetStreamCaps, vars, clientVars, filterVars
<1>4. CASE WorkerStep \/ WThrottleAgain \/ (\E s \in Sample : DownstreamRelease(s))
  BY <1>4, WorkerFrame
<1> QED
  BY <1>1, <1>2, <1>3, <1>4 DEF Next

-----------------------------------------------------------------------------
(* The samples. *)

\* A client's step does not touch the samples; only ActiveCreate, and only the
\* place of the worker, which does not exist before.
LEMMA ClientFrame ==
    ASSUME NEW c \in Clients, ClientStep(c)
    PROVE  /\ UNCHANGED << sample, downstream, wthen, wreply, discontinuity >>
           /\ UNCHANGED wpc \/ (pc[c] = "create" /\ wpc' = "init")
BY DEF ClientStep, ActiveCommit, ActiveCreate, ActiveCreateFails, Post, WaitReply, EnterPaused,
       EnterRunning, InactiveDecommit, InactiveClose, InactiveJoin, EnterStopped, workerVars

\* Whoever is inside a method has the lock, and is where the handshake says.
LEMMA Holder ==
    ASSUME LockOwner, Handshake, NEW c \in Clients, pc[c] # "idle"
    PROVE  m_pLock = c /\ Phase(c)
BY DEF LockOwner, Handshake

\* Steps that touch neither samples nor allocator keep the sample accounts.
LEMMA SamplesStay ==
    ASSUME AllocInv, Samples, UNCHANGED << sample, downstream >>,
           wpc' \in HasSample <=> wpc \in HasSample,
           \/ Commit \/ CommitFails \/ Decommit \/ GetRejected \/ GetMustWait \/ SemWait
           \/ UNCHANGED allocVars \/ \E n \in 0 .. MaxCount : SetProperties(n)
    PROVE  Samples'
BY OutstandingStays DEF Samples

\* Every step keeps the allocator's invariant and the place of every sample.
LEMMA SamplesStep == Inv /\ [Next]_vars => AllocInv' /\ Samples'
<1> SUFFICES ASSUME Inv, [Next]_vars PROVE AllocInv' /\ Samples'
  OBVIOUS
<1>0. Types /\ AllocInv /\ Samples /\ Streams /\ LockOwner /\ Handshake
  BY DEF Inv
<1>1. CASE \E c \in Clients : BeginPause(c) \/ BeginRun(c) \/ BeginStop(c)
  <2>1. UNCHANGED allocVars /\ UNCHANGED << sample, downstream, wpc >>
    BY <1>1 DEF BeginPause, BeginRun, BeginStop, workerVars
  <2> QED
    BY <1>0, <2>1, AllocInvStutter, SamplesStay
<1>2. CASE \E c \in Clients : ClientStep(c)
  <2>1. PICK c \in Clients : ClientStep(c)
    BY <1>2
  <2>2. UNCHANGED << sample, downstream >>
    BY <2>1, ClientFrame
  <2>3. wpc' \in HasSample <=> wpc \in HasSample
    <3>1. pc[c] = "create" => wpc = "none"
      BY <1>0, Holder DEF Phase, Absent
    <3> QED
      BY <2>1, <3>1, ClientFrame DEF HasSample
  <2>4. Commit \/ CommitFails \/ Decommit \/ UNCHANGED allocVars
    BY <2>1 DEF ClientStep, ActiveCommit, ActiveCreate, ActiveCreateFails, Post, WaitReply,
                EnterPaused, EnterRunning, InactiveDecommit, InactiveClose, InactiveJoin,
                EnterStopped
  <2>5. AllocInv'
    BY <1>0, <2>4, CommitKeeps, CommitFailsKeeps, DecommitKeeps, AllocInvStutter
  <2> QED
    BY <1>0, <2>2, <2>3, <2>4, <2>5, SamplesStay
<1>3. CASE Connect
  <2>1. 1 \in 0 .. MaxCount /\ UNCHANGED << sample, wpc >>
    BY <1>3, MaxCountAssumption DEF Connect, workerVars
  <2>2. CASE SetProperties(1) /\ UNCHANGED downstream
    BY <1>0, <2>1, <2>2, SetPropertiesKeeps, SamplesStay
  <2>3. CASE CreateFor(1) /\ downstream' = {}
    <3>1. wpc = "none"
      BY <1>0, <1>3 DEF Connect, CanConnect, Handshake, Settled, Absent
    <3>2. sample = NoSample
      BY <1>0, <3>1 DEF Samples, HasSample
    <3>3. AllocInv' /\ Outstanding' = {}
      BY <2>1, <2>3, CreateForKeeps
    <3> QED
      BY <1>0, <2>1, <2>3, <3>1, <3>2, <3>3 DEF Samples, HasSample
  <2>4. CASE UNCHANGED << allocVars, downstream >>
    BY <1>0, <2>1, <2>4, AllocInvStutter, SamplesStay
  <2> QED
    BY <1>3, <2>2, <2>3, <2>4 DEF Connect, DecideAllocator
<1>4. CASE Disconnect
  <2>1. Decommit /\ UNCHANGED << sample, downstream, wpc >>
    BY <1>4 DEF Disconnect, workerVars
  <2> QED
    BY <1>0, <2>1, DecommitKeeps, SamplesStay
<1>5. CASE \/ SetSyncSource \/ GetStreamCaps \/ WThrottleAgain \/ UNCHANGED vars
           \/ WInit \/ WRequest \/ WReply \/ WExit \/ WCheck \/ WEndOfStream \/ WAbort
           \/ WState \/ WPoll \/ WCapture \/ WTime \/ WThrottle \/ WStamp
  <2>1. UNCHANGED allocVars /\ UNCHANGED << sample, downstream >>
    BY <1>5 DEF SetSyncSource, GetStreamCaps, WThrottleAgain, vars, workerVars, WInit, WRequest,
                WReply, WExit, WCheck, WEndOfStream, WAbort, WState, WPoll, WCapture, WTime,
                WThrottle, WStamp
  <2>2. ASSUME SetSyncSource \/ GetStreamCaps \/ WThrottleAgain \/ UNCHANGED vars
       PROVE  wpc' \in HasSample <=> wpc \in HasSample
    <3>1. UNCHANGED wpc
      BY <2>2 DEF SetSyncSource, GetStreamCaps, WThrottleAgain, vars, workerVars
    <3> QED
      BY <3>1
  <2>3. ASSUME WInit \/ WRequest \/ WReply \/ WExit \/ WCheck \/ WEndOfStream \/ WAbort
       PROVE  wpc' \in HasSample <=> wpc \in HasSample
    <3>1. wpc \notin HasSample
      BY <2>3 DEF WInit, WRequest, WReply, WExit, WCheck, WEndOfStream, WAbort, HasSample
    <3>2. wpc' \in {"reply", "complete", "none", "getbuffer", "request"}
      BY <1>0, <2>3 DEF Types, ThreadTypeOK, Command, WInit, WRequest, WReply, WExit, WCheck,
                        WEndOfStream, WAbort, WGoto, ReplyThen
    <3> QED
      BY <3>1, <3>2 DEF HasSample
  <2>4. ASSUME WState \/ WPoll \/ WCapture \/ WTime \/ WThrottle \/ WStamp
       PROVE  wpc' \in HasSample <=> wpc \in HasSample
    <3>1. wpc \in HasSample
      BY <2>4 DEF WState, WPoll, WCapture, WTime, WThrottle, WStamp, HasSample
    <3>2. wpc' \in HasSample
      BY <2>4 DEF WState, WPoll, WCapture, WTime, WThrottle, WStamp, WGoto, ReleaseThen,
                  HasSample
    <3> QED
      BY <3>1, <3>2
  <2>5. wpc' \in HasSample <=> wpc \in HasSample
    BY <1>5, <2>2, <2>3, <2>4
  <2> QED
    BY <1>0, <2>1, <2>5, AllocInvStutter, SamplesStay
<1>6. CASE WComplete
  <2>1. UNCHANGED allocVars /\ UNCHANGED << sample, downstream >>
    BY <1>6 DEF WComplete
  <2>2. wpc \notin HasSample /\ wpc' \notin HasSample
    BY <1>0, <1>6 DEF WComplete, WGoto, Streams, HasSample
  <2> QED
    BY <1>0, <2>1, <2>2, AllocInvStutter, SamplesStay
<1>7. CASE WGetBuffer
  <2>1. wpc = "getbuffer" /\ UNCHANGED downstream
    BY <1>7 DEF WGetBuffer
  <2>2. sample = NoSample
    BY <1>0, <2>1 DEF Samples, HasSample
  <2>3. CASE GetRejected /\ WGoto("check") /\ UNCHANGED sample
    <3>1. wpc' \in HasSample <=> wpc \in HasSample
      BY <2>1, <2>3 DEF WGoto, HasSample
    <3>2. AllocInv'
      BY <1>0, <2>3, AllocInvStutter DEF GetRejected
    <3> QED
      BY <1>0, <2>1, <2>3, <3>1, <3>2, SamplesStay
  <2>5. CASE GetMustWait /\ WGoto("semwait") /\ UNCHANGED sample
    <3>1. wpc' \in HasSample <=> wpc \in HasSample
      BY <2>1, <2>5 DEF WGoto, HasSample
    <3>2. AllocInv'
      BY <1>0, <2>5, GetMustWaitKeeps
    <3> QED
      BY <1>0, <2>1, <2>5, <3>1, <3>2, SamplesStay
  <2>4. CASE \E s \in m_lFree : GetTakes(s) /\ sample' = s /\ WGoto("state")
    <3>1. PICK s \in m_lFree : GetTakes(s) /\ sample' = s /\ WGoto("state")
      BY <2>4
    <3>2. Outstanding' = Outstanding \cup {s} /\ s # NoSample
      BY <1>0, <3>1, OutstandingGrows DEF Sample, NoSample
    <3>3. wpc' \in HasSample
      BY <3>1 DEF WGoto, HasSample
    <3> QED
      BY <1>0, <2>1, <2>2, <3>1, <3>2, <3>3, GetTakesKeeps DEF Samples
  <2> QED
    BY <1>7, <2>3, <2>4, <2>5 DEF WGetBuffer
<1>8. CASE WSemWait
  <2>1. SemWait /\ UNCHANGED << sample, downstream >>
        /\ (wpc' \in HasSample <=> wpc \in HasSample)
    BY <1>8 DEF WSemWait, WGoto, HasSample
  <2> QED
    BY <1>0, <2>1, SemWaitKeeps, SamplesStay
<1>9. CASE WRelease
  <2>1. wpc = "release" /\ sample' = NoSample /\ UNCHANGED downstream /\ wpc' = wthen
        /\ IF sample \in downstream THEN UNCHANGED allocVars ELSE ReleaseBuffer(sample)
    BY <1>9 DEF WRelease, WGoto
  <2>2. wpc' \notin HasSample
    BY <1>0, <2>1 DEF Streams, Loop, HasSample
  <2>3. sample # NoSample
    BY <1>0, <2>1 DEF Samples, HasSample
  <2>4. CASE sample \in downstream
    BY <1>0, <2>1, <2>2, <2>3, <2>4, AllocInvStutter, OutstandingStays DEF Samples
  <2>5. CASE sample \notin downstream
    <3>1. sample \in Outstanding
      BY <1>0, <2>3 DEF Samples
    <3> QED
      BY <1>0, <2>1, <2>2, <2>5, <3>1, ReleaseBufferKeeps, OutstandingShrinks DEF Samples
  <2> QED
    BY <2>4, <2>5
<1>10. CASE WDeliver
  <2>1. UNCHANGED allocVars /\ UNCHANGED sample /\ downstream' \in {downstream, downstream \cup {sample}}
        /\ wpc = "deliver" /\ wpc' = "release"
    BY <1>10 DEF WDeliver, ReleaseThen
  <2>2. sample # NoSample /\ wpc' \in HasSample
    BY <1>0, <2>1 DEF Samples, HasSample
  <2> QED
    BY <1>0, <2>1, <2>2, AllocInvStutter, OutstandingStays DEF Samples
<1>11. CASE \E s \in Sample : DownstreamRelease(s)
  <2>1. PICK s \in downstream : /\ downstream' = downstream \ {s}
                                /\ UNCHANGED << sample, wpc >>
                                /\ IF s = sample THEN UNCHANGED allocVars ELSE ReleaseBuffer(s)
    BY <1>11 DEF DownstreamRelease, workerVars
  <2>2. s # NoSample /\ s \in Outstanding
    BY <1>0, <2>1 DEF Samples
  <2>3. CASE s = sample
    BY <1>0, <2>1, <2>2, <2>3, AllocInvStutter, OutstandingStays DEF Samples
  <2>4. CASE s # sample
    BY <1>0, <2>1, <2>2, <2>4, ReleaseBufferKeeps, OutstandingShrinks DEF Samples
  <2> QED
    BY <2>3, <2>4
<1> QED
  BY <1>1, <1>2, <1>3, <1>4, <1>5, <1>6, <1>7, <1>8, <1>9, <1>10, <1>11 DEF Next, WorkerStep

-----------------------------------------------------------------------------
(* The handshake. *)

\* Which commands there are.
LEMMA CommandTable ==
    /\ Takes["INIT"] = {"init"} /\ Takes["PAUSE"] = {"request"}
    /\ Takes["STOP"] = Loop \cup {"request"} /\ Takes["EXIT"] = {"request"}
    /\ Then["INIT"] = "request" /\ Then["PAUSE"] = "check"
    /\ Then["STOP"] = "request" /\ Then["EXIT"] = "exit"
    /\ After["INIT"] = {"request"} /\ After["PAUSE"] = Loop \cup {"request"}
    /\ After["STOP"] = {"request"} /\ After["EXIT"] = {"exit", "none"}
BY DEF Takes, Then, After, Command

\* The labels inside the buffer processing loop.
LEMMA LoopLabels ==
    Loop \cap {"none", "init", "request", "reply", "complete", "exit"} = {}
BY DEF Loop, HasSample

\* Whoever keeps or takes the lock owes its phase, whoever gives it up a
\* settled pin.
LEMMA HandshakeFrom ==
    ASSUME NEW c \in Clients,
           (m_pLock' = c /\ Phase(c)') \/ (m_pLock' = Nobody /\ Settled')
    PROVE  Handshake'
BY NobodyAssumption DEF Handshake

\* A posted request, and an answer under way, belong to a waiting client.
LEMMA Commanded ==
    ASSUME Types, LockOwner, Handshake, m_EventSend \/ wpc \in {"reply", "complete"}
    PROVE  \E c \in Clients : m_pLock = c /\ pc[c] = "wait" /\ (Posted(c) \/ Answering(c))
<1> USE CommandTable, LoopLabels
<1>1. m_pLock # Nobody
  BY DEF Handshake, Settled, Working, Absent
<1>2. PICK c \in Clients : m_pLock = c
  BY <1>1 DEF Types
<1>3. Phase(c) /\ pc[c] # "idle" /\ pc[c] \in ClientLabel /\ want[c] \in Command
  BY <1>2 DEF Handshake, LockOwner, Types
<1>4. pc[c] = "wait"
  BY <1>3 DEF Phase, Working, Absent, ClientLabel, Command
<1>5. ~Answered(c)
  BY <1>3 DEF Answered, Command
<1> QED
  BY <1>2, <1>3, <1>4, <1>5 DEF Phase

\* The worker's step, seen from a settled pin or from the one client inside.
LEMMA HandshakeByWorker ==
    ASSUME Types, LockOwner, Handshake, UNCHANGED << pc, op, want, m_pLock, m_State, m_Connected >>,
           Settled => Settled',
           \A c \in Clients : m_pLock = c /\ pc[c] # "idle" /\ Phase(c) => Phase(c)'
    PROVE  Handshake'
BY DEF Handshake, LockOwner

\* The loop goes from place to place without touching the handshake.
LEMMA HandshakeInLoop ==
    ASSUME Types, LockOwner, Handshake,
           UNCHANGED << pc, op, want, m_pLock, m_State, m_Connected >>,
           UNCHANGED threadVars, wpc \in Loop, wpc' \in Loop \cup {"request"}
    PROVE  Handshake'
<1> USE CommandTable, LoopLabels DEF threadVars
<1>1. Settled => Settled'
  BY DEF Settled, Working, Absent
<1>2. ASSUME NEW c \in Clients, m_pLock = c, pc[c] # "idle", Phase(c)
      PROVE  Phase(c)'
  <2>1. want[c] \in Command /\ pc[c] \in ClientLabel
    BY DEF Types
  <2>2. pc[c] \notin {"commit", "create", "close", "join", "stopped"}
    BY <1>2 DEF Phase, Absent
  <2>3. CASE pc[c] = "post"
    BY <1>2, <2>1, <2>3 DEF Phase, Purpose, Command
  <2>4. CASE pc[c] = "wait"
    <3>0. Posted(c) \/ Answering(c) \/ Answered(c)
      BY <1>2, <2>4 DEF Phase
    <3>3. Posted(c) => want[c] = "STOP"
      BY <2>1 DEF Posted, Command
    <3>4. ~Answering(c)
      BY DEF Answering
    <3>5. Answered(c) => want[c] = "PAUSE"
      BY <2>1 DEF Answered, Command
    <3>1. (Posted(c) /\ want[c] = "STOP") \/ (Answered(c) /\ want[c] = "PAUSE")
      BY <3>0, <3>3, <3>4, <3>5
    <3>2. Posted(c)' \/ Answered(c)'
      BY <3>1 DEF Posted, Answered
    <3> QED
      BY <1>2, <2>4, <3>2 DEF Phase, Purpose
  <2>5. CASE pc[c] \in {"paused", "running", "decommit"}
    BY <1>2, <2>5 DEF Phase, Working, Absent
  <2> QED
    BY <2>1, <2>2, <2>3, <2>4, <2>5, <1>2 DEF ClientLabel
<1> QED
  BY <1>1, <1>2, HandshakeByWorker

\* In the loop only CMD_STOP is posted.
LEMMA OnlyStopInLoop ==
    ASSUME Types, LockOwner, Handshake, wpc \in Loop, m_EventSend
    PROVE  Requested("STOP")
<1>1. PICK c \in Clients : Posted(c) \/ Answering(c)
  BY Commanded
<1>2. want[c] \in Command
  BY DEF Types
<1> QED
  BY <1>1, <1>2, CommandTable, LoopLabels DEF Posted, Answering, Requested, Command

\* The worker takes, answers and completes the one command that is posted.
LEMMA HandshakeByAnswer ==
    ASSUME Types, LockOwner, Handshake, WInit \/ WRequest \/ WReply \/ WComplete
    PROVE  Handshake'
<1> USE CommandTable, LoopLabels DEF threadVars
<1>1. UNCHANGED << pc, op, want, m_pLock, m_State, m_Connected >>
  BY WorkerFrame DEF WorkerStep
<1>2. m_EventSend \/ wpc \in {"reply", "complete"}
  BY DEF WInit, WRequest, WReply, WComplete
<1>3. PICK c \in Clients : m_pLock = c /\ pc[c] = "wait" /\ (Posted(c) \/ Answering(c))
  BY <1>2, Commanded
<1>4. Phase(c) /\ want[c] \in Command
  BY <1>3 DEF Handshake, Types
<1>5. m_Connected /\ m_hThread /\ Purpose(c)
  BY <1>3, <1>4 DEF Phase
<1>6. Purpose(c)'
  BY <1>1, <1>5 DEF Purpose
<1>7. CASE WInit
  <2>1. Posted(c) /\ want[c] = "INIT"
    BY <1>3, <1>4, <1>7 DEF WInit, Posted, Answering, Command
  <2>2. UNCHANGED threadVars /\ wpc' = "reply" /\ wreply' = "S_OK" /\ wthen' = "request"
    BY <1>7, <2>1 DEF WInit, ReplyThen, Posted
  <2>3. Posted(c)' /\ m_hThread'
    BY <1>1, <1>5, <2>1, <2>2 DEF Posted
  <2> QED
    BY <1>1, <1>3, <1>5, <1>6, <2>3, HandshakeFrom DEF Phase
<1>8. CASE WRequest
  <2>1. Posted(c) /\ want[c] \in {"PAUSE", "STOP", "EXIT"} /\ m_dwParam = want[c]
    BY <1>3, <1>4, <1>8 DEF WRequest, Posted, Answering, Command
  <2>2. UNCHANGED threadVars /\ wpc' = "reply" /\ wreply' = "S_OK" /\ wthen' = Then[want[c]]
    BY <1>8, <2>1 DEF WRequest, ReplyThen
  <2>3. Posted(c)' /\ m_hThread'
    BY <1>1, <1>5, <2>1, <2>2 DEF Posted
  <2> QED
    BY <1>1, <1>3, <1>5, <1>6, <2>3, HandshakeFrom DEF Phase
<1>9. CASE WReply
  <2>1. Posted(c) /\ wreply = "S_OK" /\ wthen = Then[want[c]]
    BY <1>3, <1>4, <1>9 DEF WReply, Posted, Answering, Command
  <2>2. /\ ~m_EventSend' /\ m_dwReturnVal' = "S_OK"
        /\ UNCHANGED << m_hThread, m_EventComplete, m_dwParam, wthen, wreply >>
        /\ wpc' = "complete"
    BY <1>9, <2>1 DEF WReply, WithdrawRequest, WGoto
  <2>3. Answering(c)' /\ m_hThread'
    BY <1>1, <1>5, <2>1, <2>2 DEF Posted, Answering
  <2> QED
    BY <1>1, <1>3, <1>5, <1>6, <2>3, HandshakeFrom DEF Phase
<1>10. CASE WComplete
  <2>1. Answering(c)
    BY <1>3, <1>4, <1>10 DEF WComplete, Posted, Command
  <2>2. /\ m_EventComplete'
        /\ UNCHANGED << m_hThread, m_EventSend, m_dwParam, m_dwReturnVal >>
        /\ wpc' = wthen
    BY <1>10 DEF WComplete, SignalComplete, WGoto
  <2>3. Then[want[c]] \in After[want[c]]
    BY <1>4 DEF Command, Loop
  <2>4. Answered(c)' /\ m_hThread'
    BY <1>1, <1>5, <2>1, <2>2, <2>3 DEF Answering, Answered
  <2> QED
    BY <1>1, <1>3, <1>5, <1>6, <2>4, HandshakeFrom DEF Phase
<1> QED
  BY <1>7, <1>8, <1>9, <1>10

\* The thread ends after its answer to CMD_EXIT.
LEMMA HandshakeByExit ==
    ASSUME Types, LockOwner, Handshake, WExit
    PROVE  Handshake'
<1> USE CommandTable, LoopLabels DEF threadVars
<1>1. UNCHANGED << pc, op, want, m_pLock, m_State, m_Connected >>
  BY WorkerFrame DEF WorkerStep
<1>2. wpc = "exit" /\ wpc' = "none" /\ UNCHANGED threadVars
  BY DEF WExit, WGoto
<1>3. ~Settled
  BY <1>2 DEF Settled, Working, Absent
<1>4. ASSUME NEW c \in Clients, m_pLock = c, pc[c] # "idle", Phase(c)
      PROVE  Phase(c)'
  <2>1. want[c] \in Command /\ pc[c] \in ClientLabel
    BY DEF Types
  <2>2. pc[c] \in {"wait", "close", "join"}
    BY <1>2, <1>4, <2>1 DEF Phase, Absent, Working, ClientLabel, Command
  <2>3. CASE pc[c] = "wait"
    <3>1. Answered(c) /\ want[c] = "EXIT"
      BY <1>2, <1>4, <2>1, <2>3 DEF Phase, Posted, Answering, Answered, Command
    <3>2. Answered(c)'
      BY <1>1, <1>2, <3>1 DEF Answered
    <3> QED
      BY <1>1, <1>2, <1>4, <2>3, <3>2 DEF Phase, Purpose
  <2>4. CASE pc[c] \in {"close", "join"}
    BY <1>1, <1>2, <1>4, <2>4 DEF Phase
  <2> QED
    BY <2>2, <2>3, <2>4
<1> QED
  BY <1>1, <1>3, <1>4, HandshakeByWorker

\* DoBufferProcessingLoop, one step of it.
LoopStep ==
    \/ WCheck \/ WGetBuffer \/ WSemWait \/ WRelease \/ WEndOfStream \/ WAbort
    \/ WState \/ WPoll \/ WCapture \/ WTime \/ WThrottle \/ WStamp \/ WDeliver

\* It finds no command but CMD_STOP, and so it ends in the main loop.
LEMMA LoopStays ==
    ASSUME Types, LockOwner, Handshake, Streams, LoopStep
    PROVE  wpc \in Loop /\ wpc' \in Loop \cup {"request"} /\ UNCHANGED threadVars
<1>1. wpc \in Loop /\ UNCHANGED threadVars
  BY DEF LoopStep, WCheck, WGetBuffer, WSemWait, WRelease, WEndOfStream, WAbort, WState, WPoll,
         WCapture, WTime, WThrottle, WStamp, WDeliver, Loop, HasSample
<1>2. CASE WCheck
  <2>1. m_EventSend => Requested("STOP")
    BY <1>1, OnlyStopInLoop
  <2>2. wpc' \in {"getbuffer", "request"}
    BY <1>2, <2>1 DEF WCheck, WGoto
  <2> QED
    BY <1>1, <2>2 DEF Loop
<1>3. CASE WRelease
  BY <1>1, <1>3 DEF WRelease, WGoto, Streams, Loop
<1>4. CASE WGetBuffer \/ WSemWait \/ WEndOfStream \/ WAbort \/ WState \/ WPoll \/ WCapture
  BY <1>1, <1>4 DEF WGetBuffer, WSemWait, WEndOfStream, WAbort, WState, WPoll, WCapture,
                    WGoto, ReleaseThen, Loop, HasSample
<1>5. CASE WTime \/ WThrottle \/ WStamp \/ WDeliver
  BY <1>1, <1>5 DEF WTime, WThrottle, WStamp, WDeliver, WGoto, ReleaseThen, Loop, HasSample
<1> QED
  BY <1>2, <1>3, <1>4, <1>5 DEF LoopStep

\* A method begins.
LEMMA HandshakeByBegin ==
    ASSUME Types, Handshake, NEW c \in Clients, BeginPause(c) \/ BeginRun(c) \/ BeginStop(c)
    PROVE  Handshake'
<1>1. /\ m_pLock = Nobody /\ m_pLock' = c
      /\ UNCHANGED << m_State, m_Connected, want, wpc, wthen, wreply >> /\ UNCHANGED threadVars
  BY DEF BeginPause, BeginRun, BeginStop, Begin, EnterLock, workerVars
<1>2. Settled
  BY <1>1 DEF Handshake
<1>3. UNCHANGED << Absent, Working >>
  BY <1>1 DEF Absent, Working, threadVars
<1>4. pc \in [Clients -> ClientLabel] /\ op \in [Clients -> {"Pause", "Run", "Stop"}]
  BY DEF Types
<1>5. CASE BeginPause(c)
  <2>1. op'[c] = "Pause" /\ pc'[c] = IF ActivatesPin THEN "commit" ELSE "paused"
    BY <1>4, <1>5 DEF BeginPause, Begin
  <2>2. Phase(c)'
    BY <1>1, <1>2, <1>3, <2>1 DEF Phase, Settled, ActivatesPin
  <2> QED
    BY <1>1, <2>2, HandshakeFrom
<1>6. CASE BeginRun(c)
  <2>1. op'[c] = "Run" /\ pc'[c] = IF ActivatesPin THEN "commit"
                                   ELSE IF m_State = "Stopped" THEN "paused" ELSE "running"
    BY <1>4, <1>6 DEF BeginRun, Begin
  <2>2. Phase(c)'
    BY <1>1, <1>2, <1>3, <2>1 DEF Phase, Settled, ActivatesPin
  <2> QED
    BY <1>1, <2>2, HandshakeFrom
<1>7. CASE BeginStop(c)
  <2>1. op'[c] = "Stop"
        /\ pc'[c] = IF m_State # "Stopped" /\ m_Connected THEN "decommit" ELSE "stopped"
    BY <1>4, <1>7 DEF BeginStop, Begin
  <2>2. Phase(c)'
    BY <1>1, <1>2, <1>3, <2>1 DEF Phase, Settled
  <2> QED
    BY <1>1, <2>2, HandshakeFrom
<1> QED
  BY <1>5, <1>6, <1>7

\* A method goes on, one step of the client that is inside.
LEMMA HandshakeByClient ==
    ASSUME Types, LockOwner, Handshake, NEW c \in Clients, ClientStep(c)
    PROVE  Handshake'
<1> USE CommandTable, LoopLabels
<1>1. pc[c] # "idle" /\ m_pLock = c /\ Phase(c)
  <2>1. pc[c] # "idle"
    BY DEF ClientStep, ActiveCommit, ActiveCreate, ActiveCreateFails, Post, WaitReply,
           EnterPaused, EnterRunning, InactiveDecommit, InactiveClose, InactiveJoin, EnterStopped
  <2> QED
    BY <2>1, Holder
<1>2. /\ pc \in [Clients -> ClientLabel] /\ want \in [Clients -> Command]
      /\ op \in [Clients -> {"Pause", "Run", "Stop"}]
  BY DEF Types
<1>3. CASE ActiveCommit(c)
  <2>1. /\ UNCHANGED << op, m_State, m_Connected, wpc >> /\ UNCHANGED threadVars
        /\ Absent /\ m_State = "Stopped" /\ m_Connected /\ op[c] # "Stop"
    BY <1>1, <1>3 DEF ActiveCommit, Phase, workerVars
  <2>2. Absent'
    BY <2>1 DEF Absent, threadVars
  <2>3. CASE Goto(c, "create") /\ UNCHANGED m_pLock
    <3>1. pc'[c] = "create"
      BY <1>2, <2>3 DEF Goto
    <3> QED
      BY <1>1, <2>1, <2>2, <2>3, <3>1, HandshakeFrom DEF Phase
  <2>4. CASE Return(c)
    BY <2>1, <2>2, <2>4, HandshakeFrom DEF Return, Settled
  <2> QED
    BY <1>3, <2>3, <2>4 DEF ActiveCommit
<1>4. CASE ActiveCreate(c)
  <2>1. /\ UNCHANGED << op, m_State, m_Connected, m_pLock, m_EventSend, m_EventComplete >>
        /\ wpc' = "init" /\ m_hThread'
        /\ Absent /\ m_State = "Stopped" /\ m_Connected /\ op[c] # "Stop"
    BY <1>1, <1>4 DEF ActiveCreate, Create, Phase, filterVars
  <2>2. pc'[c] = "post" /\ want'[c] = "INIT"
    BY <1>2, <1>4 DEF ActiveCreate, CallWorker, Goto
  <2> QED
    BY <1>1, <2>1, <2>2, HandshakeFrom DEF Phase, Purpose, Absent
<1>5. CASE ActiveCreateFails(c)
  <2>1. /\ UNCHANGED << op, m_State, m_Connected, wpc >> /\ UNCHANGED threadVars
        /\ Absent /\ m_State = "Stopped" /\ m_pLock' = Nobody
    BY <1>1, <1>5 DEF ActiveCreateFails, Return, Phase, workerVars
  <2> QED
    BY <2>1, HandshakeFrom DEF Settled, Absent, threadVars
<1>6. CASE Post(c)
  <2>0. ThreadExists
    BY <1>1, <1>6 DEF Post, Phase, ThreadExists
  <2>1. /\ UNCHANGED << op, want, m_State, m_Connected, m_pLock, wpc, wthen, wreply >>
        /\ UNCHANGED << m_hThread, m_EventComplete >> /\ m_EventSend' /\ m_dwParam' = want[c]
    BY <1>6, <2>0 DEF Post, SendRequest, workerVars
  <2>2. pc'[c] = "wait" /\ pc[c] = "post"
    BY <1>2, <1>6, <2>0 DEF Post, Goto
  <2>3. Posted(c)'
    BY <1>1, <2>1, <2>2 DEF Phase, Posted
  <2> QED
    BY <1>1, <2>1, <2>2, <2>3, HandshakeFrom DEF Phase, Purpose
<1>8. CASE EnterPaused(c)
  <2>1. /\ UNCHANGED << op, m_Connected, wpc >> /\ UNCHANGED threadVars
        /\ m_State' = "Paused" /\ op[c] # "Stop" /\ IF m_Connected THEN Working ELSE Absent
    BY <1>1, <1>8 DEF EnterPaused, Phase, workerVars
  <2>2. UNCHANGED << Working, Absent >>
    BY <2>1 DEF Working, Absent, threadVars
  <2>3. CASE op[c] = "Run"
    <3>1. pc'[c] = "running" /\ UNCHANGED m_pLock
      BY <1>2, <1>8, <2>3 DEF EnterPaused, Goto
    <3> QED
      BY <1>1, <2>1, <2>2, <2>3, <3>1, HandshakeFrom DEF Phase
  <2>4. CASE op[c] # "Run"
    BY <1>8, <2>1, <2>2, <2>4, HandshakeFrom DEF EnterPaused, Return, Settled
  <2> QED
    BY <2>3, <2>4
<1>9. CASE EnterRunning(c)
  <2>1. /\ UNCHANGED << m_Connected, wpc >> /\ UNCHANGED threadVars
        /\ m_State' = "Running" /\ m_pLock' = Nobody /\ IF m_Connected THEN Working ELSE Absent
    BY <1>1, <1>9 DEF EnterRunning, Return, Phase, workerVars
  <2> QED
    BY <2>1, HandshakeFrom DEF Settled, Working, Absent, threadVars
<1>10. CASE InactiveDecommit(c)
  <2>1. /\ UNCHANGED << op, m_State, m_Connected, m_pLock, wpc >> /\ UNCHANGED threadVars
        /\ Working /\ m_Connected /\ m_State # "Stopped" /\ op[c] = "Stop"
    BY <1>1, <1>10 DEF InactiveDecommit, Phase, filterVars, workerVars
  <2>2. pc'[c] = "post" /\ want'[c] = "STOP"
    BY <1>2, <1>10, <2>1 DEF InactiveDecommit, ThreadExists, Working, CallWorker, Goto
  <2> QED
    BY <1>1, <2>1, <2>2, HandshakeFrom DEF Phase, Purpose, Working, threadVars
<1>11. CASE InactiveClose(c)
  <2>1. /\ UNCHANGED << op, m_State, m_Connected, m_pLock, wpc, m_EventSend, m_EventComplete >>
        /\ pc[c] = "close" /\ ~m_hThread'
    BY <1>11 DEF InactiveClose, TakeHandle, filterVars, workerVars
  <2>2. pc'[c] = "join"
    BY <1>2, <1>11 DEF InactiveClose, Goto
  <2> QED
    BY <1>1, <2>1, <2>2, HandshakeFrom DEF Phase
<1>12. CASE InactiveJoin(c)
  <2>1. /\ UNCHANGED << op, m_State, m_Connected, m_pLock, wpc >> /\ UNCHANGED threadVars
        /\ pc[c] = "join" /\ wpc = "none"
    BY <1>12 DEF InactiveJoin, filterVars, workerVars
  <2>2. pc'[c] = "stopped"
    BY <1>2, <1>12 DEF InactiveJoin, Goto
  <2> QED
    BY <1>1, <2>1, <2>2, HandshakeFrom DEF Phase, Absent, threadVars
<1>13. CASE EnterStopped(c)
  <2>1. /\ UNCHANGED wpc /\ UNCHANGED threadVars
        /\ Absent /\ m_State' = "Stopped" /\ m_pLock' = Nobody
    BY <1>1, <1>13 DEF EnterStopped, Return, Phase, workerVars
  <2> QED
    BY <2>1, HandshakeFrom DEF Settled, Absent, threadVars
<1>7. CASE WaitReply(c)
  <2>1. /\ pc[c] = "wait" /\ m_EventComplete /\ ~m_EventComplete'
        /\ UNCHANGED << op, m_State, m_Connected, wpc, wthen, wreply >>
        /\ UNCHANGED << m_hThread, m_EventSend, m_dwParam, m_dwReturnVal >>
    BY <1>7 DEF WaitReply, TakeReply, workerVars
  <2>2. Answered(c) /\ m_Connected /\ m_hThread /\ Purpose(c)
    BY <1>1, <2>1 DEF Phase, Posted, Answering
  <2>3. UNCHANGED m_pLock /\ Continue(c)
    BY <1>7, <2>2 DEF WaitReply, Answered
  <2>4. want[c] \in Command
    BY <1>2
  <2>5. CASE want[c] = "INIT"
    <3>1. pc'[c] = "post" /\ want'[c] = "PAUSE"
      BY <1>2, <2>3, <2>5 DEF Continue, CallWorker, Goto
    <3> QED
      BY <1>1, <2>1, <2>2, <2>3, <2>5, <3>1, HandshakeFrom DEF Phase, Purpose, Answered
  <2>6. CASE want[c] = "PAUSE"
    <3>1. pc'[c] = "paused" /\ UNCHANGED want
      BY <1>2, <2>3, <2>6 DEF Continue, Goto
    <3> QED
      BY <1>1, <2>1, <2>2, <2>3, <2>6, <3>1, HandshakeFrom DEF Phase, Purpose, Answered, Working
  <2>7. CASE want[c] = "STOP"
    <3>1. pc'[c] = "post" /\ want'[c] = "EXIT"
      BY <1>2, <2>3, <2>7 DEF Continue, CallWorker, Goto
    <3> QED
      BY <1>1, <2>1, <2>2, <2>3, <2>7, <3>1, HandshakeFrom DEF Phase, Purpose, Answered
  <2>8. CASE want[c] = "EXIT"
    <3>1. pc'[c] = "close" /\ UNCHANGED want
      BY <1>2, <2>3, <2>8 DEF Continue, Goto
    <3> QED
      BY <1>1, <2>1, <2>2, <2>3, <2>8, <3>1, HandshakeFrom DEF Phase, Purpose, Answered
  <2> QED
    BY <2>4, <2>5, <2>6, <2>7, <2>8 DEF Command
<1> QED
  BY <1>3, <1>4, <1>5, <1>6, <1>7, <1>8, <1>9, <1>10, <1>11, <1>12, <1>13 DEF ClientStep

\* Every step keeps the handshake between CallWorker and the worker in phase.
LEMMA HandshakeStep == Inv /\ [Next]_vars => Handshake'
<1> SUFFICES ASSUME Inv, [Next]_vars PROVE Handshake'
  OBVIOUS
<1>0. Types /\ LockOwner /\ Handshake /\ Streams
  BY DEF Inv
<1>1. CASE \E c \in Clients : BeginPause(c) \/ BeginRun(c) \/ BeginStop(c) \/ ClientStep(c)
  BY <1>0, <1>1, HandshakeByBegin, HandshakeByClient
<1>2. CASE Connect \/ Disconnect
  <2>1. /\ m_pLock = Nobody /\ m_State = "Stopped"
        /\ UNCHANGED << m_pLock, m_State, wpc >> /\ UNCHANGED threadVars
    BY <1>2 DEF Connect, CanConnect, Disconnect, workerVars
  <2>2. Absent
    BY <1>0, <2>1 DEF Handshake, Settled
  <2>3. Settled'
    BY <2>1, <2>2 DEF Settled, Absent, threadVars
  <2> QED
    BY <2>1, <2>3, NobodyAssumption DEF Handshake
<1>3. CASE SetSyncSource \/ GetStreamCaps \/ WThrottleAgain \/ UNCHANGED vars
           \/ \E s \in Sample : DownstreamRelease(s)
  <2>1. UNCHANGED << pc, op, want, m_pLock, m_State, m_Connected, wpc, wthen, wreply >>
        /\ UNCHANGED threadVars
    BY <1>3 DEF SetSyncSource, GetStreamCaps, WThrottleAgain, DownstreamRelease, vars,
                clientVars, workerVars, filterVars
  <2> QED
    BY <1>0, <2>1 DEF Handshake, Settled, Working, Absent, Phase, Purpose, Posted, Answering,
                      Answered, threadVars
<1>4. CASE LoopStep
  BY <1>0, <1>4, LoopStays, HandshakeInLoop, WorkerFrame DEF LoopStep, WorkerStep
<1>5. CASE WInit \/ WRequest \/ WReply \/ WComplete \/ WExit
  BY <1>0, <1>5, HandshakeByAnswer, HandshakeByExit
<1> QED
  BY <1>1, <1>2, <1>3, <1>4, <1>5 DEF Next, WorkerStep, LoopStep

-----------------------------------------------------------------------------
(* The allocator of a broken connection. *)

\* Only Commit commits.
LEMMA OnlyCommitCommits ==
    ASSUME \/ CommitFails \/ Decommit \/ GetRejected \/ GetMustWait \/ SemWait
           \/ \E s \in Sample : GetTakes(s) \/ ReleaseBuffer(s)
           \/ UNCHANGED allocVars \/ SetProperties(1)
    PROVE  m_bCommitted' => m_bCommitted
BY DEF CommitFails, Decommit, GetRejected, GetMustWait, SemWait, GetTakes, ReleaseBuffer,
       SetProperties, allocVars

\* Decommit does the opposite.
LEMMA DecommitDecommits == ASSUME Decommit PROVE ~m_bCommitted'
BY DEF Decommit, DecommitIsNoop, allocVars

\* Every step keeps a disconnected allocator decommitted.
LEMMA DecommittedStep == Inv /\ [Next]_vars => DisconnectedIsDecommitted'
<1> SUFFICES ASSUME Inv, [Next]_vars PROVE DisconnectedIsDecommitted'
  OBVIOUS
<1>0. AllocInv /\ Samples /\ LockOwner /\ Handshake /\ DisconnectedIsDecommitted
  BY DEF Inv
<1>1. CASE Connect
  <2>1. ~m_Connected /\ ~m_bCommitted
    BY <1>0, <1>1 DEF Connect, CanConnect, DisconnectedIsDecommitted
  <2>2. ~m_bCommitted'
    BY <1>1, <2>1 DEF Connect, DecideAllocator, SetProperties, CreateFor, allocVars
  <2> QED
    BY <2>2 DEF DisconnectedIsDecommitted
<1>2. CASE Disconnect
  BY <1>2, DecommitDecommits DEF Disconnect, DisconnectedIsDecommitted
<1>3. CASE \E c \in Clients : ActiveCommit(c)
  <2>1. m_Connected /\ UNCHANGED m_Connected
    BY <1>0, <1>3, Holder DEF ActiveCommit, Phase
  <2> QED
    BY <2>1 DEF DisconnectedIsDecommitted
<1>4. ASSUME UNCHANGED m_Connected, m_bCommitted' => m_bCommitted
      PROVE  DisconnectedIsDecommitted'
  BY <1>0, <1>4 DEF DisconnectedIsDecommitted
<1>5. CASE \E c \in Clients : BeginPause(c) \/ BeginRun(c) \/ BeginStop(c)
  BY <1>4, <1>5, OnlyCommitCommits DEF BeginPause, BeginRun, BeginStop
<1>6. CASE \E c \in Clients : ClientStep(c) /\ ~ActiveCommit(c)
  <2>1. UNCHANGED m_Connected
    BY <1>6 DEF ClientStep, ActiveCreate, ActiveCreateFails, Post, WaitReply, EnterPaused,
                EnterRunning, InactiveDecommit, InactiveClose, InactiveJoin, EnterStopped,
                filterVars
  <2>2. Decommit \/ UNCHANGED allocVars
    BY <1>6 DEF ClientStep, ActiveCreate, ActiveCreateFails, Post, WaitReply, EnterPaused,
                EnterRunning, InactiveDecommit, InactiveClose, InactiveJoin, EnterStopped
  <2> QED
    BY <1>4, <2>1, <2>2, OnlyCommitCommits
<1>7. CASE SetSyncSource \/ GetStreamCaps \/ WThrottleAgain \/ UNCHANGED vars
  BY <1>4, <1>7, OnlyCommitCommits
     DEF SetSyncSource, GetStreamCaps, WThrottleAgain, vars, filterVars
<1>8. CASE WorkerStep \/ \E s \in Sample : DownstreamRelease(s)
  <2>1. UNCHANGED m_Connected
    BY <1>8, WorkerFrame
  <2>2. downstream \subseteq Sample /\ (sample # NoSample => sample \in Sample)
    BY <1>0, MaxCountAssumption
       DEF Samples, Outstanding, Allocated, Sample, AllocInv, AllocNumbers
  <2>3. CASE WGetBuffer
    <3>1. m_lFree \subseteq Sample
      BY <1>0, MaxCountAssumption DEF AllocInv, AllocNumbers, Allocated, Sample
    <3> QED
      BY <1>4, <2>1, <2>3, <3>1, OnlyCommitCommits DEF WGetBuffer
  <2>4. CASE WRelease
    <3>1. sample \in Sample
      BY <1>0, <2>2, <2>4 DEF WRelease, Samples, HasSample
    <3> QED
      BY <1>4, <2>1, <2>4, <3>1, OnlyCommitCommits DEF WRelease
  <2>5. CASE \E s \in Sample : DownstreamRelease(s)
    BY <1>4, <2>1, <2>5, OnlyCommitCommits DEF DownstreamRelease
  <2>6. CASE WSemWait
    BY <1>4, <2>1, <2>6, OnlyCommitCommits DEF WSemWait
  <2>7. CASE WorkerStep /\ ~WGetBuffer /\ ~WRelease /\ ~WSemWait
    <3>1. UNCHANGED allocVars
      BY <2>7 DEF WorkerStep, WInit, WRequest, WReply, WComplete, WExit, WCheck, WEndOfStream,
                  WAbort, WState, WPoll, WCapture, WTime, WThrottle, WStamp, WDeliver
    <3> QED
      BY <1>4, <2>1, <3>1, OnlyCommitCommits
  <2> QED
    BY <1>8, <2>3, <2>4, <2>5, <2>6, <2>7
<1> QED
  BY <1>1, <1>2, <1>3, <1>5, <1>6, <1>7, <1>8 DEF Next

-----------------------------------------------------------------------------
(* The stream. *)

\* The clients do not touch it.
LEMMA StreamsByClient ==
    ASSUME LockOwner, Handshake, Streams, NEW c \in Clients, ClientStep(c)
    PROVE  Streams'
<1>1. UNCHANGED << session, wthen >> /\ (UNCHANGED wpc \/ (wpc' = "init" /\ pc[c] = "create"))
  BY ClientFrame DEF ClientStep, ActiveCommit, ActiveCreate, ActiveCreateFails, Post, WaitReply,
         EnterPaused, EnterRunning, InactiveDecommit, InactiveClose, InactiveJoin, EnterStopped,
         historyVars
<1>2. CASE UNCHANGED wpc
  BY <1>1, <1>2 DEF Streams
<1>3. CASE wpc' = "init" /\ pc[c] = "create"
  <2>1. wpc = "none"
    BY <1>3, Holder DEF Phase, Absent
  <2> QED
    BY <1>1, <1>3, <2>1, LoopLabels DEF Streams
<1> QED
  BY <1>1, <1>2, <1>3

\* What a posted command makes the worker do.
LEMMA StreamsByAnswer ==
    ASSUME Types, LockOwner, Handshake, Streams, WInit \/ WRequest \/ WReply \/ WComplete
    PROVE  Streams'
<1> USE LoopLabels
<1>1. PICK c \in Clients : m_pLock = c /\ pc[c] = "wait" /\ (Posted(c) \/ Answering(c))
  BY Commanded DEF WInit, WRequest, WReply, WComplete
<1>2. want[c] \in Command
  BY DEF Types
<1>3. CASE WInit
  <2>1. m_dwParam = "INIT"
    BY <1>1, <1>2, <1>3, CommandTable DEF WInit, Posted, Answering, Command
  <2>2. wpc = "init" /\ wpc' = "reply" /\ wthen' = "request" /\ UNCHANGED session
    BY <1>3, <2>1 DEF WInit, ReplyThen, historyVars
  <2> QED
    BY <2>2 DEF Streams
<1>4. CASE WRequest
  <2>1. m_dwParam \in {"PAUSE", "STOP", "EXIT"}
    BY <1>1, <1>2, <1>4, CommandTable DEF WRequest, Posted, Answering, Command
  <2>2. CASE m_dwParam = "PAUSE"
    <3>1. wpc' = "reply" /\ wthen' = "check" /\ session' = "open"
      BY <1>4, <2>2 DEF WRequest, ReplyThen
    <3> QED
      BY <3>1 DEF Streams
  <2>3. CASE m_dwParam \in {"STOP", "EXIT"}
    <3>1. wpc = "request" /\ wpc' = "reply" /\ wthen' \in {"request", "exit"} /\ UNCHANGED session
      BY <1>4, <2>3 DEF WRequest, ReplyThen, historyVars
    <3> QED
      BY <3>1 DEF Streams
  <2> QED
    BY <2>1, <2>2, <2>3
<1>5. CASE WReply
  <2>1. wpc = "reply" /\ wpc' = "complete" /\ UNCHANGED << wthen, session >>
    BY <1>5 DEF WReply, WGoto, historyVars
  <2> QED
    BY <2>1 DEF Streams
<1>6. CASE WComplete
  <2>1. wpc = "complete" /\ wpc' = wthen /\ UNCHANGED << wthen, session >>
    BY <1>6 DEF WComplete, WGoto, historyVars
  <2>2. wthen \in {"request", "check", "exit"} /\ (session = "open" <=> wthen = "check")
    BY <2>1 DEF Streams
  <2>3. wpc' \notin {"none", "init", "release", "reply", "complete"}
    BY <2>1, <2>2
  <2> QED
    BY <2>1, <2>2, <2>3 DEF Streams
<1> QED
  BY <1>3, <1>4, <1>5, <1>6

\* In the loop the stream is open until CMD_STOP, a refused frame or an error.
LEMMA StreamsInLoop ==
    ASSUME Types, LockOwner, Handshake, Streams, LoopStep
    PROVE  Streams'
<1> USE LoopLabels
<1>1. wpc \in Loop /\ wpc' \in Loop \cup {"request"}
  BY LoopStays
<1>2. session = "open" <=> ~(wpc = "release" /\ wthen = "request")
  BY <1>1 DEF Streams
\* Three ways to go on.
<1>3. ASSUME session' = "open", wpc' \in Loop \ {"release"}
      PROVE  Streams'
  BY <1>3 DEF Streams
<1>4. ASSUME session' = "open", wpc' = "release", wthen' \in {"check", "eos", "abort"}
      PROVE  Streams'
  BY <1>4 DEF Streams
<1>5. ASSUME session' # "open", wpc' = "request"
      PROVE  Streams'
  BY <1>5 DEF Streams
<1>6. CASE WCheck
  <2>1. m_EventSend => Requested("STOP")
    BY <1>1, OnlyStopInLoop
  <2>2. CASE ~m_EventSend
    <3>1. wpc = "check" /\ wpc' = "getbuffer" /\ UNCHANGED session
      BY <1>6, <2>2 DEF WCheck, WGoto, Requested
    <3> QED
      BY <1>2, <1>3, <3>1 DEF Loop
  <2>3. CASE m_EventSend
    <3>1. wpc' = "request" /\ session' = "ended"
      BY <1>6, <2>1, <2>3 DEF WCheck, WGoto, Requested
    <3> QED
      BY <1>5, <3>1
  <2> QED
    BY <2>2, <2>3
<1>7. CASE WRelease
  <2>1. wpc = "release" /\ wpc' = wthen /\ UNCHANGED session
    BY <1>7 DEF WRelease, WGoto, historyVars
  <2>2. wthen \in {"check", "eos", "abort", "request"}
    BY <2>1 DEF Streams
  <2>3. CASE wthen = "request"
    BY <1>2, <1>5, <2>1, <2>3
  <2>4. CASE wthen \in {"check", "eos", "abort"}
    BY <1>2, <1>3, <2>1, <2>4 DEF Loop
  <2> QED
    BY <2>2, <2>3, <2>4
<1>8. CASE WEndOfStream \/ WAbort
  <2>1. wpc' = "request" /\ session' = "ended"
    BY <1>8 DEF WEndOfStream, WAbort, WGoto
  <2> QED
    BY <1>5, <2>1
<1>9. CASE WGetBuffer \/ WSemWait \/ WState \/ WTime \/ WThrottle \/ WStamp
  <2>1. wpc # "release" /\ UNCHANGED session
    BY <1>9 DEF WGetBuffer, WSemWait, WState, WTime, WThrottle, WStamp, historyVars
  <2>2. wpc' \in Loop \ {"release"}
    BY <1>9 DEF WGetBuffer, WSemWait, WState, WTime, WThrottle, WStamp, WGoto, Loop, HasSample
  <2> QED
    BY <1>2, <1>3, <2>1, <2>2
<1>10. CASE WPoll \/ WCapture
  <2>1. wpc # "release" /\ UNCHANGED session
    BY <1>10 DEF WPoll, WCapture, historyVars
  <2>2. wpc' \in Loop \ {"release"} \/ (wpc' = "release" /\ wthen' \in {"eos", "abort"})
    BY <1>10 DEF WPoll, WCapture, WGoto, ReleaseThen, Loop, HasSample
  <2> QED
    BY <1>2, <1>3, <1>4, <2>1, <2>2
<1>11. CASE WDeliver
  <2>1. wpc = "deliver" /\ wpc' = "release"
    BY <1>11 DEF WDeliver, ReleaseThen
  <2>2. (wthen' = "check" /\ UNCHANGED session) \/ (wthen' = "request" /\ session' = "ended")
    BY <1>11 DEF WDeliver, ReleaseThen
  <2>3. CASE wthen' = "check" /\ UNCHANGED session
    BY <1>2, <1>4, <2>1, <2>3
  <2>4. CASE wthen' = "request" /\ session' = "ended"
    BY <2>1, <2>4 DEF Streams
  <2> QED
    BY <2>2, <2>3, <2>4
<1> QED
  BY <1>6, <1>7, <1>8, <1>9, <1>10, <1>11 DEF LoopStep

\* Every step keeps the worker, the session and the filter's state in phase.
LEMMA StreamsStep == Inv /\ [Next]_vars => Streams'
<1> SUFFICES ASSUME Inv, [Next]_vars PROVE Streams'
  OBVIOUS
<1>0. Types /\ LockOwner /\ Handshake /\ Streams
  BY DEF Inv
<1>1. CASE \E c \in Clients : ClientStep(c)
  BY <1>0, <1>1, StreamsByClient
<1>2. CASE \/ \E c \in Clients : BeginPause(c) \/ BeginRun(c) \/ BeginStop(c)
           \/ Connect \/ Disconnect \/ SetSyncSource \/ GetStreamCaps \/ WThrottleAgain
           \/ UNCHANGED vars \/ \E s \in Sample : DownstreamRelease(s)
  <2>1. UNCHANGED << session, wpc, wthen >>
    BY <1>2 DEF BeginPause, BeginRun, BeginStop, Connect, Disconnect, SetSyncSource,
                GetStreamCaps, WThrottleAgain, DownstreamRelease, vars, workerVars, historyVars
  <2> QED
    BY <1>0, <2>1 DEF Streams
<1>3. CASE WInit \/ WRequest \/ WReply \/ WComplete
  BY <1>0, <1>3, StreamsByAnswer
<1>4. CASE LoopStep
  BY <1>0, <1>4, StreamsInLoop
<1>5. CASE WExit
  BY <1>5, LoopLabels DEF WExit, WGoto, Streams
<1> QED
  BY <1>1, <1>2, <1>3, <1>4, <1>5 DEF Next, WorkerStep, LoopStep

-----------------------------------------------------------------------------
(* The frames. *)

\* Counting tells the first frame from the others.
LEMMA CountTells ==
    ASSUME NEW n \in Counted PROVE Count(n) <= 1 <=> n = 0
BY DEF Counted, Count, FrameCap

\* When the worker is in the loop the start is over.
LEMMA StartIsOver ==
    ASSUME Types, LockOwner, Handshake, wpc \in Loop, NEW c \in Clients,
           pc[c] \in {"post", "wait"}
    PROVE  want[c] # "INIT" /\ (want[c] = "PAUSE" => m_EventComplete)
<1>1. Phase(c) /\ want[c] \in Command
  BY Holder DEF Types
<1> QED
  BY <1>1, CommandTable, LoopLabels DEF Phase, Posted, Answering, Answered, Command

\* A client's step: counting starts over at Stop, credit is given at Run.
LEMMA FramesByClient ==
    ASSUME Types, LockOwner, Handshake, Frames, NEW c \in Clients, ClientStep(c), LockOwner'
    PROVE  Frames'
<1> USE LoopLabels
<1>1. pc[c] # "idle" /\ m_pLock = c /\ Phase(c)
  <2>1. pc[c] # "idle"
    BY DEF ClientStep, ActiveCommit, ActiveCreate, ActiveCreateFails, Post, WaitReply,
           EnterPaused, EnterRunning, InactiveDecommit, InactiveClose, InactiveJoin, EnterStopped
  <2> QED
    BY <2>1, Holder
<1>2. /\ UNCHANGED << wthen, discontinuity, delivered >>
      /\ UNCHANGED wpc \/ (pc[c] = "create" /\ wpc' = "init")
  BY ClientFrame DEF ClientStep, ActiveCommit, ActiveCreate, ActiveCreateFails, Post, WaitReply,
         EnterPaused, EnterRunning, InactiveDecommit, InactiveClose, InactiveJoin, EnterStopped,
         historyVars
<1>3. (m_State' = "Running" => credit') /\ (credit => credit')
  BY DEF ClientStep, ActiveCommit, ActiveCreate, ActiveCreateFails, Post, WaitReply,
         EnterPaused, EnterRunning, InactiveDecommit, InactiveClose, InactiveJoin, EnterStopped,
         historyVars, filterVars, Frames
<1>4. UNCHANGED m_iFrameNumber \/ (m_iFrameNumber' = 0 /\ wpc = "none" /\ UNCHANGED wpc)
  <2>1. CASE EnterStopped(c)
    BY <1>1, <2>1 DEF EnterStopped, Phase, Absent, workerVars
  <2>2. CASE ~EnterStopped(c)
    BY <2>2 DEF ClientStep, ActiveCommit, ActiveCreate, ActiveCreateFails, Post, WaitReply,
         EnterPaused, EnterRunning, InactiveDecommit, InactiveClose, InactiveJoin, filterVars
  <2> QED
    BY <2>1, <2>2
<1>5. /\ wpc' \in FrameRegion => credit'
      /\ wpc' \in Loop /\ wpc' # "deliver" => m_iFrameNumber' = delivered'
      /\ wpc' = "deliver" => /\ m_iFrameNumber' = Count(delivered')
                             /\ discontinuity' <=> delivered' = 0
      /\ wpc' \in {"reply", "complete"} /\ wthen' = "check"
            => delivered' = 0 /\ m_iFrameNumber' = 0
  BY <1>2, <1>3, <1>4 DEF Frames, FrameRegion
<1>6. ASSUME NEW d \in Clients, StartsFrom(d)'
      PROVE  m_iFrameNumber' = 0
  <2>1. pc \in [Clients -> ClientLabel] /\ want \in [Clients -> Command]
    BY DEF Types
  <2>2. d = c
    <3>1. pc'[d] # "idle" /\ m_pLock' = d
      BY <1>6 DEF StartsFrom, LockOwner
    <3>2. m_pLock' \in {c, Nobody}
      BY <1>1 DEF ClientStep, ActiveCommit, ActiveCreate, ActiveCreateFails, Post, WaitReply,
           EnterPaused, EnterRunning, InactiveDecommit, InactiveClose, InactiveJoin,
           EnterStopped, CallFailed, Return, filterVars
    <3> QED
      BY <3>1, <3>2, NobodyAssumption
  <2>3. pc'[c] \in {"post", "wait"}
    BY <1>6, <2>2 DEF StartsFrom
  <2>4. CASE ActiveCreate(c)
    BY <1>6, <2>1, <2>2, <2>4 DEF ActiveCreate, CallWorker, StartsFrom
  <2>5. CASE Post(c)
    <3>0. ThreadExists
      BY <1>1, <2>5 DEF Post, Phase, ThreadExists
    <3>1. StartsFrom(c)
      BY <1>6, <2>2, <2>5, <3>0 DEF Post, SendRequest, StartsFrom, workerVars
    <3> QED
      BY <2>5, <3>1 DEF Post, Frames, filterVars
  <2>6. CASE WaitReply(c)
    <3>1. pc[c] = "wait" /\ m_EventComplete /\ UNCHANGED << m_iFrameNumber, wpc >>
      BY <2>6 DEF WaitReply, TakeReply, workerVars
    <3>2. Answered(c)
      BY <1>1, <3>1 DEF Phase, Posted, Answering
    <3>3. Continue(c)
      BY <2>6, <3>2 DEF WaitReply, Answered
    <3>4. want[c] = "INIT"
      BY <1>6, <2>1, <2>2, <2>3, <3>3 DEF Continue, CallWorker, Goto, StartsFrom, Command
    <3>5. wpc = "request"
      BY <3>2, <3>4, CommandTable DEF Answered
    <3> QED
      BY <3>1, <3>4, <3>5 DEF StartsFrom, Frames
  <2>7. CASE InactiveDecommit(c)
    BY <1>6, <2>1, <2>2, <2>3, <2>7 DEF InactiveDecommit, CallWorker, Goto, StartsFrom
  <2>8. CASE ~ActiveCreate(c) /\ ~Post(c) /\ ~WaitReply(c) /\ ~InactiveDecommit(c)
    BY <2>1, <2>3, <2>8
       DEF ClientStep, ActiveCommit, ActiveCreateFails, EnterPaused, EnterRunning,
           InactiveClose, InactiveJoin, EnterStopped, Return, Goto
  <2> QED
    BY <2>4, <2>5, <2>6, <2>7, <2>8
<1> QED
  BY <1>3, <1>5, <1>6 DEF Frames

\* A command: CMD_INIT starts the count, CMD_PAUSE finds it at zero.
LEMMA FramesByAnswer ==
    ASSUME Types, LockOwner, Handshake, Streams, Frames,
           WInit \/ WRequest \/ WReply \/ WComplete \/ WExit
    PROVE  Frames'
<1> USE LoopLabels
<1>1. UNCHANGED << pc, op, want, m_pLock, m_State, m_Connected >>
  BY WorkerFrame DEF WorkerStep
<1>2. want \in [Clients -> Command]
  BY DEF Types
<1>3. CASE WInit
  <2>1. /\ UNCHANGED << delivered, credit >> /\ wpc = "init" /\ wpc' = "reply"
    BY <1>3, CommandTable DEF WInit, ReplyThen, historyVars
  <2>2. m_iFrameNumber' = 0 /\ wthen' # "check"
    <3>1. PICK c \in Clients : m_pLock = c /\ pc[c] = "wait" /\ (Posted(c) \/ Answering(c))
      BY <1>3, Commanded DEF WInit
    <3>2. m_dwParam = "INIT"
      BY <1>2, <2>1, <3>1, CommandTable DEF Posted, Answering, Command
    <3> QED
      BY <1>3, <3>2 DEF WInit, ReplyThen
  <2> QED
    BY <1>1, <2>1, <2>2 DEF Frames, FrameRegion
<1>4. CASE WRequest
  <2>1. wpc = "request" /\ wpc' = "reply" /\ UNCHANGED m_iFrameNumber /\ UNCHANGED threadVars
    BY <1>4 DEF WRequest, ReplyThen, filterVars, Types, ThreadTypeOK, Command
  <2>2. PICK c \in Clients : m_pLock = c /\ pc[c] = "wait" /\ (Posted(c) \/ Answering(c))
    BY <1>4, Commanded DEF WRequest
  <2>3. Posted(c) /\ m_dwParam = want[c] /\ ~m_EventComplete /\ m_dwParam # "INIT"
    BY <1>2, <2>1, <2>2, CommandTable DEF Posted, Answering, Command
  <2>4. \A d \in Clients : StartsFrom(d)' => StartsFrom(d)
    BY <1>1, <2>1 DEF StartsFrom
  <2>5. CASE m_dwParam = "PAUSE"
    <3>1. delivered' = 0 /\ ~credit' /\ wthen' = "check"
      BY <1>4, <2>5 DEF WRequest, ReplyThen
    <3>2. m_iFrameNumber = 0
      BY <2>1, <2>2, <2>3, <2>5 DEF StartsFrom, Frames
    <3>3. m_State = "Stopped"
      <4>1. Phase(c)
        BY <2>2 DEF Handshake
      <4> QED
        BY <2>2, <2>3, <2>5, <4>1 DEF Phase, Purpose
    <3> QED
      BY <1>1, <2>1, <2>4, <3>1, <3>2, <3>3 DEF Frames, FrameRegion
  <2>6. CASE m_dwParam \in {"STOP", "EXIT"}
    <3>1. UNCHANGED << delivered, credit >> /\ wthen' # "check"
      BY <1>4, <2>6 DEF WRequest, ReplyThen, historyVars
    <3> QED
      BY <1>1, <2>1, <2>4, <3>1 DEF Frames, FrameRegion
  <2> QED
    BY <2>3, <2>5, <2>6 DEF Types, ThreadTypeOK, Command
<1>5. CASE WReply
  <2>1. /\ UNCHANGED << delivered, credit, m_iFrameNumber, wthen, m_EventComplete >>
        /\ wpc = "reply" /\ wpc' = "complete"
    BY <1>5 DEF WReply, WGoto, WithdrawRequest, historyVars, filterVars
  <2>2. \A d \in Clients : StartsFrom(d)' => StartsFrom(d)
    BY <1>1, <2>1 DEF StartsFrom
  <2> QED
    BY <1>1, <2>1, <2>2 DEF Frames, FrameRegion
<1>6. CASE WComplete
  <2>1. /\ UNCHANGED << delivered, credit, m_iFrameNumber, wthen >>
        /\ wpc = "complete" /\ wpc' = wthen /\ m_EventComplete'
    BY <1>6 DEF WComplete, WGoto, SignalComplete, historyVars, filterVars
  <2>2. \A d \in Clients : StartsFrom(d)' => StartsFrom(d)
    BY <1>1, <2>1 DEF StartsFrom
  <2>3. wthen \in {"request", "check", "exit"}
    BY <2>1 DEF Streams
  <2>4. wpc' \notin FrameRegion \cup {"reply", "complete"} /\ (wpc' \in Loop => wthen = "check")
    BY <2>1, <2>3 DEF FrameRegion
  <2> QED
    BY <1>1, <2>1, <2>2, <2>4 DEF Frames, FrameRegion
<1>7. CASE WExit
  <2>1. /\ UNCHANGED << delivered, credit, m_iFrameNumber, m_EventComplete >>
        /\ wpc = "exit" /\ wpc' = "none"
    BY <1>7 DEF WExit, WGoto, threadVars, filterVars
  <2>2. \A d \in Clients : StartsFrom(d)' => StartsFrom(d)
    BY <1>1, <2>1 DEF StartsFrom
  <2> QED
    BY <1>1, <2>1, <2>2 DEF Frames, FrameRegion
<1> QED
  BY <1>3, <1>4, <1>5, <1>6, <1>7

\* In the loop: WState gives out the frames, WStamp counts them, WDeliver
\* delivers them.
LEMMA FramesInLoop ==
    ASSUME Types, LockOwner, Handshake, Streams, Frames, LoopStep
    PROVE  Frames'
<1> USE LoopLabels
<1>1. /\ UNCHANGED << pc, op, want, m_pLock, m_State, m_Connected >>
      /\ wpc \in Loop /\ wpc' \in Loop \cup {"request"} /\ UNCHANGED threadVars
  BY LoopStays, WorkerFrame DEF LoopStep, WorkerStep
<1>2. \A c \in Clients : ~StartsFrom(c)'
  <2>1. UNCHANGED m_EventComplete
    BY <1>1 DEF threadVars
  <2> QED
    BY <1>1, <2>1, StartIsOver DEF StartsFrom
<1>3. /\ m_iFrameNumber \in Counted /\ delivered \in Counted
  BY DEF Types
<1>4. CASE WStamp
  <2>1. /\ wpc = "stamp" /\ wpc' = "deliver" /\ UNCHANGED << delivered, credit >>
        /\ m_iFrameNumber' = Count(m_iFrameNumber)
        /\ discontinuity' <=> m_iFrameNumber' <= 1
    BY <1>4 DEF WStamp, WGoto, historyVars
  <2>2. credit /\ m_iFrameNumber = delivered
    BY <1>1, <2>1 DEF Frames, FrameRegion
  <2>3. m_iFrameNumber' = Count(delivered) /\ (discontinuity' <=> delivered = 0)
    BY <1>3, <2>1, <2>2, CountTells
  <2> QED
    BY <1>1, <1>2, <2>1, <2>2, <2>3 DEF Frames, FrameRegion
<1>5. CASE WDeliver
  <2>1. /\ wpc = "deliver" /\ wpc' = "release" /\ UNCHANGED m_iFrameNumber
        /\ delivered' = Count(delivered) /\ (credit' <=> credit /\ m_State = "Running")
    BY <1>5 DEF WDeliver, ReleaseThen, filterVars
  <2>2. m_iFrameNumber = Count(delivered) /\ credit
    BY <2>1 DEF Frames, FrameRegion
  <2> QED
    BY <1>1, <1>2, <2>1, <2>2 DEF Frames, FrameRegion
<1>6. CASE WState
  <2>1. /\ wpc = "state" /\ wpc' \in {"capture", "poll"} /\ (wpc' = "capture" => m_State = "Running")
        /\ UNCHANGED << delivered, credit, m_iFrameNumber >>
    BY <1>6 DEF WState, WGoto, historyVars, filterVars
  <2> QED
    BY <1>1, <1>2, <2>1 DEF Frames, FrameRegion
<1>7. CASE WCapture \/ WTime \/ WThrottle
  <2>1. /\ wpc \in FrameRegion \ {"deliver"} /\ wpc' # "deliver"
        /\ UNCHANGED << delivered, credit, m_iFrameNumber >>
    BY <1>7 DEF WCapture, WTime, WThrottle, WGoto, ReleaseThen, historyVars, filterVars,
                FrameRegion
  <2> QED
    BY <1>1, <1>2, <2>1 DEF Frames, FrameRegion
<1>8. CASE WCheck \/ WGetBuffer \/ WSemWait \/ WRelease \/ WEndOfStream \/ WAbort \/ WPoll
  <2>1. /\ wpc # "deliver" /\ UNCHANGED << delivered, credit, m_iFrameNumber >>
    BY <1>8 DEF WCheck, WGetBuffer, WSemWait, WRelease, WEndOfStream, WAbort, WPoll,
                historyVars, filterVars
  <2>2. wpc' \notin FrameRegion
    <3>1. CASE WCheck
      <4>1. m_EventSend => Requested("STOP")
        BY <1>1, OnlyStopInLoop
      <4> QED
        BY <3>1, <4>1 DEF WCheck, WGoto, FrameRegion
    <3>2. CASE WRelease
      BY <3>2 DEF WRelease, WGoto, Streams, FrameRegion
    <3>3. CASE WGetBuffer \/ WSemWait \/ WEndOfStream \/ WAbort \/ WPoll
      BY <3>3 DEF WGetBuffer, WSemWait, WEndOfStream, WAbort, WPoll, WGoto, ReleaseThen,
                  FrameRegion
    <3> QED
      BY <1>8, <3>1, <3>2, <3>3
  <2> QED
    BY <1>1, <1>2, <2>1, <2>2 DEF Frames, FrameRegion
<1> QED
  BY <1>4, <1>5, <1>6, <1>7, <1>8 DEF LoopStep

\* Every step keeps the relation of the frames to the filter's state.
LEMMA FramesStep == Inv /\ [Next]_vars => Frames'
<1> SUFFICES ASSUME Inv, [Next]_vars PROVE Frames'
  OBVIOUS
<1>0. Types /\ LockOwner /\ Handshake /\ Streams /\ Frames
  BY DEF Inv
<1>1. CASE \E c \in Clients : BeginPause(c) \/ BeginRun(c) \/ BeginStop(c)
  <2>1. PICK c \in Clients : BeginPause(c) \/ BeginRun(c) \/ BeginStop(c)
    BY <1>1
  <2>2. /\ UNCHANGED << m_State, m_iFrameNumber, want, wpc, wthen, discontinuity, delivered, credit >>
        /\ m_EventComplete' = m_EventComplete
    BY <2>1 DEF BeginPause, BeginRun, BeginStop, workerVars, historyVars, threadVars
  <2>3. \A d \in Clients : pc'[d] \in {"post", "wait"} => pc[d] = pc'[d]
    <3>1. pc \in [Clients -> ClientLabel]
      BY <1>0 DEF Types
    <3> QED
      BY <2>1, <3>1 DEF BeginPause, BeginRun, BeginStop, Begin
  <2>4. \A d \in Clients : StartsFrom(d)' => StartsFrom(d)
    BY <2>2, <2>3 DEF StartsFrom
  <2> QED
    BY <1>0, <2>2, <2>4 DEF Frames
<1>2. CASE \E c \in Clients : ClientStep(c)
  BY <1>0, <1>2, LockStep, FramesByClient
<1>3. CASE Connect
  <2>1. /\ UNCHANGED << m_State, pc, want, wpc, wthen, discontinuity, delivered, credit >>
        /\ m_iFrameNumber' = 0 /\ m_pLock = Nobody /\ m_State = "Stopped"
    BY <1>3 DEF Connect, CanConnect, clientVars, workerVars, historyVars
  <2>2. wpc = "none"
    BY <1>0, <2>1 DEF Handshake, Settled, Absent
  <2> QED
    BY <1>0, <2>1, <2>2, LoopLabels DEF Frames, FrameRegion
<1>4. CASE \/ Disconnect \/ SetSyncSource \/ GetStreamCaps \/ WThrottleAgain
           \/ UNCHANGED vars \/ \E s \in Sample : DownstreamRelease(s)
  <2>1. UNCHANGED << m_State, m_iFrameNumber, pc, want, wpc, wthen, discontinuity, delivered,
                     credit, m_EventComplete >>
    BY <1>4 DEF Disconnect, SetSyncSource, GetStreamCaps, WThrottleAgain, DownstreamRelease,
                vars, clientVars, workerVars, historyVars, filterVars, threadVars
  <2> QED
    BY <1>0, <2>1 DEF Frames, StartsFrom
<1>5. CASE WInit \/ WRequest \/ WReply \/ WComplete \/ WExit
  BY <1>0, <1>5, FramesByAnswer
<1>6. CASE LoopStep
  BY <1>0, <1>6, FramesInLoop
<1> QED
  BY <1>1, <1>2, <1>3, <1>4, <1>5, <1>6 DEF Next, WorkerStep, LoopStep

-----------------------------------------------------------------------------
(* The opening of the stream. *)

\* Only the client inside a method can be starting one.
LEMMA OneStarts ==
    ASSUME LockOwner, NEW c \in Clients, m_pLock = c, NEW d \in Clients, StartsFrom(d)
    PROVE  d = c
BY DEF LockOwner, StartsFrom

\* While a stream opens: the steps of the client that opens it.
LEMMA OpeningByClient ==
    ASSUME Types, LockOwner, Handshake, Opening, LockOwner', NEW c \in Clients, ClientStep(c)
    PROVE  Opening'
<1> USE LoopLabels
<1>1. pc[c] # "idle" /\ m_pLock = c /\ Phase(c)
  <2>1. pc[c] # "idle"
    BY DEF ClientStep, ActiveCommit, ActiveCreate, ActiveCreateFails, Post, WaitReply,
           EnterPaused, EnterRunning, InactiveDecommit, InactiveClose, InactiveJoin, EnterStopped
  <2> QED
    BY <2>1, Holder
<1>2. pc \in [Clients -> ClientLabel] /\ want \in [Clients -> Command]
  BY DEF Types
<1>3. UNCHANGED session /\ (UNCHANGED wpc \/ (pc[c] = "create" /\ wpc' = "init"))
  BY ClientFrame DEF ClientStep, ActiveCommit, ActiveCreate, ActiveCreateFails, Post, WaitReply,
         EnterPaused, EnterRunning, InactiveDecommit, InactiveClose, InactiveJoin, EnterStopped,
         historyVars
<1>4. CASE wpc \in {"none", "init"}
  BY <1>3, <1>4 DEF Opening
<1>5. CASE wpc \notin {"none", "init"}
  <2>1. UNCHANGED wpc
    BY <1>1, <1>3, <1>5 DEF Phase, Absent
  <2>2. \A d \in Clients \ {c} : ~StartsFrom(d) /\ ~StartsFrom(d)'
    <3>1. \A d \in Clients \ {c} : pc[d] = "idle" /\ pc'[d] = "idle"
      <4>1. \A d \in Clients \ {c} : pc[d] = "idle"
        BY <1>1 DEF LockOwner
      <4>2. m_pLock' \in {c, Nobody}
        BY <1>1 DEF ClientStep, ActiveCommit, ActiveCreate, ActiveCreateFails, Post, WaitReply,
             EnterPaused, EnterRunning, InactiveDecommit, InactiveClose, InactiveJoin,
             EnterStopped, CallFailed, Return, filterVars
      <4> QED
        BY <4>1, <4>2, NobodyAssumption DEF LockOwner
    <3> QED
      BY <3>1 DEF StartsFrom
  <2>3. StartsFrom(c)' <=> StartsFrom(c)
    <3>1. CASE Post(c)
      <4>1. ThreadExists
        BY <1>1, <3>1 DEF Post, Phase, ThreadExists
      <4> QED
        BY <1>2, <2>1, <3>1, <4>1 DEF Post, SendRequest, Goto, StartsFrom
    <3>2. CASE WaitReply(c)
      <4>1. pc[c] = "wait" /\ m_EventComplete /\ ~m_EventComplete'
        BY <3>2 DEF WaitReply, TakeReply
      <4>2. Answered(c)
        BY <1>1, <4>1 DEF Phase, Posted, Answering
      <4>3. Continue(c)
        BY <3>2, <4>2 DEF WaitReply, Answered
      <4>4. want[c] = "INIT" => wpc = "request" /\ pc'[c] = "post" /\ want'[c] = "PAUSE"
        BY <1>2, <4>2, <4>3, CommandTable DEF Answered, Continue, CallWorker, Goto
      <4>5. want[c] = "PAUSE" => pc'[c] = "paused"
        BY <1>2, <4>3 DEF Continue, Goto
      <4>6. want[c] = "STOP" => want'[c] = "EXIT"
        BY <1>2, <4>3 DEF Continue, CallWorker, Goto
      <4>7. want[c] = "EXIT" => pc'[c] = "close"
        BY <1>2, <4>3 DEF Continue, Goto
      <4>8. want[c] \in Command
        BY <1>2
      <4> QED
        BY <2>1, <4>1, <4>4, <4>5, <4>6, <4>7, <4>8 DEF StartsFrom, Command
    <3>3. CASE ActiveCreate(c)
      BY <1>1, <1>5, <3>3 DEF ActiveCreate, Phase, Absent
    <3>4. CASE InactiveDecommit(c)
      BY <1>2, <3>4 DEF InactiveDecommit, CallWorker, Goto, StartsFrom
    <3>5. CASE \/ ActiveCommit(c) \/ ActiveCreateFails(c) \/ EnterPaused(c) \/ EnterRunning(c)
               \/ InactiveClose(c) \/ InactiveJoin(c) \/ EnterStopped(c)
      <4>1. pc[c] \notin {"post", "wait"}
        BY <3>5 DEF ActiveCommit, ActiveCreateFails, EnterPaused, EnterRunning, InactiveClose,
                    InactiveJoin, EnterStopped
      <4>2. pc'[c] \notin {"post", "wait"}
        BY <1>2, <3>5 DEF ActiveCommit, ActiveCreateFails, EnterPaused, EnterRunning,
                    InactiveClose, InactiveJoin, EnterStopped, Return, Goto
      <4> QED
        BY <4>1, <4>2 DEF StartsFrom
    <3> QED
      BY <3>1, <3>2, <3>3, <3>4, <3>5 DEF ClientStep
  <2> QED
    BY <1>3, <2>1, <2>2, <2>3 DEF Opening
<1> QED
  BY <1>4, <1>5

\* While a stream opens: the worker's answer to a command.
LEMMA OpeningByAnswer ==
    ASSUME Types, LockOwner, Handshake, Streams, Opening, WInit \/ WRequest \/ WReply \/ WComplete
    PROVE  Opening'
<1> USE LoopLabels
<1>1. UNCHANGED << pc, op, want, m_pLock, m_State, m_Connected >>
  BY WorkerFrame DEF WorkerStep
<1>2. PICK c \in Clients : m_pLock = c /\ pc[c] = "wait" /\ (Posted(c) \/ Answering(c))
  BY Commanded DEF WInit, WRequest, WReply, WComplete
<1>3. want[c] \in Command
  BY DEF Types
<1>4. \A d \in Clients \ {c} : pc[d] = "idle"
  BY <1>2 DEF LockOwner
<1>5. \A d \in Clients \ {c} : ~StartsFrom(d) /\ ~StartsFrom(d)'
  BY <1>1, <1>4 DEF StartsFrom
<1>6. CASE WInit
  <2>1. want[c] = "INIT"
    BY <1>2, <1>3, <1>6, CommandTable DEF WInit, Posted, Answering, Command
  <2>2. wpc = "init" /\ wpc' = "reply" /\ UNCHANGED session
    BY <1>2, <1>6, <2>1 DEF WInit, ReplyThen, historyVars
  <2> QED
    BY <1>1, <1>2, <2>1, <2>2 DEF Opening, StartsFrom
<1>7. CASE WRequest
  <2>1. want[c] \in {"PAUSE", "STOP", "EXIT"} /\ m_dwParam = want[c]
    BY <1>2, <1>3, <1>7, CommandTable DEF WRequest, Posted, Answering, Command
  <2>2. wpc = "request" /\ wpc' = "reply"
    BY <1>7, <2>1 DEF WRequest, ReplyThen
  <2>3. ~StartsFrom(c)'
    BY <1>1, <2>1, <2>2 DEF StartsFrom
  <2>4. CASE want[c] = "PAUSE"
    BY <1>5, <1>7, <2>1, <2>2, <2>3, <2>4 DEF WRequest, Opening
  <2>5. CASE want[c] # "PAUSE"
    <3>1. UNCHANGED session /\ ~StartsFrom(c)
      BY <1>7, <2>1, <2>5 DEF WRequest, StartsFrom, historyVars
    <3> QED
      BY <1>5, <2>2, <2>3, <3>1 DEF Opening
  <2> QED
    BY <2>4, <2>5
<1>8. CASE WReply
  <2>1. wpc = "reply" /\ wpc' = "complete" /\ UNCHANGED << session, m_EventComplete >>
    BY <1>8 DEF WReply, WGoto, WithdrawRequest, historyVars
  <2>2. StartsFrom(c)' <=> StartsFrom(c)
    BY <1>1, <2>1 DEF StartsFrom
  <2> QED
    BY <1>5, <2>1, <2>2 DEF Opening
<1>9. CASE WComplete
  <2>1. wpc = "complete" /\ wpc' = wthen /\ m_EventComplete' /\ UNCHANGED session
    BY <1>9 DEF WComplete, WGoto, SignalComplete, historyVars
  <2>2. wthen \in {"request", "check", "exit"}
    BY <2>1 DEF Streams
  <2>3. StartsFrom(c)' <=> StartsFrom(c)
    BY <1>1, <2>1, <2>2 DEF StartsFrom
  <2> QED
    BY <1>5, <2>1, <2>2, <2>3 DEF Opening
<1> QED
  BY <1>6, <1>7, <1>8, <1>9

\* While a stream opens: the worker already in the buffer processing loop.
LEMMA OpeningInLoop ==
    ASSUME Types, LockOwner, Handshake, Streams, Opening, LoopStep
    PROVE  Opening'
<1> USE LoopLabels
<1>1. /\ UNCHANGED << pc, op, want, m_pLock, m_State, m_Connected >>
      /\ wpc \in Loop /\ wpc' \in Loop \cup {"request"} /\ UNCHANGED threadVars
  BY LoopStays, WorkerFrame DEF LoopStep, WorkerStep
<1>2. \A c \in Clients : ~StartsFrom(c) /\ ~StartsFrom(c)'
  <2>1. UNCHANGED m_EventComplete
    BY <1>1 DEF threadVars
  <2> QED
    BY <1>1, <2>1, StartIsOver DEF StartsFrom
<1>3. session # "closed"
  BY <1>1, <1>2 DEF Opening
<1>4. session' # "closed"
  <2>1. CASE WCheck
    <3>1. m_EventSend => Requested("STOP")
      BY <1>1, OnlyStopInLoop
    <3> QED
      BY <1>3, <2>1, <3>1 DEF WCheck, Requested
  <2>2. CASE ~WCheck
    BY <1>3, <2>2 DEF LoopStep, WGetBuffer, WSemWait, WRelease, WEndOfStream, WAbort, WState,
         WPoll, WCapture, WTime, WThrottle, WStamp, WDeliver, historyVars
  <2> QED
    BY <2>1, <2>2
<1> QED
  BY <1>1, <1>2, <1>4 DEF Opening

\* Every step keeps the stream closed until CMD_PAUSE has been taken.
LEMMA OpeningStep == Inv /\ [Next]_vars => Opening'
<1> SUFFICES ASSUME Inv, [Next]_vars PROVE Opening'
  OBVIOUS
<1>0. Types /\ LockOwner /\ Handshake /\ Streams /\ Opening
  BY DEF Inv
<1>1. CASE \E c \in Clients : BeginPause(c) \/ BeginRun(c) \/ BeginStop(c)
  <2>1. PICK c \in Clients : BeginPause(c) \/ BeginRun(c) \/ BeginStop(c)
    BY <1>1
  <2>2. UNCHANGED << session, want, wpc >> /\ m_EventComplete' = m_EventComplete
    BY <2>1 DEF BeginPause, BeginRun, BeginStop, workerVars, historyVars, threadVars
  <2>3. \A d \in Clients : pc'[d] \in {"post", "wait"} <=> pc[d] \in {"post", "wait"}
    <3>1. pc \in [Clients -> ClientLabel]
      BY <1>0 DEF Types
    <3> QED
      BY <2>1, <3>1 DEF BeginPause, BeginRun, BeginStop, Begin
  <2>4. \A d \in Clients : StartsFrom(d)' <=> StartsFrom(d)
    BY <2>2, <2>3 DEF StartsFrom
  <2> QED
    BY <1>0, <2>2, <2>4 DEF Opening
<1>2. CASE \E c \in Clients : ClientStep(c)
  BY <1>0, <1>2, LockStep, OpeningByClient
<1>3. CASE \/ Connect \/ Disconnect \/ SetSyncSource \/ GetStreamCaps \/ WThrottleAgain
           \/ UNCHANGED vars \/ \E s \in Sample : DownstreamRelease(s)
  <2>1. UNCHANGED << session, pc, want, wpc, m_EventComplete >>
    BY <1>3 DEF Connect, Disconnect, SetSyncSource, GetStreamCaps, WThrottleAgain,
                DownstreamRelease, vars, clientVars, workerVars, historyVars, threadVars
  <2> QED
    BY <1>0, <2>1 DEF Opening, StartsFrom
<1>4. CASE WInit \/ WRequest \/ WReply \/ WComplete
  BY <1>0, <1>4, OpeningByAnswer
<1>5. CASE LoopStep
  BY <1>0, <1>5, OpeningInLoop
<1>6. CASE WExit
  BY <1>6 DEF WExit, WGoto, Opening
<1> QED
  BY <1>1, <1>2, <1>3, <1>4, <1>5, <1>6 DEF Next, WorkerStep, LoopStep

-----------------------------------------------------------------------------
(* The invariant, and what follows from it. *)

\* The initial states satisfy the inductive invariant.
LEMMA InvInit == Init => Inv
<1> SUFFICES ASSUME Init PROVE Inv
  OBVIOUS
<1>1. Types
  <2>1. m_hThread \in BOOLEAN /\ m_EventSend \in BOOLEAN /\ m_EventComplete \in BOOLEAN
    BY Zenon DEF Init, ThreadInit
  <2>2. m_Connected \in BOOLEAN /\ m_pClock \in BOOLEAN
    BY Zenon DEF Init
  <2>3. discontinuity \in BOOLEAN /\ credit \in BOOLEAN
    BY Zenon DEF Init
  <2> QED
    BY <2>1, <2>2, <2>3, CountIsCounted
       DEF Init, ThreadInit, Types, ThreadTypeOK, Command, Result, ClientLabel, WorkerLabel
<1>2. LockOwner
  BY NobodyAssumption DEF Init, LockOwner
<1>3. AllocInv
  BY AllocInvInit DEF Init
<1>4. Samples
  <2>1. Outstanding = {}
    BY DEF Init, AllocInit, Outstanding, Allocated
  <2> QED
    BY <2>1 DEF Init, Samples, NoSample, HasSample
<1>5. DisconnectedIsDecommitted
  BY DEF Init, AllocInit, DisconnectedIsDecommitted
<1>6. Handshake
  BY NobodyAssumption DEF Init, ThreadInit, Handshake, Settled, Absent
<1>7. Streams
  BY LoopLabels DEF Init, Streams
<1>8. Opening
  BY DEF Init, Opening
<1>9. Frames
  BY LoopLabels DEF Init, Frames, FrameRegion, StartsFrom
<1> QED
  BY <1>1, <1>2, <1>3, <1>4, <1>5, <1>6, <1>7, <1>8, <1>9 DEF Inv

\* The conjunction of the parts is inductive: none of them is by itself.
THEOREM InvHolds == Spec => []Inv
<1>1. Init => Inv
  BY InvInit
<1>2. Inv /\ [Next]_vars => Inv'
  BY TypesStep, LockStep, SamplesStep, DecommittedStep, HandshakeStep, StreamsStep,
     OpeningStep, FramesStep
     DEF Inv
<1> QED
  BY <1>1, <1>2, PTL DEF Spec

\* The samples that exist are among those that are bounded by MaxCount.
LEMMA SamplesAreSamples ==
    ASSUME AllocInv, Samples
    PROVE  sample \in Sample \cup {NoSample} /\ downstream \subseteq Sample
BY MaxCountAssumption DEF AllocInv, AllocNumbers, Samples, Outstanding, Allocated, Sample

\* Every variable keeps its type, whatever the threads do.
THEOREM TypeCorrect == Spec => []TypeOK
<1>1. Inv => TypeOK
  BY AllocInvImplies, SamplesAreSamples DEF Inv, Types, TypeOK, Counted
<1> QED
  BY <1>1, InvHolds, PTL

\* CallWorker never returns with the answer to an earlier request, the worker
\* never meets a command it does not expect, and the state lock is held by the
\* client inside a method.
THEOREM HandshakeSound == Spec => []AnswersMatch
<1>1. Inv => ReplyAnswersRequest
  <2> SUFFICES ASSUME Inv, m_EventComplete PROVE ~m_EventSend /\ \E c \in Clients :
                                                pc[c] = "wait" /\ want[c] = m_dwParam
    BY DEF ReplyAnswersRequest
  <2>1. Types /\ LockOwner /\ Handshake
    BY DEF Inv
  <2>2. PICK c \in Clients : m_pLock = c /\ Phase(c) /\ pc[c] # "idle" /\ pc[c] \in ClientLabel
    BY <2>1 DEF Types, LockOwner, Handshake, Settled, Absent, Working
  <2>3. pc[c] = "wait"
    BY <2>2 DEF Phase, Absent, Working, ClientLabel
  <2> QED
    BY <2>2, <2>3 DEF Phase, Posted, Answering, Answered
<1>2. Inv => NoUnexpectedCommand
  <2> SUFFICES ASSUME Inv, wpc \in {"reply", "complete"} PROVE wreply = "S_OK"
    BY DEF NoUnexpectedCommand
  <2>1. Types /\ LockOwner /\ Handshake
    BY DEF Inv
  <2>2. PICK c \in Clients : Posted(c) \/ Answering(c)
    BY <2>1, Commanded
  <2>3. want[c] \in Command
    BY <2>1 DEF Types
  <2> QED
    BY <2>2, <2>3, CommandTable, LoopLabels DEF Posted, Answering, Command
<1>3. Inv => AnswersMatch
  BY <1>1, <1>2 DEF Inv, AnswersMatch
<1> QED
  BY <1>3, InvHolds, PTL

\* After Stop nothing of the stream is left: no thread, no request, no sample
\* in its hands, no stream open downstream.
THEOREM StopLeavesNothing == Spec => []StoppedIsQuiet
<1>1. Inv => StoppedIsQuiet
  <2> SUFFICES ASSUME Inv, m_State = "Stopped", m_pLock = Nobody
               PROVE  /\ wpc = "none" /\ ~m_hThread /\ ~m_EventSend /\ sample = NoSample
                      /\ session = "closed"
    BY DEF StoppedIsQuiet
  <2>1. Absent
    BY DEF Inv, Handshake, Settled
  <2> QED
    BY <2>1 DEF Inv, Absent, Samples, HasSample, Streams
<1> QED
  BY <1>1, InvHolds, PTL

\* While the worker exists the pin is connected, although Deliver takes no
\* lock; and a broken connection has no committed allocator.
THEOREM ConnectionSound == Spec => []ConnectionOutlivesStream
<1>1. Inv => ConnectedWhileStreaming
  <2> SUFFICES ASSUME Inv, wpc # "none", ~m_Connected PROVE FALSE
    BY DEF ConnectedWhileStreaming
  <2>1. Types /\ LockOwner /\ Handshake
    BY DEF Inv
  <2>2. PICK c \in Clients : Phase(c) /\ pc[c] # "idle" /\ pc[c] \in ClientLabel
    BY <2>1 DEF Types, LockOwner, Handshake, Settled, Absent
  <2> QED
    BY <2>2 DEF Phase, Absent, ClientLabel
<1>2. Inv => ConnectionOutlivesStream
  BY <1>1 DEF Inv, ConnectionOutlivesStream
<1> QED
  BY <1>2, InvHolds, PTL

\* What is delivered: frames of a Running filter or the one begun before Pause,
\* the first of a stream marked as a discontinuity, none after the stream's end,
\* each in a sample that is neither free nor downstream's.
THEOREM DeliverySound == Spec => []StreamInOrder
<1>1. Inv => FramesOnlyWhenRunning
  BY DEF Inv, Frames, FrameRegion, FramesOnlyWhenRunning
<1>2. Inv => FirstFrameDiscontinuous
  BY DEF Inv, Frames, FirstFrameDiscontinuous
<1>3. Inv => NothingAfterTheEnd
  BY DEF Inv, Streams, Loop, HasSample, NothingAfterTheEnd
<1>4. Inv => SampleAccounting
  <2> SUFFICES ASSUME Inv, NEW s \in Sample
               PROVE  s \in m_lFree <=> (s \in Allocated /\ s # sample /\ s \notin downstream)
    BY DEF SampleAccounting
  <2>1. m_lFree \subseteq Allocated /\ s # NoSample
    BY MaxCountAssumption DEF Inv, AllocInv, AllocNumbers, Sample, NoSample
  <2> QED
    BY <2>1 DEF Inv, Samples, Outstanding
<1>5. Inv => StreamInOrder
  BY <1>1, <1>2, <1>3, <1>4 DEF StreamInOrder
<1> QED
  BY <1>5, InvHolds, PTL

-----------------------------------------------------------------------------
(* SourceStream implements FrameSource, for every set of application       *)
(* threads and every number of buffers: what the graph relies on in a live *)
(* source is what the threads, the commands and the allocator amount to.   *)
(* The invariant above says in which states the steps are taken that the   *)
(* abstract source can see.                                                *)

AbsStep == [Abstract!Next]_Abstract!vars

\* A step that changes nothing the graph sees.
LEMMA Hidden ==
    ASSUME UNCHANGED << m_State, m_Connected, session, delivered, credit >>
    PROVE  AbsStep
BY DEF AbsStep, Abstract!vars

\* While a client changes the state of a connected filter, the stream is open
\* or ended.
LEMMA WorkingIsOpened ==
    ASSUME LockOwner, Handshake, Opening, NEW c \in Clients, pc[c] \in {"paused", "running"},
           m_Connected
    PROVE  session # "closed"
<1>1. m_pLock = c /\ Phase(c)
  BY Holder
<1>2. Working
  BY <1>1 DEF Phase
<1>3. \A d \in Clients : ~StartsFrom(d)
  BY <1>1, OneStarts DEF StartsFrom
<1> QED
  BY <1>2, <1>3, LoopLabels DEF Opening, Working

\* Each step of an application thread inside a method is Pause, Run or Stop of
\* FrameSource, or leaves its variables alone.
LEMMA ClientRefines ==
    ASSUME Inv, NEW c \in Clients, ClientStep(c)
    PROVE  AbsStep
<1>0. Types /\ LockOwner /\ Handshake /\ Streams /\ Opening
  BY DEF Inv
<1>1. CASE EnterPaused(c)
  <2>1. m_Connected => session # "closed"
    BY <1>0, <1>1, WorkingIsOpened DEF EnterPaused
  <2>2. Abstract!Pause
    BY <1>1, <2>1 DEF EnterPaused, Abstract!Pause, historyVars
  <2> QED
    BY <2>2 DEF AbsStep, Abstract!Next
<1>2. CASE EnterRunning(c)
  <2>1. m_Connected => session # "closed"
    BY <1>0, <1>2, WorkingIsOpened DEF EnterRunning
  <2>2. m_State # "Stopped"
    BY <1>0, <1>2, Holder DEF EnterRunning, Phase
  <2>3. Abstract!Run
    BY <1>2, <2>1, <2>2 DEF EnterRunning, Abstract!Run
  <2> QED
    BY <2>3 DEF AbsStep, Abstract!Next
<1>3. CASE EnterStopped(c)
  <2>1. session = "closed"
    BY <1>0, <1>3, Holder DEF EnterStopped, Phase, Absent, Streams
  <2>2. Abstract!Stop
    BY <1>3, <2>1 DEF EnterStopped, Abstract!Stop, historyVars
  <2> QED
    BY <2>2 DEF AbsStep, Abstract!Next
<1>4. CASE ~EnterPaused(c) /\ ~EnterRunning(c) /\ ~EnterStopped(c)
  <2>1. UNCHANGED << m_State, m_Connected, session, delivered, credit >>
    BY <1>4 DEF ClientStep, ActiveCommit, ActiveCreate, ActiveCreateFails, Post, WaitReply,
         InactiveDecommit, InactiveClose, InactiveJoin, filterVars, historyVars
  <2> QED
    BY <2>1, Hidden
<1> QED
  BY <1>1, <1>2, <1>3, <1>4

\* Each step of the worker is Open, Push, End, Close of FrameSource, or leaves
\* its variables alone.
LEMMA WorkerRefines ==
    ASSUME Inv, WorkerStep
    PROVE  AbsStep
<1> USE LoopLabels
<1>0. Types /\ LockOwner /\ Handshake /\ Streams /\ Opening /\ Frames
  BY DEF Inv
<1>1. UNCHANGED << m_State, m_Connected, m_pLock >>
  BY WorkerFrame
<1>2. wpc \in Loop /\ wpc # "release" => session = "open"
  BY <1>0 DEF Streams
<1>3. ASSUME Abstract!Open \/ Abstract!Push \/ Abstract!End \/ Abstract!Close
      PROVE  AbsStep
  BY <1>3 DEF AbsStep, Abstract!Next
<1>4. ASSUME wpc \in Loop, wpc # "release", session' = "ended", UNCHANGED << delivered, credit >>
      PROVE  AbsStep
  <2>1. Abstract!End
    BY <1>1, <1>2, <1>4 DEF Abstract!End
  <2> QED
    BY <1>3, <2>1
<1>5. CASE WRequest
  <2>1. PICK c \in Clients : m_pLock = c /\ pc[c] = "wait" /\ (Posted(c) \/ Answering(c))
    BY <1>0, <1>5, Commanded DEF WRequest
  <2>2. Posted(c) /\ Phase(c)
    BY <1>0, <1>5, <2>1 DEF WRequest, Answering, Handshake
  <2>3. CASE m_dwParam = "PAUSE"
    <3>1. want[c] = "PAUSE" /\ ~m_EventComplete /\ wpc = "request"
      BY <1>5, <2>2, <2>3 DEF Posted, WRequest
    <3>2. session = "closed"
      BY <1>0, <2>1, <3>1 DEF Opening, StartsFrom
    <3>3. m_State = "Stopped" /\ m_Connected
      BY <2>1, <2>2, <3>1 DEF Phase, Purpose
    <3>4. Abstract!Open
      BY <1>1, <1>5, <2>3, <3>2, <3>3 DEF WRequest, Abstract!Open
    <3> QED
      BY <1>3, <3>4
  <2>4. CASE m_dwParam # "PAUSE"
    BY <1>1, <1>5, <2>4, Hidden DEF WRequest, historyVars
  <2> QED
    BY <2>3, <2>4
<1>6. CASE WExit
  <2>1. wpc = "exit" /\ session' = "closed" /\ UNCHANGED << delivered, credit >>
    BY <1>6 DEF WExit
  <2>2. PICK c \in Clients : m_pLock = c
    BY <1>0, <2>1 DEF Types, Handshake, Settled, Working, Absent
  <2>3. Phase(c) /\ pc[c] # "idle" /\ pc[c] \in ClientLabel /\ want[c] \in Command
    BY <1>0, <2>2 DEF Handshake, LockOwner, Types
  <2>4. pc[c] \in {"wait", "close", "join"}
    BY <2>1, <2>3, CommandTable DEF Phase, Absent, Working, ClientLabel, Command
  <2>5. pc[c] = "wait" => want[c] = "EXIT" /\ op[c] = "Stop"
    BY <2>1, <2>3, CommandTable DEF Phase, Purpose, Posted, Answering, Answered, Command
  <2>6. m_State # "Stopped"
    BY <2>3, <2>4, <2>5 DEF Phase, Purpose
  <2>7. ~StartsFrom(c)
    BY <2>4, <2>5 DEF StartsFrom
  <2>8. \A d \in Clients : ~StartsFrom(d)
    BY <1>0, <2>2, <2>7, OneStarts
  <2>9. session = "ended"
    BY <1>0, <2>1, <2>8 DEF Types, Opening, Streams
  <2>10. Abstract!Close
    BY <1>1, <2>1, <2>6, <2>9 DEF Abstract!Close
  <2> QED
    BY <1>3, <2>10
<1>7. CASE WCheck
  <2>1. wpc = "check" /\ UNCHANGED << delivered, credit >>
    BY <1>7 DEF WCheck
  <2>2. m_EventSend => Requested("STOP")
    BY <1>0, <2>1, OnlyStopInLoop DEF Loop
  <2>3. UNCHANGED session \/ session' = "ended"
    BY <1>7, <2>2 DEF WCheck, Requested
  <2> QED
    BY <1>1, <1>4, <2>1, <2>3, Hidden DEF Loop
<1>8. CASE WEndOfStream \/ WAbort
  <2>1. wpc \in {"eos", "abort"} /\ session' = "ended" /\ UNCHANGED << delivered, credit >>
    BY <1>8 DEF WEndOfStream, WAbort
  <2> QED
    BY <1>4, <2>1 DEF Loop
<1>9. CASE WDeliver
  <2>1. wpc = "deliver" /\ session = "open" /\ (m_State = "Running" \/ credit)
    BY <1>0, <1>2, <1>9 DEF WDeliver, Loop, HasSample, Frames, FrameRegion
  <2>2. session' \in {"open", "ended"}
    BY <1>9, <2>1 DEF WDeliver
  <2>3. delivered' = Count(delivered) /\ credit' = (credit /\ m_State = "Running")
    BY <1>9 DEF WDeliver
  <2>4. Abstract!Push
    BY <1>1, <2>1, <2>2, <2>3 DEF Abstract!Push, Count
  <2> QED
    BY <1>3, <2>4
<1>10. CASE \/ WInit \/ WReply \/ WComplete \/ WGetBuffer \/ WSemWait \/ WRelease
            \/ WState \/ WPoll \/ WCapture \/ WTime \/ WThrottle \/ WStamp
  BY <1>1, <1>10, Hidden
     DEF WInit, WReply, WComplete, WGetBuffer, WSemWait, WRelease, WState, WPoll, WCapture,
         WTime, WThrottle, WStamp, historyVars
<1> QED
  BY <1>5, <1>6, <1>7, <1>8, <1>9, <1>10 DEF WorkerStep

\* Each step of the detailed specification is one of FrameSource or a stutter.
LEMMA StepRefines == Inv /\ [Next]_vars => [Abstract!Next]_Abstract!vars
<1> SUFFICES ASSUME Inv, [Next]_vars PROVE AbsStep
  BY DEF AbsStep
<1>0. Types /\ LockOwner /\ Handshake /\ Streams
  BY DEF Inv
<1>1. CASE Connect \/ Disconnect
  <2>1. m_State = "Stopped" /\ m_pLock = Nobody
        /\ UNCHANGED << m_State, session, delivered, credit >>
    BY <1>1 DEF Connect, CanConnect, Disconnect, historyVars
  <2>2. session = "closed"
    BY <1>0, <2>1 DEF Handshake, Settled, Absent, Streams
  <2>3. m_Connected' = m_Connected \/ m_Connected' = ~m_Connected
    <3>1. m_Connected \in BOOLEAN /\ m_Connected' \in BOOLEAN
      BY <1>0, <1>1 DEF Connect, Disconnect, Types
    <3> QED
      BY <3>1, Zenon
  <2>4. CASE m_Connected' = m_Connected
    BY <2>1, <2>4, Hidden
  <2>5. CASE m_Connected' = ~m_Connected
    <3>1. Abstract!Relink
      BY <2>1, <2>2, <2>5 DEF Abstract!Relink
    <3> QED
      BY <3>1 DEF AbsStep, Abstract!Next
  <2> QED
    BY <2>3, <2>4, <2>5
<1>2. CASE \/ \E c \in Clients : BeginPause(c) \/ BeginRun(c) \/ BeginStop(c)
           \/ SetSyncSource \/ GetStreamCaps \/ WThrottleAgain \/ UNCHANGED vars
           \/ \E s \in Sample : DownstreamRelease(s)
  BY <1>2, Hidden DEF BeginPause, BeginRun, BeginStop, SetSyncSource, GetStreamCaps,
       WThrottleAgain, DownstreamRelease, vars, filterVars, historyVars
<1>3. CASE \E c \in Clients : ClientStep(c)
  BY <1>3, ClientRefines
<1>4. CASE WorkerStep
  BY <1>4, WorkerRefines
<1> QED
  BY <1>1, <1>2, <1>3, <1>4 DEF Next

\* The worker thread, the command protocol, the allocator and the state lock
\* of the capture filter together are a live source: frames come from a Running
\* filter, in streams that open on the way out of Stopped and are closed before
\* the filter says Stopped again.
THEOREM Refinement == Spec => ImplementsFrameSource
<1>1. Init => Abstract!Init
  BY DEF Init, Abstract!Init
<1> QED
  BY <1>1, StepRefines, InvHolds, PTL DEF Spec, ImplementsFrameSource, Abstract!Spec
=============================================================================
