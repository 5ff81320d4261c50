----------------------------- MODULE GraphProofs ----------------------------
(***************************************************************************)
(* The parts of a running graph.                                           *)
(*   The dynamic output pin and seeking (MCGraph), for every set of        *)
(* threads, medium and rates: a blocked pin is used by nobody until it is  *)
(* unblocked, both ends of its connection agree, the position the renderer *)
(* answers is of the stream as it is, and the source plays the positions   *)
(* that were asked for last.                                               *)
(*   Stream control and the pulling pin (MCStreaming), for every range of  *)
(* times, file, buffer and alignment: the application is told of every     *)
(* start and stop it wants to be told of, and a sample is sent or discarded*)
(* as the comment on the nineteen cases says; whenever the pulling thread  *)
(* waits for a command nothing is outstanding, and the end of a stream     *)
(* means that every position asked for was delivered once.                 *)
(*   Reference counting (ComLifetime), for any number of threads and       *)
(* objects: a count is the number of pointers, nothing points to an object *)
(* that is ending, and the DLL answers S_OK only when nothing of it is     *)
(* left.  The argument is one of balance.  A call in progress is in one of *)
(* seven forms (Calls); every step changes one form and at most three      *)
(* pointers, and the count of an object by the same number as the pointers *)
(* to it.                                                                  *)
(***************************************************************************)
EXTENDS MCGraph, MCStreaming, ComLifetime, FiniteSetTheorems, SequenceTheorems, TLAPS

-----------------------------------------------------------------------------
(* The dynamic output pin.                                                 *)

PinTyped ==
    /\ m_BlockState \in {"not", "pending", "blocked"}
    /\ m_hNotifyCallerPinBlockedEvent \in Apps \cup {None}
    /\ m_dwBlockCallerThreadID \in Apps \cup {None}
    /\ m_hUnblockOutputPinEvent \in BOOLEAN /\ m_hStopEvent \in BOOLEAN /\ active \in BOOLEAN
    /\ flushing \in BOOLEAN /\ committed \in BOOLEAN /\ broken \in BOOLEAN
    /\ app \in [Apps -> {"idle", "wait", "change"}]
    /\ streamer \in [Streamers -> {"idle", "wait", "retry", "use", "decommit", "decide"}]
    /\ event \in [Apps -> BOOLEAN] /\ undone \in [Apps -> BOOLEAN]
    /\ outType \in {"old", "new"} /\ inType \in {"old", "new"}

\* Who changes the connection was told of the block, and the block is still his.
BlockInv ==
    /\ (m_BlockState = "pending") <=> (m_hNotifyCallerPinBlockedEvent # None)
    /\ (m_BlockState = "not") <=> (m_dwBlockCallerThreadID = None)
    /\ (m_BlockState = "blocked") <=> ~m_hUnblockOutputPinEvent
    /\ m_BlockState = "blocked" => m_dwNumOutstandingOutputPinUsers = 0
    /\ \A a \in Apps :
         m_dwBlockCallerThreadID = a /\ event[a] /\ ~undone[a] => m_BlockState = "blocked"
    /\ \A a \in Apps : app[a] = "change" => m_dwBlockCallerThreadID = a /\ event[a] /\ ~undone[a]

CountInv == m_dwNumOutstandingOutputPinUsers = Cardinality(Dynamic!InUse)

Changing(s) == streamer[s] \in {"decommit", "decide"}

ConnectionInv ==
    /\ ~broken => inType = outType
    /\ ~broken /\ (\A s \in Streamers : ~Changing(s)) => (active => committed)

DynamicInv == PinTyped /\ BlockInv /\ CountInv /\ ConnectionInv

-----------------------------------------------------------------------------
(* Seeking.                                                                *)

ChangeLists == { << >>, << "ChangeStart" >>, << "ChangeStop" >>, << "ChangeStop", "ChangeStart" >>, << "ChangeRate" >> }

SourceTyped ==
    /\ m_rtStart \in Seek!Positions /\ m_rtStop \in Seek!Positions /\ m_dRateSeeking \in {1} \cup Rates
    /\ call \in [stop : Seek!Positions, changes : ChangeLists]

FlagsTyped ==
    /\ m_pLock \in {"free", "graph", "worker", "timer"}
    /\ m_InterfaceLock \in {"free", "graph", "worker", "timer"}
    /\ m_RendererLock \in {"free", "graph", "worker", "timer"}
    /\ m_State \in {"Stopped", "Paused", "Running"}
    /\ connected \in BOOLEAN /\ m_bStreaming \in BOOLEAN /\ m_bFlushing \in BOOLEAN /\ m_bEOS \in BOOLEAN
    /\ m_bEOSDelivered \in BOOLEAN /\ m_EndOfStreamTimer \in BOOLEAN /\ m_bReset \in BOOLEAN

MediaTyped ==
    /\ m_StartMedia \in 0 .. Length + 1 /\ m_EndMedia \in 0 .. Length + 1
    /\ m_rtSampleTime \in Seek!Positions /\ last \in Seek!Positions
    /\ segment \in [start : Seek!Positions, rate : {1} \cup Rates]
    /\ llStop \in Seek!Positions \cup {-1} /\ received \in Seek!Positions \cup {-1}

\* The worker is in its segment.
Playing == worker \notin {"none", "start"}

FramesInv ==
    /\ Playing => segment.start <= m_rtSampleTime
    /\ worker = "deliver" => segment.start <= last

\* The times are reset while nothing plays, and the end of the stream is under
\* way, or signalled, only after it came.
RendererInv ==
    /\ m_State = "Stopped" \/ worker = "start" => m_bReset
    /\ graph \in {"stopping", "end worker"} => m_State = "Stopped"
    /\ graph \in {"flushing", "stop worker"} => m_bFlushing
    /\ m_EndOfStreamTimer \/ m_bEOSDelivered \/ m_RendererLock # "free" => m_bEOS

TimesInv ==
    /\ ~m_bReset =>
          /\ received # -1
          /\ \/ m_StartMedia = received - segment.start /\ m_EndMedia = m_StartMedia + 1
             \/ (m_bEOS \/ m_bFlushing) /\ m_StartMedia = m_EndMedia
    /\ m_bEOSDelivered /\ ~m_bReset /\ Seek!GetPeerSeeking => m_StartMedia = m_EndMedia

\* No change of the positions is left to be acted on.
Settled ==
    \/ graph \in {"idle", "run", "stopping", "end worker"}
    \/ graph \in {"locked", "change"} /\ call.changes = << >>

SegmentIsAsked == segment.start = m_rtStart /\ segment.rate = m_dRateSeeking

SampleIsAsked == m_rtSampleTime <= m_rtStop \/ m_rtSampleTime = m_rtStart

PlayInv ==
    /\ Playing /\ Settled => SegmentIsAsked /\ SampleIsAsked
    /\ Playing /\ graph \in {"locked", "change"} /\ call.changes = << "ChangeStop" >> => SegmentIsAsked
    /\ graph = "locked" /\ call.changes = << >> => call.stop = m_rtStop

SeekInv == SourceTyped /\ FlagsTyped /\ MediaTyped /\ FramesInv /\ RendererInv /\ TimesInv /\ PlayInv

-----------------------------------------------------------------------------
(* Proofs about the dynamic output pin.                                    *)

LEMMA ThreadsApart == None \notin Apps /\ IsFiniteSet(Streamers)
<1>1. None \notin Apps /\ Dynamic!IsFiniteSet(Streamers)
  BY GraphAssumption DEF Dynamic!DynamicPinAssumption
<1> QED BY <1>1 DEF Dynamic!IsFiniteSet, IsFiniteSet

LEMMA Users ==
    /\ Dynamic!Cardinality(Dynamic!InUse) = Cardinality(Dynamic!InUse)
    /\ Dynamic!Cardinality(Streamers) = Cardinality(Streamers)
    /\ IsFiniteSet(Dynamic!InUse) /\ Cardinality(Dynamic!InUse) \in 0..Cardinality(Streamers)
    /\ Cardinality(Streamers) \in Nat
<1>1. Dynamic!Cardinality(Dynamic!InUse) = Cardinality(Dynamic!InUse)
  BY DEF Dynamic!Cardinality, Cardinality
<1>2. Dynamic!Cardinality(Streamers) = Cardinality(Streamers)
  BY DEF Dynamic!Cardinality, Cardinality
<1>3. IsFiniteSet(Streamers) /\ Dynamic!InUse \subseteq Streamers
  BY ThreadsApart DEF Dynamic!InUse
<1>4. IsFiniteSet(Dynamic!InUse) /\ Cardinality(Dynamic!InUse) <= Cardinality(Streamers)
  BY <1>3, FS_Subset
<1>5. Cardinality(Dynamic!InUse) \in Nat /\ Cardinality(Streamers) \in Nat
  BY <1>3, <1>4, FS_CardinalityType
<1> QED BY <1>1, <1>2, <1>4, <1>5

\* Nobody uses the pin exactly when nobody is counted.
LEMMA NobodyUses == CountInv => (m_dwNumOutstandingOutputPinUsers = 0 <=> Dynamic!InUse = {})
BY Users, FS_EmptySet DEF CountInv

LEMMA DynamicStarts == Dynamic!Init => DynamicInv
<1> SUFFICES ASSUME Dynamic!Init PROVE DynamicInv
  OBVIOUS
<1> USE DEF Dynamic!Init
<1>1. PinTyped
  BY DEF PinTyped
<1>2. BlockInv
  BY ThreadsApart DEF BlockInv
<1>3. CountInv
  <2>1. Dynamic!InUse = {}
    BY DEF Dynamic!InUse
  <2> QED BY <2>1, FS_EmptySet DEF CountInv
<1>4. ConnectionInv
  BY DEF ConnectionInv
<1> QED BY <1>1, <1>2, <1>3, <1>4 DEF DynamicInv

\* What the application does, what a streaming thread does, and the filter.
AppStep ==
    \E a \in Apps :
      \/ \E synchronous \in BOOLEAN : Dynamic!Block(a, synchronous)
      \/ Dynamic!BlockRefused(a) \/ Dynamic!Blocked(a) \/ Dynamic!UnblockOutputPin(a)
      \/ Dynamic!BeginChange(a) \/ Dynamic!CompleteConnect(a)

StreamerStep ==
    \E s \in Streamers :
      \/ Dynamic!StartUsingOutputPin(s) \/ Dynamic!StartWaiting(s) \/ Dynamic!StreamStep(s)
      \/ Dynamic!ChangeMediaType(s) \/ Dynamic!ChangeFails(s)

FilterStep == Dynamic!Active \/ Dynamic!Inactive \/ Dynamic!DeliverBeginFlush \/ Dynamic!DeliverEndFlush

LEMMA DynamicSteps == Dynamic!Next => AppStep \/ StreamerStep \/ FilterStep
BY DEF Dynamic!Next, AppStep, StreamerStep, FilterStep

LEMMA AppKept ==
    ASSUME DynamicInv, AppStep
    PROVE  PinTyped' /\ BlockInv' /\ ConnectionInv'
<1> USE DEF DynamicInv, PinTyped, BlockInv, Dynamic!blockVars, Dynamic!connVars
<1>1. ASSUME NEW a \in Apps, NEW synchronous \in BOOLEAN, Dynamic!Block(a, synchronous)
      PROVE  PinTyped' /\ BlockInv' /\ ConnectionInv'
  <2>1. a # None
    BY ThreadsApart
  <2>2. CASE m_dwNumOutstandingOutputPinUsers = 0
    <3>1. /\ m_BlockState' = "blocked" /\ m_hUnblockOutputPinEvent' = FALSE
          /\ event' = [event EXCEPT ![a] = TRUE] /\ m_hNotifyCallerPinBlockedEvent' = None
      BY <1>1, <2>1, <2>2 DEF Dynamic!Block, Dynamic!BlockOutputPin
    <3> QED BY <1>1, <2>1, <2>2, <3>1 DEF Dynamic!Block, ConnectionInv, Changing
  <2>3. CASE m_dwNumOutstandingOutputPinUsers # 0
    <3>1. /\ m_BlockState' = "pending" /\ m_hNotifyCallerPinBlockedEvent' = a
          /\ event' = [event EXCEPT ![a] = FALSE] /\ UNCHANGED m_hUnblockOutputPinEvent
      BY <1>1, <2>3 DEF Dynamic!Block
    <3> QED BY <1>1, <2>1, <3>1 DEF Dynamic!Block, ConnectionInv, Changing
  <2> QED BY <2>2, <2>3
<1>2. ASSUME NEW a \in Apps, Dynamic!BlockRefused(a)
      PROVE  PinTyped' /\ BlockInv' /\ ConnectionInv'
  BY <1>2 DEF Dynamic!BlockRefused, ConnectionInv, Changing
<1>3. ASSUME NEW a \in Apps, Dynamic!Blocked(a)
      PROVE  PinTyped' /\ BlockInv' /\ ConnectionInv'
  BY <1>3 DEF Dynamic!Blocked, ConnectionInv, Changing
<1>4. ASSUME NEW a \in Apps, Dynamic!UnblockOutputPin(a)
      PROVE  PinTyped' /\ BlockInv' /\ ConnectionInv'
  <2>1. /\ m_BlockState # "not" /\ \A b \in Apps : app[b] # "change"
        /\ m_hUnblockOutputPinEvent' = TRUE
        /\ event' \in [Apps -> BOOLEAN] /\ undone' = [b \in Apps |-> TRUE]
        /\ m_BlockState' = "not" /\ m_dwBlockCallerThreadID' = None
        /\ m_hNotifyCallerPinBlockedEvent' = None
        /\ UNCHANGED << m_dwNumOutstandingOutputPinUsers, m_hStopEvent, app, streamer, active, flushing, outType, inType,
                        committed, broken >>
    BY <1>4 DEF Dynamic!UnblockOutputPin, Dynamic!UnblockWith
  <2> QED BY <2>1, ThreadsApart DEF ConnectionInv, Changing
<1>5. ASSUME NEW a \in Apps, Dynamic!BeginChange(a)
      PROVE  PinTyped' /\ BlockInv' /\ ConnectionInv'
  BY <1>5 DEF Dynamic!BeginChange, ConnectionInv, Changing
<1>6. ASSUME NEW a \in Apps, Dynamic!CompleteConnect(a)
      PROVE  PinTyped' /\ BlockInv' /\ ConnectionInv'
  BY <1>6 DEF Dynamic!CompleteConnect, ConnectionInv, Changing
<1> QED BY <1>1, <1>2, <1>3, <1>4, <1>5, <1>6 DEF AppStep

LEMMA StreamerKept ==
    ASSUME DynamicInv, StreamerStep
    PROVE  PinTyped' /\ BlockInv' /\ ConnectionInv'
<1> PICK s \in Streamers :
      \/ Dynamic!StartUsingOutputPin(s) \/ Dynamic!StartWaiting(s) \/ Dynamic!StreamStep(s)
      \/ Dynamic!ChangeMediaType(s) \/ Dynamic!ChangeFails(s)
  BY DEF StreamerStep
<1> USE DEF DynamicInv, PinTyped, BlockInv, Dynamic!blockVars, Dynamic!connVars, Dynamic!At
<1>1. CASE Dynamic!StartUsingOutputPin(s) \/ Dynamic!Retry(s)
  <2>1. /\ m_BlockState # "blocked" /\ streamer[s] \in {"idle", "retry"}
        /\ streamer' = [streamer EXCEPT ![s] = "use"] /\ Dynamic!UsersOnly
    BY <1>1 DEF Dynamic!StartUsingOutputPin, Dynamic!Retry, Dynamic!UseUnlessBlocked
  <2>2. \A r \in Streamers : Changing(r)' <=> Changing(r)
    BY <2>1 DEF Changing
  <2>3. PinTyped' /\ BlockInv'
    BY <2>1 DEF Dynamic!UsersOnly
  <2>4. ConnectionInv'
    BY <2>1, <2>2 DEF Dynamic!UsersOnly, ConnectionInv
  <2> QED BY <2>3, <2>4
<1>2. CASE Dynamic!StartWaiting(s) \/ Dynamic!Wake(s) \/ Dynamic!StateChanged(s) \/ Dynamic!WaitAgain(s)
  <2>1. /\ streamer[s] \in {"idle", "wait", "retry"}
        /\ \E to \in {"idle", "wait", "retry"} : streamer' = [streamer EXCEPT ![s] = to]
        /\ UNCHANGED << Dynamic!blockVars, m_hStopEvent, app, active, flushing, Dynamic!connVars >>
    BY <1>2 DEF Dynamic!StartWaiting, Dynamic!Wake, Dynamic!StateChanged, Dynamic!WaitAgain
  <2>2. \A r \in Streamers : Changing(r)' <=> Changing(r)
    BY <2>1 DEF Changing
  <2>3. PinTyped' /\ BlockInv'
    BY <2>1
  <2>4. ConnectionInv'
    BY <2>1, <2>2 DEF ConnectionInv
  <2> QED BY <2>3, <2>4
<1>3. CASE Dynamic!StopUsingOutputPin(s)
  <2>1. /\ streamer[s] = "use" /\ streamer' = [streamer EXCEPT ![s] = "idle"]
        /\ UNCHANGED << m_dwBlockCallerThreadID, undone, m_hStopEvent, app, active, flushing, outType, inType, committed,
                        broken >>
    BY <1>3 DEF Dynamic!StopUsingOutputPin
  <2>2. \A r \in Streamers : Changing(r)' <=> Changing(r)
    BY <2>1 DEF Changing
  <2>3. ConnectionInv'
    BY <2>1, <2>2 DEF ConnectionInv
  <2>4. m_dwNumOutstandingOutputPinUsers # 0 /\ m_BlockState # "blocked"
    <3>1. s \in Dynamic!InUse
      BY <2>1 DEF Dynamic!InUse
    <3> QED BY <3>1, NobodyUses
  <2>5. CASE m_dwNumOutstandingOutputPinUsers = 1 /\ m_BlockState # "not"
    <3> DEFINE c == m_hNotifyCallerPinBlockedEvent
    <3>1. c \in Apps
      BY <2>4, <2>5
    <3>2. /\ m_BlockState' = "blocked" /\ m_hUnblockOutputPinEvent' = FALSE
          /\ event' = [event EXCEPT ![c] = TRUE] /\ m_hNotifyCallerPinBlockedEvent' = None
      BY <1>3, <2>5, <3>1, ThreadsApart DEF Dynamic!StopUsingOutputPin, Dynamic!BlockOutputPin
    <3>3. m_dwNumOutstandingOutputPinUsers' = 0
      BY <1>3, <2>5 DEF Dynamic!StopUsingOutputPin
    <3>4. event' \in [Apps -> BOOLEAN] /\ \A a \in Apps : event[a] => event'[a]
      BY <3>2
    <3> QED BY <2>1, <2>3, <2>5, <3>2, <3>3, <3>4
  <2>6. CASE ~(m_dwNumOutstandingOutputPinUsers = 1 /\ m_BlockState # "not")
    BY <1>3, <2>1, <2>3, <2>4, <2>6 DEF Dynamic!StopUsingOutputPin
  <2> QED BY <2>5, <2>6
<1>4. CASE Dynamic!ChangeMediaType(s)
  BY <1>4 DEF Dynamic!ChangeMediaType, ConnectionInv, Changing
<1>5. CASE Dynamic!ChangeFails(s)
  BY <1>5 DEF Dynamic!ChangeFails, ConnectionInv
<1>6. CASE Dynamic!Decommit(s)
  <2>1. streamer' = [streamer EXCEPT ![s] = "decide"]
    BY <1>6 DEF Dynamic!Decommit
  <2>2. Changing(s)'
    BY <2>1 DEF Changing
  <2> QED BY <1>6, <2>1, <2>2 DEF Dynamic!Decommit, ConnectionInv
<1>7. CASE Dynamic!DecideFails(s)
  BY <1>7 DEF Dynamic!DecideFails, ConnectionInv
<1>8. CASE Dynamic!Commit(s)
  BY <1>8 DEF Dynamic!Commit, ConnectionInv
<1> QED BY <1>1, <1>2, <1>3, <1>4, <1>5, <1>6, <1>7, <1>8 DEF Dynamic!StreamStep

LEMMA FilterKept ==
    ASSUME DynamicInv, FilterStep
    PROVE  PinTyped' /\ BlockInv' /\ ConnectionInv'
<1> USE DEF DynamicInv, PinTyped, BlockInv, ConnectionInv, Changing, Dynamic!blockVars, Dynamic!connVars
<1>1. CASE Dynamic!Active
  BY <1>1 DEF Dynamic!Active
<1>2. CASE Dynamic!Inactive
  BY <1>2 DEF Dynamic!Inactive
<1>3. CASE Dynamic!DeliverBeginFlush
  BY <1>3 DEF Dynamic!DeliverBeginFlush
<1>4. CASE Dynamic!DeliverEndFlush
  BY <1>4 DEF Dynamic!DeliverEndFlush
<1> QED BY <1>1, <1>2, <1>3, <1>4 DEF FilterStep

\* The users are counted.
LEMMA UsersCounted ==
    ASSUME DynamicInv, Dynamic!Next
    PROVE  CountInv'
<1> DEFINE uses(s) == streamer[s] \in {"use", "decommit", "decide"}
<1> USE DEF DynamicInv, PinTyped, Dynamic!At, Dynamic!blockVars
<1>1. ASSUME UNCHANGED m_dwNumOutstandingOutputPinUsers, \A s \in Streamers : uses(s)' <=> uses(s)
      PROVE  CountInv'
  <2>1. Dynamic!InUse' = Dynamic!InUse
    BY <1>1 DEF Dynamic!InUse
  <2> QED BY <1>1, <2>1 DEF CountInv
<1>2. CASE AppStep
  <2>1. UNCHANGED << streamer, m_dwNumOutstandingOutputPinUsers >>
    BY <1>2 DEF AppStep, Dynamic!Block, Dynamic!BlockRefused, Dynamic!Blocked, Dynamic!UnblockOutputPin,
       Dynamic!UnblockWith, Dynamic!BeginChange, Dynamic!CompleteConnect
  <2> QED BY <1>1, <2>1
<1>3. CASE FilterStep
  <2>1. UNCHANGED << streamer, m_dwNumOutstandingOutputPinUsers >>
    BY <1>3 DEF FilterStep, Dynamic!Active, Dynamic!Inactive, Dynamic!DeliverBeginFlush, Dynamic!DeliverEndFlush
  <2> QED BY <1>1, <2>1
<1>4. ASSUME NEW s \in Streamers, Dynamic!StartUsingOutputPin(s) \/ Dynamic!Retry(s)
      PROVE  CountInv'
  <2>1. /\ streamer[s] \in {"idle", "retry"} /\ streamer' = [streamer EXCEPT ![s] = "use"]
        /\ m_dwNumOutstandingOutputPinUsers' = m_dwNumOutstandingOutputPinUsers + 1
    BY <1>4 DEF Dynamic!StartUsingOutputPin, Dynamic!Retry, Dynamic!UseUnlessBlocked
  <2>2. Dynamic!InUse' = Dynamic!InUse \cup {s} /\ s \notin Dynamic!InUse
    BY <2>1 DEF Dynamic!InUse
  <2>3. Cardinality(Dynamic!InUse \cup {s}) = Cardinality(Dynamic!InUse) + 1
    BY <2>2, Users, FS_AddElement
  <2> QED BY <2>1, <2>2, <2>3 DEF CountInv
<1>5. ASSUME NEW s \in Streamers, Dynamic!StopUsingOutputPin(s)
      PROVE  CountInv'
  <2>1. /\ streamer[s] = "use" /\ streamer' = [streamer EXCEPT ![s] = "idle"]
        /\ m_dwNumOutstandingOutputPinUsers' = m_dwNumOutstandingOutputPinUsers - 1
    BY <1>5 DEF Dynamic!StopUsingOutputPin
  <2>2. Dynamic!InUse' = Dynamic!InUse \ {s} /\ s \in Dynamic!InUse
    BY <2>1 DEF Dynamic!InUse
  <2>3. Cardinality(Dynamic!InUse \ {s}) = Cardinality(Dynamic!InUse) - 1
    BY <2>2, Users, FS_RemoveElement
  <2> QED BY <2>1, <2>2, <2>3 DEF CountInv
<1>6. ASSUME NEW s \in Streamers,
             \/ Dynamic!StartWaiting(s) \/ Dynamic!Wake(s) \/ Dynamic!StateChanged(s) \/ Dynamic!WaitAgain(s)
             \/ Dynamic!ChangeMediaType(s) \/ Dynamic!ChangeFails(s) \/ Dynamic!Decommit(s) \/ Dynamic!DecideFails(s)
             \/ Dynamic!Commit(s)
      PROVE  CountInv'
  <2>1. /\ UNCHANGED m_dwNumOutstandingOutputPinUsers
        /\ \E from, to \in {"idle", "wait", "retry", "use", "decommit", "decide"} :
             /\ from \in {"use", "decommit", "decide"} <=> to \in {"use", "decommit", "decide"}
             /\ streamer[s] = from /\ streamer' = [streamer EXCEPT ![s] = to]
    BY <1>6 DEF Dynamic!StartWaiting, Dynamic!Wake, Dynamic!StateChanged, Dynamic!WaitAgain, Dynamic!ChangeMediaType,
       Dynamic!ChangeFails, Dynamic!Decommit, Dynamic!DecideFails, Dynamic!Commit
  <2>2. \A r \in Streamers : uses(r)' <=> uses(r)
    BY <2>1
  <2> QED BY <1>1, <2>1, <2>2
<1> QED BY <1>2, <1>3, <1>4, <1>5, <1>6, DynamicSteps DEF StreamerStep, Dynamic!StreamStep

LEMMA DynamicKept ==
    ASSUME DynamicInv, [Dynamic!Next]_dynamicVars
    PROVE  DynamicInv'
<1>1. CASE Dynamic!Next
  BY <1>1, DynamicSteps, AppKept, StreamerKept, FilterKept, UsersCounted DEF DynamicInv
<1>2. CASE UNCHANGED dynamicVars
  <2>1. PinTyped' /\ BlockInv'
    BY <1>2 DEF dynamicVars, DynamicInv, PinTyped, BlockInv
  <2>2. CountInv' /\ ConnectionInv'
    BY <1>2 DEF dynamicVars, DynamicInv, CountInv, Dynamic!InUse, ConnectionInv, Changing
  <2> QED BY <2>1, <2>2 DEF DynamicInv
<1> QED BY <1>1, <1>2

LEMMA DynamicSound == DynamicInv => Dynamic!TypeOK /\ Dynamic!BlockSound /\ Dynamic!ConnectionSound
<1> SUFFICES ASSUME DynamicInv PROVE Dynamic!TypeOK /\ Dynamic!BlockSound /\ Dynamic!ConnectionSound
  OBVIOUS
<1>1. m_dwNumOutstandingOutputPinUsers \in 0..Dynamic!Cardinality(Streamers)
  BY Users DEF DynamicInv, CountInv
<1>2. Dynamic!TypeOK
  BY <1>1 DEF DynamicInv, PinTyped, Dynamic!TypeOK
<1>3. m_dwNumOutstandingOutputPinUsers = Dynamic!Cardinality(Dynamic!InUse)
  BY Users DEF DynamicInv, CountInv
<1>4. m_BlockState = "blocked" => Dynamic!InUse = {}
  BY NobodyUses DEF DynamicInv, BlockInv
<1>5. \A a \in Apps : app[a] = "change" => Dynamic!InUse = {}
  BY <1>4 DEF DynamicInv, BlockInv
<1>6. Dynamic!BlockSound
  BY <1>3, <1>4, <1>5 DEF DynamicInv, BlockInv, Dynamic!BlockSound
<1>7. Dynamic!ConnectionSound
  BY DEF DynamicInv, ConnectionInv, Changing, Dynamic!ConnectionSound
<1> QED BY <1>2, <1>6, <1>7

-----------------------------------------------------------------------------
(* Proofs about seeking.                                                   *)

LEMMA Medium == Length \in Nat \ {0} /\ Rates \subseteq Nat \ {0}
BY GraphAssumption DEF Seek!SeekingAssumption

LEMMA SeekStarts == Seek!Init => SeekInv
<1> SUFFICES ASSUME Seek!Init PROVE SeekInv
  OBVIOUS
<1> USE Medium DEF Seek!Init
<1>1. SourceTyped
  BY DEF SourceTyped, Seek!Positions, Seek!NoCall, ChangeLists
<1>2. FlagsTyped
  BY DEF FlagsTyped
<1>3. MediaTyped
  BY DEF MediaTyped, Seek!Positions, Seek!Nothing
<1>4. FramesInv /\ RendererInv /\ TimesInv /\ PlayInv
  BY DEF FramesInv, Playing, RendererInv, TimesInv, PlayInv
<1> QED BY <1>1, <1>2, <1>3, <1>4 DEF SeekInv

Notifiers == {"graph", "worker", "timer"}

LEMMA SeekSteps ==
    ASSUME Seek!Next
    PROVE  \/ Seek!SetPositions
           \/ Seek!put_CurrentPosition
           \/ Seek!put_StopTime
           \/ Seek!SetRate
           \/ Seek!Connect
           \/ Seek!Pause
           \/ Seek!Run
           \/ Seek!Inactive
           \/ Seek!PositionsSet
           \/ Seek!Change
           \/ Seek!BeginFlush
           \/ Seek!FlushBegun
           \/ Seek!EndFlush
           \/ Seek!RunReturns
           \/ Seek!Stop
           \/ Seek!SourceStopped
           \/ Seek!StartSegment
           \/ Seek!FillBuffer
           \/ Seek!WorkerEnds
           \/ Seek!Receive
           \/ Seek!ReceiveReturns
           \/ Seek!EndOfStream
           \/ Seek!EndOfStreamTimer
           \/ \E t \in Notifiers : Seek!NotifyEndOfStream(t)
BY DEF Seek!Next, Seek!InCall, Seek!WorkerNext, Notifiers

\* What is left to do when the first change is done.
LEMMA Popped ==
    \A c \in ChangeLists : c # << >> =>
      /\ Tail(c) \in ChangeLists
      /\ Tail(c) = << >> => c \in { << "ChangeStart" >>, << "ChangeStop" >>, << "ChangeRate" >> }
      /\ Tail(c) # << "ChangeStop" >>
<1> SUFFICES ASSUME NEW c \in ChangeLists, c # << >>
             PROVE  /\ Tail(c) \in ChangeLists
                    /\ Tail(c) = << >> => c \in { << "ChangeStart" >>, << "ChangeStop" >>, << "ChangeRate" >> }
                    /\ Tail(c) # << "ChangeStop" >>
  OBVIOUS
<1>1. CASE c \in { << "ChangeStart" >>, << "ChangeStop" >>, << "ChangeRate" >> }
  <2>1. Tail(<< "ChangeStart" >>) = << >> /\ Tail(<< "ChangeStop" >>) = << >> /\ Tail(<< "ChangeRate" >>) = << >>
    OBVIOUS
  <2>2. Tail(c) = << >>
    BY <1>1, <2>1
  <2>3. << >> \in ChangeLists
    BY DEF ChangeLists
  <2>4. << >> # << "ChangeStop" >>
    OBVIOUS
  <2> QED BY <1>1, <2>2, <2>3, <2>4
<1>2. CASE c = << "ChangeStop", "ChangeStart" >>
  <2>1. Tail(c) = << "ChangeStart" >>
    BY <1>2
  <2> QED BY <2>1 DEF ChangeLists
<1> QED BY <1>1, <1>2 DEF ChangeLists

LEMMA BothChanges == << "ChangeStop" >> \o << "ChangeStart" >> = << "ChangeStop", "ChangeStart" >>
<1> DEFINE S == {"ChangeStop", "ChangeStart"}
           s == << "ChangeStop" >>
           t == << "ChangeStart" >>
           u == << "ChangeStop", "ChangeStart" >>
<1>1. /\ s \in Seq(S) /\ t \in Seq(S) /\ u \in Seq(S) /\ Len(s) = 1 /\ Len(t) = 1 /\ Len(u) = 2
      /\ s[1] = "ChangeStop" /\ t[1] = "ChangeStart" /\ u[1] = "ChangeStop" /\ u[2] = "ChangeStart"
  OBVIOUS
<1> HIDE DEF s, t, u, S
<1>2. /\ s \o t \in Seq(S) /\ Len(s \o t) = Len(s) + Len(t)
      /\ \A i \in 1 .. Len(s) + Len(t) : (s \o t)[i] = IF i <= Len(s) THEN s[i] ELSE t[i - Len(s)]
  BY <1>1, ConcatProperties
<1>3. Len(s \o t) = 2 /\ (s \o t)[1] = "ChangeStop" /\ (s \o t)[2] = "ChangeStart"
  BY <1>1, <1>2
<1>4. \A i \in 1..2 : (s \o t)[i] = u[i]
  BY <1>1, <1>3
<1>5. s \o t = u
  BY <1>1, <1>2, <1>3, <1>4, SeqEqual
<1> QED BY <1>5 DEF s, t, u

\* The changes SetPositions leads to: the stop position's first.
LEMMA ChangesListed ==
    ASSUME NEW startWay, NEW stopWay
    PROVE  /\ Seek!Changes(startWay, stopWay) \in ChangeLists
           /\ Seek!Changes(startWay, stopWay) \in { << >>, << "ChangeStop" >> } <=> startWay = "None"
           /\ Seek!Changes(startWay, stopWay) = << >> => stopWay = "None"
<1>1. /\ << >> \o << >> = << >> /\ << "ChangeStop" >> \o << >> = << "ChangeStop" >>
      /\ << >> \o << "ChangeStart" >> = << "ChangeStart" >>
      /\ << "ChangeStop" >> \o << "ChangeStart" >> = << "ChangeStop", "ChangeStart" >>
  <2>1. << >> \o << >> = << >>
    OBVIOUS
  <2>2. << "ChangeStop" >> \o << >> = << "ChangeStop" >>
    OBVIOUS
  <2>3. << >> \o << "ChangeStart" >> = << "ChangeStart" >>
    OBVIOUS
  <2>4. << "ChangeStop" >> \o << "ChangeStart" >> = << "ChangeStop", "ChangeStart" >>
    BY BothChanges
  <2> QED BY <2>1, <2>2, <2>3, <2>4
<1>2. CASE startWay = "None" /\ stopWay = "None"
  <2>1. Seek!Changes(startWay, stopWay) = << >>
    BY <1>1, <1>2 DEF Seek!Changes
  <2> QED BY <1>2, <2>1 DEF ChangeLists
<1>3. CASE startWay = "None" /\ stopWay # "None"
  <2>1. Seek!Changes(startWay, stopWay) = << "ChangeStop" >>
    BY <1>1, <1>3 DEF Seek!Changes
  <2> QED BY <1>3, <2>1 DEF ChangeLists
<1>4. CASE startWay # "None" /\ stopWay = "None"
  <2>1. Seek!Changes(startWay, stopWay) = << "ChangeStart" >>
    BY <1>1, <1>4 DEF Seek!Changes
  <2> QED BY <1>4, <2>1 DEF ChangeLists
<1>5. CASE startWay # "None" /\ stopWay # "None"
  <2>1. Seek!Changes(startWay, stopWay) = << "ChangeStop", "ChangeStart" >>
    BY <1>1, <1>5 DEF Seek!Changes
  <2> QED BY <1>5, <2>1 DEF ChangeLists
<1> QED BY <1>2, <1>3, <1>4, <1>5

LEMMA SourceStays ==
    ASSUME SeekInv, Seek!Next
    PROVE  SourceTyped'
<1> USE DEF Seek!linkVars, Seek!sourceVars, Seek!stateVars, Seek!eosVars, Seek!posVars, Seek!workerVars,
   Seek!graphVars
<1>1. ASSUME UNCHANGED << m_rtStart, m_rtStop, m_dRateSeeking, call >> PROVE SourceTyped'
  BY <1>1 DEF SeekInv, SourceTyped
<1>2. CASE Seek!Connect \/ Seek!Pause \/ Seek!Run \/ Seek!Inactive \/ Seek!BeginFlush \/ Seek!FlushBegun
  <2>1. UNCHANGED << m_rtStart, m_rtStop, m_dRateSeeking, call >>
    BY <1>2 DEF Seek!Connect, Seek!Pause, Seek!Run, Seek!SendEndOfStream, Seek!Inactive, Seek!ResetMediaTime,
   Seek!BeginFlush, Seek!FlushBegun, Seek!ResetEndOfStream
  <2> QED BY <1>1, <2>1
<1>3. CASE Seek!EndFlush \/ Seek!RunReturns \/ Seek!Stop \/ Seek!SourceStopped \/ Seek!StartSegment \/ Seek!FillBuffer
  <2>1. UNCHANGED << m_rtStart, m_rtStop, m_dRateSeeking, call >>
    BY <1>3 DEF Seek!EndFlush, Seek!ResetMediaTime, Seek!RunReturns, Seek!Stop, Seek!ResetEndOfStream,
   Seek!SourceStopped, Seek!StartSegment, Seek!FillBuffer
  <2> QED BY <1>1, <2>1
<1>4. CASE Seek!WorkerEnds \/ Seek!Receive \/ Seek!ReceiveReturns \/ Seek!EndOfStream \/ Seek!EndOfStreamTimer
  <2>1. UNCHANGED << m_rtStart, m_rtStop, m_dRateSeeking, call >>
    BY <1>4 DEF Seek!WorkerEnds, Seek!Receive, Seek!RegisterMediaTime, Seek!ReceiveReturns, Seek!EndOfStream,
   Seek!SendEndOfStream, Seek!EndOfStreamTimer
  <2> QED BY <1>1, <2>1
<1>5. CASE Seek!SetPositions
  <2>1. PICK startWay \in Seek!Ways \ {"Incremental"}, stopWay \in Seek!Ways :
         \E by \in Seek!Amounts(startWay), to \in Seek!Amounts(stopWay) :
            LET start == Seek!NewStart(startWay, by)
                stop  == Seek!NewStop(stopWay, to, start)
            IN  /\ {start, stop} \subseteq Seek!Positions
                /\ m_rtStart' = start
                /\ call' = [stop |-> stop, changes |-> Seek!Changes(startWay, stopWay)]
    BY <1>5 DEF Seek!SetPositions
  <2>2. Seek!Changes(startWay, stopWay) \in ChangeLists
    BY ChangesListed
  <2>3. PICK stop \in Seek!Positions :
          m_rtStart' \in Seek!Positions /\ call' = [stop |-> stop, changes |-> Seek!Changes(startWay, stopWay)]
    BY <2>1
  <2>4. UNCHANGED << m_rtStop, m_dRateSeeking >>
    BY <1>5 DEF Seek!SetPositions
  <2> QED BY <2>2, <2>3, <2>4 DEF SeekInv, SourceTyped
<1>6. CASE Seek!put_CurrentPosition
  BY Medium, <1>6 DEF SeekInv, SourceTyped, Seek!put_CurrentPosition, Seek!Put, ChangeLists, Seek!Positions
<1>7. CASE Seek!put_StopTime
  BY Medium, <1>7 DEF SeekInv, SourceTyped, Seek!put_StopTime, Seek!Put, ChangeLists, Seek!Positions
<1>8. CASE Seek!SetRate
  BY Medium, <1>8 DEF SeekInv, SourceTyped, Seek!SetRate, ChangeLists, Seek!Positions
<1>9. CASE Seek!PositionsSet
  BY Medium, <1>9 DEF SeekInv, SourceTyped, Seek!PositionsSet, ChangeLists, Seek!Positions
<1>10. CASE Seek!Change
  <2>1. UNCHANGED << m_rtStart, m_rtStop, m_dRateSeeking >>
    BY <1>10 DEF Seek!Change
  <2>2. CASE call.changes = << >>
    <3>1. call' = [stop |-> 0, changes |-> << >>]
      BY <1>10, <2>2 DEF Seek!Change, Seek!NoCall
    <3> QED BY <2>1, <3>1, Medium DEF SeekInv, SourceTyped, ChangeLists, Seek!Positions
  <2>3. CASE call.changes # << >>
    <3>1. call' = [call EXCEPT !.changes = Tail(@)]
      BY <1>10, <2>3 DEF Seek!Change
    <3>2. Tail(call.changes) \in ChangeLists
      BY <2>3, Popped DEF SeekInv, SourceTyped
    <3> QED BY <2>1, <3>1, <3>2 DEF SeekInv, SourceTyped
  <2> QED BY <2>2, <2>3
<1>11. ASSUME NEW t \in Notifiers, Seek!NotifyEndOfStream(t) PROVE SourceTyped'
  <2>1. UNCHANGED << m_rtStart, m_rtStop, m_dRateSeeking, call >>
    BY <1>11 DEF Seek!NotifyEndOfStream, Seek!AskStop, Seek!SetStop, Seek!Unlock, Seek!EOS, Seek!Delivered,
   Seek!ResetMediaTime
  <2> QED BY <1>1, <2>1
<1> QED BY <1>2, <1>3, <1>4, <1>5, <1>6, <1>7, <1>8, <1>9, <1>10, <1>11, SeekSteps

LEMMA FlagsStay ==
    ASSUME SeekInv, Seek!Next
    PROVE  FlagsTyped'
<1> USE DEF Seek!linkVars, Seek!sourceVars, Seek!stateVars, Seek!eosVars, Seek!posVars, Seek!workerVars,
   Seek!graphVars
<1>1. ASSUME UNCHANGED << m_pLock, m_InterfaceLock, m_RendererLock, m_State, connected, m_bStreaming,
   m_bFlushing, m_bEOS, m_bEOSDelivered, m_EndOfStreamTimer, m_bReset >> PROVE FlagsTyped'
  BY <1>1 DEF SeekInv, FlagsTyped
<1>2. CASE Seek!put_CurrentPosition \/ Seek!put_StopTime \/ Seek!SetRate \/ Seek!RunReturns \/ Seek!SourceStopped \/ Seek!StartSegment
  <2>1. UNCHANGED << m_pLock, m_InterfaceLock, m_RendererLock, m_State, connected, m_bStreaming, m_bFlushing,
   m_bEOS, m_bEOSDelivered, m_EndOfStreamTimer, m_bReset >>
    BY <1>2 DEF Seek!put_CurrentPosition, Seek!Put, Seek!put_StopTime, Seek!SetRate, Seek!RunReturns,
   Seek!SourceStopped, Seek!StartSegment
  <2> QED BY <1>1, <2>1
<1>3. CASE Seek!FillBuffer \/ Seek!WorkerEnds \/ Seek!ReceiveReturns
  <2>1. UNCHANGED << m_pLock, m_InterfaceLock, m_RendererLock, m_State, connected, m_bStreaming, m_bFlushing,
   m_bEOS, m_bEOSDelivered, m_EndOfStreamTimer, m_bReset >>
    BY <1>3 DEF Seek!FillBuffer, Seek!WorkerEnds, Seek!ReceiveReturns
  <2> QED BY <1>1, <2>1
<1>4. CASE Seek!SetPositions
  BY Medium, <1>4 DEF SeekInv, FlagsTyped, Seek!SetPositions
<1>5. CASE Seek!Connect
  BY Medium, <1>5 DEF SeekInv, FlagsTyped, Seek!Connect
<1>6. CASE Seek!Pause
  BY Medium, <1>6 DEF SeekInv, FlagsTyped, Seek!Pause
<1>7. CASE Seek!Run
  BY Medium, <1>7 DEF SeekInv, FlagsTyped, Seek!Run, Seek!SendEndOfStream
<1>8. CASE Seek!Inactive
  BY Medium, <1>8 DEF SeekInv, FlagsTyped, Seek!Inactive, Seek!ResetMediaTime
<1>9. CASE Seek!PositionsSet
  BY Medium, <1>9 DEF SeekInv, FlagsTyped, Seek!PositionsSet
<1>10. CASE Seek!Change
  BY Medium, <1>10 DEF SeekInv, FlagsTyped, Seek!Change
<1>11. CASE Seek!BeginFlush
  BY Medium, <1>11 DEF SeekInv, FlagsTyped, Seek!BeginFlush
<1>12. CASE Seek!FlushBegun
  BY Medium, <1>12 DEF SeekInv, FlagsTyped, Seek!FlushBegun, Seek!ResetEndOfStream
<1>13. CASE Seek!EndFlush
  BY Medium, <1>13 DEF SeekInv, FlagsTyped, Seek!EndFlush, Seek!ResetMediaTime
<1>14. CASE Seek!Stop
  BY Medium, <1>14 DEF SeekInv, FlagsTyped, Seek!Stop, Seek!ResetEndOfStream
<1>15. CASE Seek!Receive
  BY ZenonT(60), Medium, <1>15 DEF SeekInv, FlagsTyped, Seek!Receive, Seek!RegisterMediaTime
<1>16. CASE Seek!EndOfStream
  BY ZenonT(60), Medium, <1>16 DEF SeekInv, FlagsTyped, Seek!EndOfStream, Seek!SendEndOfStream
<1>17. CASE Seek!EndOfStreamTimer
  BY ZenonT(60), Medium, <1>17 DEF SeekInv, FlagsTyped, Seek!EndOfStreamTimer
<1>18. ASSUME NEW t \in Notifiers, Seek!NotifyEndOfStream(t) PROVE FlagsTyped'
  <2>1. CASE Seek!AskStop(t)
    <3>1. UNCHANGED << m_pLock, m_State, connected, m_bStreaming, m_bFlushing, m_bEOS, m_EndOfStreamTimer, m_bReset >>
      BY <1>18, <2>1 DEF Seek!NotifyEndOfStream, Seek!AskStop
    <3>2. m_bEOSDelivered' \in {TRUE, m_bEOSDelivered}
      BY <1>18, <2>1 DEF Seek!AskStop, Seek!Delivered
    <3>3. m_RendererLock' \in {"free", m_RendererLock} /\ m_InterfaceLock' \in {"free", m_InterfaceLock}
      <4>1. Seek!Unlock(t) \/ UNCHANGED << m_InterfaceLock, m_RendererLock >>
        BY <1>18, <2>1 DEF Seek!AskStop
      <4>2. CASE Seek!Unlock(t)
        BY <4>2 DEF Seek!Unlock
      <4> QED BY <4>1, <4>2
    <3>4. /\ m_RendererLock' \in {"free", "graph", "worker", "timer"}
          /\ m_InterfaceLock' \in {"free", "graph", "worker", "timer"}
      BY <3>3 DEF SeekInv, FlagsTyped
    <3>5. m_bEOSDelivered' \in BOOLEAN
      BY <3>2 DEF SeekInv, FlagsTyped
    <3> QED BY <3>1, <3>4, <3>5 DEF SeekInv, FlagsTyped
  <2>2. CASE Seek!SetStop(t)
    <3>1. UNCHANGED << m_pLock, m_State, connected, m_bStreaming, m_bFlushing, m_bEOS, m_EndOfStreamTimer, m_bReset >>
      BY <1>18, <2>2 DEF Seek!NotifyEndOfStream, Seek!SetStop, Seek!EOS
    <3>2. m_bEOSDelivered' = TRUE /\ m_RendererLock' = "free" /\ m_InterfaceLock' \in {"free", m_InterfaceLock}
      BY <1>18, <2>2 DEF Seek!NotifyEndOfStream, Seek!SetStop, Seek!Unlock, Seek!Delivered
    <3> QED BY <3>1, <3>2 DEF SeekInv, FlagsTyped
  <2> QED BY <1>18, <2>1, <2>2 DEF Seek!NotifyEndOfStream
<1> QED BY <1>2, <1>3, <1>4, <1>5, <1>6, <1>7, <1>8, <1>9, <1>10, <1>11, <1>12, <1>13, <1>14, <1>15, <1>16,
   <1>17, <1>18, SeekSteps

LEMMA MediaStays ==
    ASSUME SeekInv, Seek!Next
    PROVE  MediaTyped'
<1> USE DEF Seek!linkVars, Seek!sourceVars, Seek!stateVars, Seek!eosVars, Seek!posVars, Seek!workerVars,
   Seek!graphVars
<1>1. ASSUME UNCHANGED << m_StartMedia, m_EndMedia, m_rtSampleTime, last, segment, llStop, received >> PROVE MediaTyped'
  BY <1>1 DEF SeekInv, MediaTyped, SourceTyped, FramesInv, Playing
<1>2. CASE Seek!SetPositions \/ Seek!put_CurrentPosition \/ Seek!put_StopTime \/ Seek!SetRate \/ Seek!Connect \/ Seek!Pause
  <2>1. UNCHANGED << m_StartMedia, m_EndMedia, m_rtSampleTime, last, segment, llStop, received >>
    BY <1>2 DEF Seek!SetPositions, Seek!put_CurrentPosition, Seek!Put, Seek!put_StopTime, Seek!SetRate,
   Seek!Connect, Seek!Pause
  <2> QED BY <1>1, <2>1
<1>3. CASE Seek!Run \/ Seek!PositionsSet \/ Seek!Change \/ Seek!BeginFlush \/ Seek!FlushBegun \/ Seek!RunReturns
  <2>1. UNCHANGED << m_StartMedia, m_EndMedia, m_rtSampleTime, last, segment, llStop, received >>
    BY <1>3 DEF Seek!Run, Seek!SendEndOfStream, Seek!PositionsSet, Seek!Change, Seek!BeginFlush,
   Seek!FlushBegun, Seek!ResetEndOfStream, Seek!RunReturns
  <2> QED BY <1>1, <2>1
<1>4. CASE Seek!Stop \/ Seek!SourceStopped \/ Seek!WorkerEnds \/ Seek!ReceiveReturns \/ Seek!EndOfStream \/ Seek!EndOfStreamTimer
  <2>1. UNCHANGED << m_StartMedia, m_EndMedia, m_rtSampleTime, last, segment, llStop, received >>
    BY <1>4 DEF Seek!Stop, Seek!ResetEndOfStream, Seek!SourceStopped, Seek!WorkerEnds, Seek!ReceiveReturns,
   Seek!EndOfStream, Seek!SendEndOfStream, Seek!EndOfStreamTimer
  <2> QED BY <1>1, <2>1
<1>5. CASE Seek!Inactive
  BY Medium, <1>5 DEF SeekInv, MediaTyped, SourceTyped, FramesInv, Playing, Seek!Inactive, Seek!ResetMediaTime,
   Seek!Positions, Seek!Nothing, Seek!GetStopPosition, Seek!Forward
<1>6. CASE Seek!EndFlush
  <2>1. m_StartMedia' = 0 /\ m_EndMedia' = 0 /\ received' = -1
    BY <1>6 DEF Seek!EndFlush, Seek!ResetMediaTime, Seek!Nothing
  <2>2. UNCHANGED << m_rtSampleTime, last, segment, llStop >>
    BY <1>6 DEF Seek!EndFlush
  <2>3. 0 \in 0 .. Length + 1
    BY Medium
  <2> QED BY <2>1, <2>2, <2>3 DEF SeekInv, MediaTyped
<1>7. CASE Seek!StartSegment
  BY Medium, <1>7 DEF SeekInv, MediaTyped, SourceTyped, FramesInv, Playing, Seek!StartSegment, Seek!Positions,
   Seek!Nothing, Seek!GetStopPosition, Seek!Forward
<1>8. CASE Seek!FillBuffer
  BY Medium, <1>8 DEF SeekInv, MediaTyped, SourceTyped, FramesInv, Playing, Seek!FillBuffer, Seek!Positions,
   Seek!Nothing, Seek!GetStopPosition, Seek!Forward
<1>9. CASE Seek!Receive
  <2>1. UNCHANGED << m_rtSampleTime, last, segment, llStop >>
    BY <1>9 DEF Seek!Receive
  <2>2. CASE UNCHANGED << m_StartMedia, m_EndMedia, received >>
    BY <2>1, <2>2 DEF SeekInv, MediaTyped
  <2>3. CASE ~UNCHANGED << m_StartMedia, m_EndMedia, received >>
    <3>1. /\ m_StartMedia' = last - segment.start /\ m_EndMedia' = last - segment.start + 1 /\ received' = last
          /\ worker = "deliver"
      BY <1>9, <2>3 DEF Seek!Receive, Seek!RegisterMediaTime
    <3>2. last \in 0..Length /\ segment.start \in 0..Length /\ segment.start <= last
      BY <3>1 DEF SeekInv, MediaTyped, FramesInv, Seek!Positions
    <3>3. last - segment.start \in 0 .. Length + 1 /\ last - segment.start + 1 \in 0 .. Length + 1
      BY <3>2, Medium
    <3> QED BY <2>1, <3>1, <3>3 DEF SeekInv, MediaTyped
  <2> QED BY <2>2, <2>3
<1>10. ASSUME NEW t \in Notifiers, Seek!NotifyEndOfStream(t) PROVE MediaTyped'
  BY Medium, <1>10 DEF SeekInv, MediaTyped, SourceTyped, FramesInv, Playing, Notifiers, Seek!NotifyEndOfStream,
   Seek!AskStop, Seek!SetStop, Seek!Unlock, Seek!EOS, Seek!Delivered, Seek!ResetMediaTime, Seek!Positions,
   Seek!Nothing, Seek!GetStopPosition, Seek!Forward
<1> QED BY <1>2, <1>3, <1>4, <1>5, <1>6, <1>7, <1>8, <1>9, <1>10, SeekSteps

LEMMA FramesStay ==
    ASSUME SeekInv, Seek!Next
    PROVE  FramesInv'
<1> USE DEF Seek!linkVars, Seek!sourceVars, Seek!stateVars, Seek!eosVars, Seek!posVars, Seek!workerVars,
   Seek!graphVars
<1>1. ASSUME UNCHANGED << worker, segment, m_rtSampleTime, last >> PROVE FramesInv'
  BY <1>1 DEF SeekInv, SourceTyped, MediaTyped, FramesInv, Playing
<1>2. CASE Seek!SetPositions \/ Seek!put_CurrentPosition \/ Seek!put_StopTime \/ Seek!SetRate \/ Seek!Connect \/ Seek!Run
  <2>1. UNCHANGED << worker, segment, m_rtSampleTime, last >>
    BY <1>2 DEF Seek!SetPositions, Seek!put_CurrentPosition, Seek!Put, Seek!put_StopTime, Seek!SetRate,
   Seek!Connect, Seek!Run, Seek!SendEndOfStream
  <2> QED BY <1>1, <2>1
<1>3. CASE Seek!Inactive \/ Seek!PositionsSet \/ Seek!Change \/ Seek!BeginFlush \/ Seek!FlushBegun \/ Seek!RunReturns
  <2>1. UNCHANGED << worker, segment, m_rtSampleTime, last >>
    BY <1>3 DEF Seek!Inactive, Seek!ResetMediaTime, Seek!PositionsSet, Seek!Change, Seek!BeginFlush,
   Seek!FlushBegun, Seek!ResetEndOfStream, Seek!RunReturns
  <2> QED BY <1>1, <2>1
<1>4. CASE Seek!Stop \/ Seek!SourceStopped \/ Seek!EndOfStreamTimer
  <2>1. UNCHANGED << worker, segment, m_rtSampleTime, last >>
    BY <1>4 DEF Seek!Stop, Seek!ResetEndOfStream, Seek!SourceStopped, Seek!EndOfStreamTimer
  <2> QED BY <1>1, <2>1
<1>5. CASE Seek!Pause
  BY Medium, <1>5 DEF SeekInv, SourceTyped, MediaTyped, FramesInv, Playing, Seek!Pause, Seek!Positions
<1>6. CASE Seek!EndFlush
  BY Medium, <1>6 DEF SeekInv, SourceTyped, MediaTyped, FramesInv, Playing, Seek!EndFlush, Seek!ResetMediaTime,
   Seek!Positions
<1>7. CASE Seek!StartSegment
  BY Medium, <1>7 DEF SeekInv, SourceTyped, MediaTyped, FramesInv, Playing, Seek!StartSegment, Seek!Positions
<1>8. CASE Seek!FillBuffer
  BY Medium, <1>8 DEF SeekInv, SourceTyped, MediaTyped, FramesInv, Playing, Seek!FillBuffer, Seek!Positions
<1>9. CASE Seek!WorkerEnds
  BY Medium, <1>9 DEF SeekInv, SourceTyped, MediaTyped, FramesInv, Playing, Seek!WorkerEnds, Seek!Positions
<1>10. CASE Seek!Receive
  BY Medium, <1>10 DEF SeekInv, SourceTyped, MediaTyped, FramesInv, Playing, Seek!Receive,
   Seek!RegisterMediaTime, Seek!Positions
<1>11. CASE Seek!ReceiveReturns
  BY Medium, <1>11 DEF SeekInv, SourceTyped, MediaTyped, FramesInv, Playing, Seek!ReceiveReturns, Seek!Positions
<1>12. CASE Seek!EndOfStream
  BY Medium, <1>12 DEF SeekInv, SourceTyped, MediaTyped, FramesInv, Playing, Seek!EndOfStream,
   Seek!SendEndOfStream, Seek!Positions
<1>13. ASSUME NEW t \in Notifiers, Seek!NotifyEndOfStream(t) PROVE FramesInv'
  <2>1. UNCHANGED << worker, segment, m_rtSampleTime, last >>
    BY <1>13 DEF Seek!NotifyEndOfStream, Seek!AskStop, Seek!SetStop, Seek!Unlock, Seek!EOS, Seek!Delivered,
   Seek!ResetMediaTime
  <2> QED BY <1>1, <2>1
<1> QED BY <1>2, <1>3, <1>4, <1>5, <1>6, <1>7, <1>8, <1>9, <1>10, <1>11, <1>12, <1>13, SeekSteps

LEMMA RendererStays ==
    ASSUME SeekInv, Seek!Next
    PROVE  RendererInv'
<1> USE DEF Seek!linkVars, Seek!sourceVars, Seek!stateVars, Seek!eosVars, Seek!posVars, Seek!workerVars,
   Seek!graphVars
<1>1. ASSUME UNCHANGED << m_State, worker, m_bReset, graph, m_bFlushing, m_EndOfStreamTimer, m_bEOSDelivered,
   m_RendererLock, m_bEOS >> PROVE RendererInv'
  BY <1>1 DEF SeekInv, FlagsTyped, RendererInv
<1>2. CASE Seek!Connect
  <2>1. UNCHANGED << m_State, worker, m_bReset, graph, m_bFlushing, m_EndOfStreamTimer, m_bEOSDelivered,
   m_RendererLock, m_bEOS >>
    BY <1>2 DEF Seek!Connect
  <2> QED BY <1>1, <2>1
<1>3. CASE Seek!SetPositions
  BY Medium, <1>3 DEF SeekInv, FlagsTyped, RendererInv, Seek!SetPositions
<1>4. CASE Seek!put_CurrentPosition
  BY Medium, <1>4 DEF SeekInv, FlagsTyped, RendererInv, Seek!put_CurrentPosition, Seek!Put
<1>5. CASE Seek!put_StopTime
  BY Medium, <1>5 DEF SeekInv, FlagsTyped, RendererInv, Seek!put_StopTime, Seek!Put
<1>6. CASE Seek!SetRate
  BY Medium, <1>6 DEF SeekInv, FlagsTyped, RendererInv, Seek!SetRate
<1>7. CASE Seek!Pause
  BY Medium, <1>7 DEF SeekInv, FlagsTyped, RendererInv, Seek!Pause
<1>8. CASE Seek!Run
  BY Medium, <1>8 DEF SeekInv, FlagsTyped, RendererInv, Seek!Run, Seek!SendEndOfStream
<1>9. CASE Seek!Inactive
  BY Medium, <1>9 DEF SeekInv, FlagsTyped, RendererInv, Seek!Inactive, Seek!ResetMediaTime
<1>10. CASE Seek!PositionsSet
  BY Medium, <1>10 DEF SeekInv, FlagsTyped, RendererInv, Seek!PositionsSet
<1>11. CASE Seek!Change
  BY Medium, <1>11 DEF SeekInv, FlagsTyped, RendererInv, Seek!Change
<1>12. CASE Seek!BeginFlush
  BY Medium, <1>12 DEF SeekInv, FlagsTyped, RendererInv, Seek!BeginFlush
<1>13. CASE Seek!FlushBegun
  BY Medium, <1>13 DEF SeekInv, FlagsTyped, RendererInv, Seek!FlushBegun, Seek!ResetEndOfStream
<1>14. CASE Seek!EndFlush
  BY Medium, <1>14 DEF SeekInv, FlagsTyped, RendererInv, Seek!EndFlush, Seek!ResetMediaTime
<1>15. CASE Seek!RunReturns
  BY Medium, <1>15 DEF SeekInv, FlagsTyped, RendererInv, Seek!RunReturns
<1>16. CASE Seek!Stop
  BY Medium, <1>16 DEF SeekInv, FlagsTyped, RendererInv, Seek!Stop, Seek!ResetEndOfStream
<1>17. CASE Seek!SourceStopped
  BY Medium, <1>17 DEF SeekInv, FlagsTyped, RendererInv, Seek!SourceStopped
<1>18. CASE Seek!StartSegment
  BY Medium, <1>18 DEF SeekInv, FlagsTyped, RendererInv, Seek!StartSegment
<1>19. CASE Seek!FillBuffer
  BY Medium, <1>19 DEF SeekInv, FlagsTyped, RendererInv, Seek!FillBuffer
<1>20. CASE Seek!WorkerEnds
  BY Medium, <1>20 DEF SeekInv, FlagsTyped, RendererInv, Seek!WorkerEnds
<1>21. CASE Seek!Receive
  <2>1. /\ UNCHANGED << m_State, graph, m_bFlushing, m_EndOfStreamTimer, m_bEOSDelivered, m_RendererLock, m_bEOS >>
        /\ worker' \in {"in Receive", "idle"}
    BY <1>21 DEF Seek!Receive
  <2>2. UNCHANGED m_bReset \/ m_State # "Stopped"
    BY <1>21 DEF Seek!Receive, Seek!Streams
  <2> QED BY <2>1, <2>2 DEF SeekInv, RendererInv
<1>22. CASE Seek!ReceiveReturns
  BY Medium, <1>22 DEF SeekInv, FlagsTyped, RendererInv, Seek!ReceiveReturns
<1>23. CASE Seek!EndOfStream
  BY Medium, <1>23 DEF SeekInv, FlagsTyped, RendererInv, Seek!EndOfStream, Seek!SendEndOfStream
<1>24. CASE Seek!EndOfStreamTimer
  BY Medium, <1>24 DEF SeekInv, FlagsTyped, RendererInv, Seek!EndOfStreamTimer
<1>25. ASSUME NEW t \in Notifiers, Seek!NotifyEndOfStream(t) PROVE RendererInv'
  BY Medium, <1>25 DEF SeekInv, FlagsTyped, RendererInv, Notifiers, Seek!NotifyEndOfStream, Seek!AskStop,
   Seek!SetStop, Seek!Unlock, Seek!EOS, Seek!Delivered, Seek!ResetMediaTime
<1> QED BY <1>2, <1>3, <1>4, <1>5, <1>6, <1>7, <1>8, <1>9, <1>10, <1>11, <1>12, <1>13, <1>14, <1>15, <1>16,
   <1>17, <1>18, <1>19, <1>20, <1>21, <1>22, <1>23, <1>24, <1>25, SeekSteps

LEMMA TimesStay ==
    ASSUME SeekInv, Seek!Next
    PROVE  TimesInv'
<1> USE DEF Seek!linkVars, Seek!sourceVars, Seek!stateVars, Seek!eosVars, Seek!posVars, Seek!workerVars,
   Seek!graphVars
<1>1. ASSUME UNCHANGED << m_bReset, received, m_StartMedia, m_EndMedia, segment, m_bEOS, m_bFlushing,
   m_bEOSDelivered, connected, interface >> PROVE TimesInv'
  BY <1>1 DEF SeekInv, FlagsTyped, MediaTyped, RendererInv, TimesInv, Seek!GetPeerSeeking
<1>2. CASE Seek!SetPositions \/ Seek!put_CurrentPosition \/ Seek!put_StopTime \/ Seek!SetRate \/ Seek!Run \/ Seek!PositionsSet
  <2>1. UNCHANGED << m_bReset, received, m_StartMedia, m_EndMedia, segment, m_bEOS, m_bFlushing,
   m_bEOSDelivered, connected, interface >>
    BY <1>2 DEF Seek!SetPositions, Seek!put_CurrentPosition, Seek!Put, Seek!put_StopTime, Seek!SetRate,
   Seek!Run, Seek!SendEndOfStream, Seek!PositionsSet
  <2> QED BY <1>1, <2>1
<1>3. CASE Seek!Change \/ Seek!RunReturns \/ Seek!SourceStopped \/ Seek!FillBuffer \/ Seek!WorkerEnds \/ Seek!ReceiveReturns
  <2>1. UNCHANGED << m_bReset, received, m_StartMedia, m_EndMedia, segment, m_bEOS, m_bFlushing,
   m_bEOSDelivered, connected, interface >>
    BY <1>3 DEF Seek!Change, Seek!RunReturns, Seek!SourceStopped, Seek!FillBuffer, Seek!WorkerEnds,
   Seek!ReceiveReturns
  <2> QED BY <1>1, <2>1
<1>4. CASE Seek!EndOfStreamTimer
  <2>1. UNCHANGED << m_bReset, received, m_StartMedia, m_EndMedia, segment, m_bEOS, m_bFlushing,
   m_bEOSDelivered, connected, interface >>
    BY <1>4 DEF Seek!EndOfStreamTimer
  <2> QED BY <1>1, <2>1
<1>5. CASE Seek!Connect
  BY Medium, <1>5 DEF SeekInv, FlagsTyped, MediaTyped, RendererInv, TimesInv, Seek!GetPeerSeeking,
   Seek!Connect, Seek!Positions, Seek!Nothing
<1>6. CASE Seek!Pause
  BY Medium, <1>6 DEF SeekInv, FlagsTyped, MediaTyped, RendererInv, TimesInv, Seek!GetPeerSeeking, Seek!Pause,
   Seek!Positions, Seek!Nothing
<1>7. CASE Seek!Inactive
  BY Medium, <1>7 DEF SeekInv, FlagsTyped, MediaTyped, RendererInv, TimesInv, Seek!GetPeerSeeking,
   Seek!Inactive, Seek!ResetMediaTime, Seek!Positions, Seek!Nothing
<1>8. CASE Seek!BeginFlush
  BY Medium, <1>8 DEF SeekInv, FlagsTyped, MediaTyped, RendererInv, TimesInv, Seek!GetPeerSeeking,
   Seek!BeginFlush, Seek!Positions, Seek!Nothing
<1>9. CASE Seek!FlushBegun
  BY Medium, <1>9 DEF SeekInv, FlagsTyped, MediaTyped, RendererInv, TimesInv, Seek!GetPeerSeeking,
   Seek!FlushBegun, Seek!ResetEndOfStream, Seek!Positions, Seek!Nothing
<1>10. CASE Seek!EndFlush
  BY Medium, <1>10 DEF SeekInv, FlagsTyped, MediaTyped, RendererInv, TimesInv, Seek!GetPeerSeeking,
   Seek!EndFlush, Seek!ResetMediaTime, Seek!Positions, Seek!Nothing
<1>11. CASE Seek!Stop
  BY Medium, <1>11 DEF SeekInv, FlagsTyped, MediaTyped, RendererInv, TimesInv, Seek!GetPeerSeeking, Seek!Stop,
   Seek!ResetEndOfStream, Seek!Positions, Seek!Nothing
<1>12. CASE Seek!StartSegment
  BY Medium, <1>12 DEF SeekInv, FlagsTyped, MediaTyped, RendererInv, TimesInv, Seek!GetPeerSeeking,
   Seek!StartSegment, Seek!Positions, Seek!Nothing
<1>13. CASE Seek!Receive
  <2>1. UNCHANGED << segment, m_bEOS, m_bFlushing, m_bEOSDelivered, connected, interface >>
    BY <1>13 DEF Seek!Receive
  <2>2. CASE UNCHANGED << m_StartMedia, m_EndMedia, m_bReset, received >>
    BY <2>1, <2>2 DEF SeekInv, TimesInv, Seek!GetPeerSeeking
  <2>3. CASE ~UNCHANGED << m_StartMedia, m_EndMedia, m_bReset, received >>
    <3>1. /\ m_StartMedia' = last - segment.start /\ m_EndMedia' = last - segment.start + 1 /\ received' = last
          /\ m_bReset' = FALSE /\ ~m_bEOS
      BY <1>13, <2>3 DEF Seek!Receive, Seek!RegisterMediaTime
    <3>2. last # -1
      BY Medium DEF SeekInv, MediaTyped, Seek!Positions
    <3>3. ~m_bEOSDelivered
      BY <3>1 DEF SeekInv, FlagsTyped, RendererInv
    <3> QED BY <2>1, <3>1, <3>2, <3>3 DEF TimesInv
  <2> QED BY <2>2, <2>3
<1>14. CASE Seek!EndOfStream
  BY Medium, <1>14 DEF SeekInv, FlagsTyped, MediaTyped, RendererInv, TimesInv, Seek!GetPeerSeeking,
   Seek!EndOfStream, Seek!SendEndOfStream, Seek!Positions, Seek!Nothing
<1>15. ASSUME NEW t \in Notifiers, Seek!NotifyEndOfStream(t) PROVE TimesInv'
  <2>0. UNCHANGED << m_bReset, received, segment, m_bEOS, m_bFlushing, connected, interface >>
    BY <1>15 DEF Seek!NotifyEndOfStream, Seek!AskStop, Seek!SetStop, Seek!EOS
  <2>1. CASE Seek!AskStop(t)
    <3>1. UNCHANGED << m_StartMedia, m_EndMedia >>
      BY <1>15, <2>1 DEF Seek!AskStop
    <3>2. UNCHANGED m_bEOSDelivered \/ m_bReset \/ Seek!GetStopPosition = Seek!Nothing
      BY <1>15, <2>1 DEF Seek!AskStop
    <3>3. Seek!GetStopPosition = Seek!Nothing => ~Seek!GetPeerSeeking
      BY Medium DEF Seek!GetStopPosition, Seek!Forward, Seek!Nothing, SeekInv, SourceTyped, Seek!Positions
    <3>4. Seek!GetPeerSeeking' <=> Seek!GetPeerSeeking
      BY <2>0 DEF Seek!GetPeerSeeking
    <3> QED BY <2>0, <3>1, <3>2, <3>3, <3>4 DEF SeekInv, TimesInv
  <2>2. CASE Seek!SetStop(t)
    <3>1. m_StartMedia' = llStop /\ m_EndMedia' = llStop /\ m_RendererLock = t
      BY <1>15, <2>2 DEF Seek!SetStop, Seek!EOS
    <3>2. m_bEOS
      BY <3>1 DEF SeekInv, RendererInv, Notifiers
    <3> QED BY <2>0, <3>1, <3>2 DEF SeekInv, TimesInv
  <2> QED BY <1>15, <2>1, <2>2 DEF Seek!NotifyEndOfStream
<1> QED BY <1>2, <1>3, <1>4, <1>5, <1>6, <1>7, <1>8, <1>9, <1>10, <1>11, <1>12, <1>13, <1>14, <1>15, SeekSteps

LEMMA PlayStays ==
    ASSUME SeekInv, Seek!Next
    PROVE  PlayInv'
<1> USE DEF Seek!linkVars, Seek!sourceVars, Seek!stateVars, Seek!eosVars, Seek!posVars, Seek!workerVars,
   Seek!graphVars
<1>1. ASSUME UNCHANGED << worker, graph, call, segment, m_rtStart, m_rtStop, m_dRateSeeking, m_rtSampleTime >> PROVE PlayInv'
  BY <1>1 DEF SeekInv, SourceTyped, MediaTyped, PlayInv, Playing, Settled, SegmentIsAsked, SampleIsAsked
<1>2. CASE Seek!Connect \/ Seek!EndOfStreamTimer
  <2>1. UNCHANGED << worker, graph, call, segment, m_rtStart, m_rtStop, m_dRateSeeking, m_rtSampleTime >>
    BY <1>2 DEF Seek!Connect, Seek!EndOfStreamTimer
  <2> QED BY <1>1, <2>1
<1>3. CASE Seek!SetPositions
  <2>1. PICK startWay \in Seek!Ways \ {"Incremental"}, stopWay \in Seek!Ways :
         \E by \in Seek!Amounts(startWay), to \in Seek!Amounts(stopWay) :
            LET start == Seek!NewStart(startWay, by)
                stop  == Seek!NewStop(stopWay, to, start)
            IN  /\ m_rtStart' = start
                /\ call' = [stop |-> stop, changes |-> Seek!Changes(startWay, stopWay)]
    BY <1>3 DEF Seek!SetPositions
  <2>2. UNCHANGED << worker, segment, m_rtStop, m_dRateSeeking, m_rtSampleTime >> /\ graph = "idle" /\ graph' = "locked"
    BY <1>3 DEF Seek!SetPositions
  <2>3. call'.changes = Seek!Changes(startWay, stopWay)
    BY <2>1
  <2>4. startWay = "None" => m_rtStart' = m_rtStart
    <3>1. \A by : Seek!NewStart("None", by) = m_rtStart
      BY DEF Seek!NewStart
    <3> QED BY <2>1, <3>1
  <2>5. stopWay = "None" => call'.stop = m_rtStop
    <3>1. \A to, start : Seek!NewStop("None", to, start) = m_rtStop
      BY DEF Seek!NewStop
    <3> QED BY <2>1, <3>1
  <2>6. call'.changes \in { << >>, << "ChangeStop" >> } => startWay = "None"
    BY <2>3, ChangesListed
  <2>7. call'.changes = << >> => stopWay = "None"
    BY <2>3, ChangesListed
  <2>8. Playing => SegmentIsAsked /\ SampleIsAsked
    BY <2>2 DEF SeekInv, PlayInv, Settled
  <2>9. Playing' /\ call'.changes \in { << >>, << "ChangeStop" >> } => SegmentIsAsked' /\ SampleIsAsked'
    BY <2>2, <2>4, <2>6, <2>8 DEF Playing, SegmentIsAsked, SampleIsAsked
  <2> QED BY <2>2, <2>5, <2>7, <2>9 DEF PlayInv, Settled
<1>4. CASE Seek!put_CurrentPosition
  BY Medium, <1>4 DEF SeekInv, SourceTyped, MediaTyped, PlayInv, Playing, Settled, SegmentIsAsked,
   SampleIsAsked, Seek!put_CurrentPosition, Seek!Put, Seek!Positions
<1>5. CASE Seek!put_StopTime
  BY Medium, <1>5 DEF SeekInv, SourceTyped, MediaTyped, PlayInv, Playing, Settled, SegmentIsAsked,
   SampleIsAsked, Seek!put_StopTime, Seek!Put, Seek!Positions
<1>6. CASE Seek!SetRate
  BY Medium, <1>6 DEF SeekInv, SourceTyped, MediaTyped, PlayInv, Playing, Settled, SegmentIsAsked,
   SampleIsAsked, Seek!SetRate, Seek!Positions
<1>7. CASE Seek!Pause
  BY Medium, <1>7 DEF SeekInv, SourceTyped, MediaTyped, PlayInv, Playing, Settled, SegmentIsAsked,
   SampleIsAsked, Seek!Pause, Seek!Positions
<1>8. CASE Seek!Run
  BY Medium, <1>8 DEF SeekInv, SourceTyped, MediaTyped, PlayInv, Playing, Settled, SegmentIsAsked,
   SampleIsAsked, Seek!Run, Seek!SendEndOfStream, Seek!Positions
<1>9. CASE Seek!Inactive
  BY Medium, <1>9 DEF SeekInv, SourceTyped, MediaTyped, PlayInv, Playing, Settled, SegmentIsAsked,
   SampleIsAsked, Seek!Inactive, Seek!ResetMediaTime, Seek!Positions
<1>10. CASE Seek!PositionsSet
  BY Medium, <1>10 DEF SeekInv, SourceTyped, MediaTyped, PlayInv, Playing, Settled, SegmentIsAsked,
   SampleIsAsked, Seek!PositionsSet, Seek!Positions
<1>11. CASE Seek!Change
  <2>1. UNCHANGED << worker, segment, m_rtStart, m_rtStop, m_dRateSeeking, m_rtSampleTime >> /\ graph = "change"
    BY <1>11 DEF Seek!Change
  <2>2. (Playing' <=> Playing) /\ (SegmentIsAsked' <=> SegmentIsAsked) /\ (SampleIsAsked' <=> SampleIsAsked)
    BY <2>1 DEF Playing, SegmentIsAsked, SampleIsAsked
  <2>3. CASE call.changes = << >>
    <3>1. graph' = "idle"
      BY <1>11, <2>3 DEF Seek!Change
    <3>2. Playing => SegmentIsAsked /\ SampleIsAsked
      BY <2>1, <2>3 DEF SeekInv, PlayInv, Settled
    <3> QED BY <2>2, <3>1, <3>2 DEF PlayInv
  <2>4. CASE call.changes # << >>
    <3>1. call' = [call EXCEPT !.changes = Tail(@)] /\ graph' \in {"change", "flush"}
      BY <1>11, <2>4 DEF Seek!Change
    <3>2. call'.changes = Tail(call.changes)
      BY <3>1 DEF SeekInv, SourceTyped
    <3>3. /\ call'.changes = << >> => call.changes \in { << "ChangeStart" >>, << "ChangeStop" >>, << "ChangeRate" >> }
          /\ call'.changes # << "ChangeStop" >>
      BY <2>4, <3>2, Popped DEF SeekInv, SourceTyped
    <3>4. graph' = "change" /\ Playing => Head(call.changes) = "ChangeStop" /\ m_rtSampleTime < m_rtStop
      BY <1>11, <2>4 DEF Seek!Change, Playing
    <3>5. Playing /\ graph' = "change" /\ call'.changes = << >> => SegmentIsAsked /\ SampleIsAsked
      <4> SUFFICES ASSUME Playing, graph' = "change", call'.changes = << >> PROVE SegmentIsAsked /\ SampleIsAsked
        OBVIOUS
      <4>1. Head(<< "ChangeStart" >>) = "ChangeStart" /\ Head(<< "ChangeRate" >>) = "ChangeRate"
        OBVIOUS
      <4>2. call.changes = << "ChangeStop" >>
        BY <3>3, <3>4, <4>1
      <4>3. m_rtSampleTime <= m_rtStop
        BY <3>4, Medium DEF SeekInv, SourceTyped, MediaTyped, Seek!Positions
      <4> QED BY <2>1, <4>2, <4>3 DEF SeekInv, PlayInv, SampleIsAsked
    <3> QED BY <2>2, <3>1, <3>3, <3>5 DEF PlayInv, Settled
  <2> QED BY <2>3, <2>4
<1>12. CASE Seek!BeginFlush
  BY Medium, <1>12 DEF SeekInv, SourceTyped, MediaTyped, PlayInv, Playing, Settled, SegmentIsAsked,
   SampleIsAsked, Seek!BeginFlush, Seek!Positions
<1>13. CASE Seek!FlushBegun
  BY Medium, <1>13 DEF SeekInv, SourceTyped, MediaTyped, PlayInv, Playing, Settled, SegmentIsAsked,
   SampleIsAsked, Seek!FlushBegun, Seek!ResetEndOfStream, Seek!Positions
<1>14. CASE Seek!EndFlush
  BY Medium, <1>14 DEF SeekInv, SourceTyped, MediaTyped, PlayInv, Playing, Settled, SegmentIsAsked,
   SampleIsAsked, Seek!EndFlush, Seek!ResetMediaTime, Seek!Positions
<1>15. CASE Seek!RunReturns
  BY Medium, <1>15 DEF SeekInv, SourceTyped, MediaTyped, PlayInv, Playing, Settled, SegmentIsAsked,
   SampleIsAsked, Seek!RunReturns, Seek!Positions
<1>16. CASE Seek!Stop
  BY Medium, <1>16 DEF SeekInv, SourceTyped, MediaTyped, PlayInv, Playing, Settled, SegmentIsAsked,
   SampleIsAsked, Seek!Stop, Seek!ResetEndOfStream, Seek!Positions
<1>17. CASE Seek!SourceStopped
  BY Medium, <1>17 DEF SeekInv, SourceTyped, MediaTyped, PlayInv, Playing, Settled, SegmentIsAsked,
   SampleIsAsked, Seek!SourceStopped, Seek!Positions
<1>18. CASE Seek!StartSegment
  BY Medium, <1>18 DEF SeekInv, SourceTyped, MediaTyped, PlayInv, Playing, Settled, SegmentIsAsked,
   SampleIsAsked, Seek!StartSegment, Seek!Positions
<1>19. CASE Seek!FillBuffer
  <2>1. UNCHANGED << segment, graph, call, m_rtStart, m_rtStop, m_dRateSeeking >> /\ worker = "loop"
    BY <1>19 DEF Seek!FillBuffer
  <2>2. (m_rtSampleTime < m_rtStop /\ m_rtSampleTime' = m_rtSampleTime + 1) \/ UNCHANGED m_rtSampleTime
    BY <1>19 DEF Seek!FillBuffer
  <2>3. SampleIsAsked => SampleIsAsked'
    BY <2>1, <2>2, Medium DEF SampleIsAsked, SeekInv, SourceTyped, MediaTyped, Seek!Positions
  <2>4. SegmentIsAsked' <=> SegmentIsAsked
    BY <2>1 DEF SegmentIsAsked
  <2>5. (Settled' <=> Settled) /\ Playing
    BY <2>1 DEF Settled, Playing
  <2> QED BY <2>1, <2>3, <2>4, <2>5 DEF SeekInv, PlayInv
<1>20. CASE Seek!WorkerEnds
  BY Medium, <1>20 DEF SeekInv, SourceTyped, MediaTyped, PlayInv, Playing, Settled, SegmentIsAsked,
   SampleIsAsked, Seek!WorkerEnds, Seek!Positions
<1>21. CASE Seek!Receive
  BY Medium, <1>21 DEF SeekInv, SourceTyped, MediaTyped, PlayInv, Playing, Settled, SegmentIsAsked,
   SampleIsAsked, Seek!Receive, Seek!RegisterMediaTime, Seek!Positions
<1>22. CASE Seek!ReceiveReturns
  BY Medium, <1>22 DEF SeekInv, SourceTyped, MediaTyped, PlayInv, Playing, Settled, SegmentIsAsked,
   SampleIsAsked, Seek!ReceiveReturns, Seek!Positions
<1>23. CASE Seek!EndOfStream
  BY Medium, <1>23 DEF SeekInv, SourceTyped, MediaTyped, PlayInv, Playing, Settled, SegmentIsAsked,
   SampleIsAsked, Seek!EndOfStream, Seek!SendEndOfStream, Seek!Positions
<1>24. ASSUME NEW t \in Notifiers, Seek!NotifyEndOfStream(t) PROVE PlayInv'
  <2>1. UNCHANGED << worker, graph, call, segment, m_rtStart, m_rtStop, m_dRateSeeking, m_rtSampleTime >>
    BY <1>24 DEF Seek!NotifyEndOfStream, Seek!AskStop, Seek!SetStop, Seek!Unlock, Seek!EOS, Seek!Delivered,
   Seek!ResetMediaTime
  <2> QED BY <1>1, <2>1
<1> QED BY <1>2, <1>3, <1>4, <1>5, <1>6, <1>7, <1>8, <1>9, <1>10, <1>11, <1>12, <1>13, <1>14, <1>15, <1>16,
   <1>17, <1>18, <1>19, <1>20, <1>21, <1>22, <1>23, <1>24, SeekSteps

LEMMA SeekKept ==
    ASSUME SeekInv, [Seek!Next]_seekVars
    PROVE  SeekInv'
<1>1. CASE Seek!Next
  BY <1>1, SourceStays, FlagsStay, MediaStays, FramesStay, RendererStays, TimesStay, PlayStays DEF SeekInv
<1>2. CASE UNCHANGED seekVars
  <2>1. SourceTyped' /\ FlagsTyped' /\ MediaTyped'
    BY <1>2 DEF seekVars, SeekInv, SourceTyped, FlagsTyped, MediaTyped
  <2>2. FramesInv' /\ RendererInv'
    BY <1>2 DEF seekVars, SeekInv, FramesInv, Playing, RendererInv
  <2>3. TimesInv'
    BY <1>2 DEF seekVars, SeekInv, TimesInv, Seek!GetPeerSeeking
  <2>4. PlayInv'
    BY <1>2 DEF seekVars, SeekInv, PlayInv, Playing, Settled, SegmentIsAsked, SampleIsAsked
  <2> QED BY <2>1, <2>2, <2>3, <2>4 DEF SeekInv
<1> QED BY <1>1, <1>2

LEMMA SeekSound == SeekInv => Seek!TypeOK /\ Seek!PositionSound /\ Seek!PlaysWhatIsAsked
<1> SUFFICES ASSUME SeekInv PROVE Seek!TypeOK /\ Seek!PositionSound /\ Seek!PlaysWhatIsAsked
  OBVIOUS
<1>1. Seek!TypeOK
  <2>1. Seek!sourceVars \in Seek!Positions \X Seek!Positions \X ({1} \cup Rates)
    BY DEF SeekInv, SourceTyped, Seek!sourceVars
  <2>2. /\ {m_pLock, m_InterfaceLock, m_RendererLock} \subseteq {"free", "graph", "worker", "timer"}
        /\ m_State \in {"Stopped", "Paused", "Running"}
        /\ {connected, m_bStreaming, m_bFlushing, m_bEOS, m_bEOSDelivered, m_EndOfStreamTimer, m_bReset}
              \subseteq BOOLEAN
    BY DEF SeekInv, FlagsTyped
  <2>3. {m_StartMedia, m_EndMedia, m_rtSampleTime} \subseteq 0 .. Length + 1
    BY Medium DEF SeekInv, MediaTyped, Seek!Positions
  <2>4. segment \in [start : Seek!Positions, rate : {1} \cup Rates]
    BY DEF SeekInv, MediaTyped
  <2> QED BY <2>1, <2>2, <2>3, <2>4 DEF Seek!TypeOK
<1>2. Seek!PositionSound
  <2>1. Seek!GetCurrentPosition # Seek!Nothing => ~m_bReset /\ Seek!GetPeerSeeking
    BY DEF Seek!GetCurrentPosition, Seek!GetMediaTime, Seek!ConvertTimeFormat, Seek!Forward
  <2>2. Seek!Nothing = -1
    BY DEF Seek!Nothing
  <2> QED BY <2>1, <2>2 DEF SeekInv, TimesInv, Seek!PositionSound
<1>3. Seek!PlaysWhatIsAsked
  <2> SUFFICES ASSUME graph = "idle", worker \notin {"none", "start"}
               PROVE  /\ segment = [start |-> m_rtStart, rate |-> m_dRateSeeking]
                      /\ m_rtSampleTime <= m_rtStop \/ m_rtSampleTime = m_rtStart
    BY DEF Seek!PlaysWhatIsAsked, Seek!GetPositions
  <2>1. SegmentIsAsked /\ SampleIsAsked
    BY DEF SeekInv, PlayInv, Playing, Settled
  <2> QED BY <2>1 DEF SegmentIsAsked, SampleIsAsked, SeekInv, MediaTyped
<1> QED BY <1>1, <1>2, <1>3

-----------------------------------------------------------------------------
LEMMA GraphAlways == MCSpec => [](DynamicInv /\ SeekInv)
<1>1. MCInit => DynamicInv /\ SeekInv
  BY DynamicStarts, SeekStarts DEF MCInit
<1>2. DynamicInv /\ SeekInv /\ [MCNext]_graphVars => (DynamicInv /\ SeekInv)'
  <2>1. [MCNext]_graphVars => [Dynamic!Next]_dynamicVars /\ [Seek!Next]_seekVars
    BY DEF MCNext, graphVars
  <2> QED BY <2>1, DynamicKept, SeekKept
<1> QED BY <1>1, <1>2, PTL DEF MCSpec

\* Whoever was told that the pin is blocked finds it used by nobody until he
\* unblocks it, and both ends agree whenever no change is under way; the
\* renderer answers the position of the stream as it is, and the source plays
\* what was asked for last: for all threads, media and rates.
THEOREM GraphHolds == MCSpec => []GraphSound
<1>1. DynamicInv /\ SeekInv => GraphSound
  BY DynamicSound, SeekSound DEF GraphSound
<1> QED BY <1>1, GraphAlways, PTL

-----------------------------------------------------------------------------
(* The invariant of stream control. *)

States == {"flowing", "discarding"}

\* What the times of a command can be, and the states.
CommandsTyped ==
    /\ m_StreamState \in States /\ m_StreamStateOnStop \in States
    /\ m_tStartTime \in 0..MaxTime + 1 /\ m_tStopTime \in 0..MaxTime + 1
    /\ m_dwStartCookie \in BOOLEAN /\ m_dwStopCookie \in BOOLEAN
    /\ m_bStopSendExtra \in BOOLEAN /\ m_bStopExtraSent \in BOOLEAN
    /\ startDue \in BOOLEAN /\ stopDue \in BOOLEAN

FilterTyped ==
    /\ m_StreamEvent \in BOOLEAN /\ m_bIsFlushing \in BOOLEAN /\ m_pRefClock \in BOOLEAN
    /\ m_FilterState \in {"Stopped", "Paused", "Running"} /\ now \in 0..MaxTime

CallerTyped ==
    /\ caller \in {"idle", "loop", "check", "discard", "wait", "timed"}
    /\ sample \in Control!Samples \cup {Control!NoTimes}
    /\ caller \in {"check", "discard", "wait", "timed"} => sample \in Control!Samples

\* A pending stop discards; what is due has its command, and its cookie.
CommandsSound ==
    /\ m_tStopTime # MaxTime + 1 => m_StreamStateOnStop = "discarding"
    /\ startDue => m_dwStartCookie /\ m_tStartTime # MaxTime + 1
    /\ stopDue => m_dwStopCookie /\ m_tStopTime # MaxTime + 1

ControlInv == CommandsTyped /\ FilterTyped /\ CallerTyped /\ CommandsSound

LEMMA TimesTyped == MaxTime \in Nat \ {0} /\ 0 \in 0..MaxTime /\ 0 \in 0..MaxTime + 1 /\ MaxTime + 1 \in 0..MaxTime + 1
BY StreamingAssumption DEF Control!StreamControlAssumption

LEMMA ControlTyped == CommandsTyped /\ FilterTyped /\ CallerTyped => Control!TypeOK
BY DEF Control!TypeOK, CommandsTyped, FilterTyped, CallerTyped, States, Control!MAX_TIME, Control!Times

LEMMA ControlStarts == Control!Init => ControlInv
<1> SUFFICES ASSUME Control!Init PROVE ControlInv
  OBVIOUS
<1> USE TimesTyped DEF Control!Init, Control!MAX_TIME
<1>1. CommandsTyped
  BY DEF CommandsTyped, States
<1>2. FilterTyped
  BY DEF FilterTyped
<1>3. CallerTyped /\ CommandsSound
  BY DEF CallerTyped, CommandsSound
<1> QED BY <1>1, <1>2, <1>3 DEF ControlInv

\* Whatever is executed, the commands stay sound: a command is forgotten whole.
LEMMA ExecuteSound ==
    ASSUME CommandsTyped, CommandsSound, NEW order, Control!Execute(order), m_StreamState' \in States
    PROVE  CommandsTyped' /\ CommandsSound'
<1> USE TimesTyped DEF CommandsTyped, CommandsSound, States, Control!MAX_TIME
<1> DEFINE StopTyped == /\ m_StreamStateOnStop' \in States /\ m_tStopTime' \in 0..MaxTime + 1
                        /\ m_dwStopCookie' \in BOOLEAN /\ stopDue' \in BOOLEAN
                        /\ m_bStopSendExtra' \in BOOLEAN /\ m_bStopExtraSent' \in BOOLEAN
                        /\ m_tStopTime' # MaxTime + 1 => m_StreamStateOnStop' = "discarding"
                        /\ stopDue' => m_dwStopCookie' /\ m_tStopTime' # MaxTime + 1
           StartTyped == /\ m_tStartTime' \in 0..MaxTime + 1
                         /\ m_dwStartCookie' \in BOOLEAN /\ startDue' \in BOOLEAN
                         /\ startDue' => m_dwStartCookie' /\ m_tStartTime' # MaxTime + 1
<1>1. Control!ForgetStop => StopTyped
  BY DEF Control!ForgetStop
<1>2. Control!StopUnchanged => StopTyped
  BY DEF Control!StopUnchanged
<1>3. Control!ForgetStart => StartTyped
  BY DEF Control!ForgetStart
<1>4. Control!StartUnchanged => StartTyped
  BY DEF Control!StartUnchanged
<1>5. StopTyped /\ StartTyped
  BY <1>1, <1>2, <1>3, <1>4 DEF Control!Execute
<1> QED BY <1>5

LEMMA AfterTyped ==
    ASSUME CommandsTyped, NEW order \in {"none", "start", "stop", "start stop", "stop start"}
    PROVE  Control!StateAfter(order) \in States
BY DEF CommandsTyped, Control!StateAfter, Control!AfterStart, Control!AfterStop, States

LEMMA OrderTyped ==
    ASSUME NEW s
    PROVE  Control!Order(s) \in {"none", "start", "stop", "start stop", "stop start"}
BY DEF Control!Order

LEMMA PendingTyped == Control!PendingOrder \in {"none", "start", "stop", "start stop", "stop start"}
BY DEF Control!PendingOrder

LEMMA CommandKept ==
    ASSUME ControlInv, Control!Command
    PROVE  ControlInv'
<1> USE TimesTyped DEF CommandsTyped, CommandsSound, States, Control!MAX_TIME, Control!Times
<1>1. FilterTyped' /\ CallerTyped' /\ CommandsTyped' /\ CommandsSound'
  <2>1. ASSUME NEW t \in Control!Times, NEW extra \in BOOLEAN, NEW cookie \in BOOLEAN, Control!StopAt(t, extra, cookie)
        PROVE  FilterTyped' /\ CallerTyped' /\ CommandsTyped' /\ CommandsSound'
    <3>1. FilterTyped' /\ CallerTyped'
      BY <2>1 DEF Control!StopAt, Control!filter, Control!threads, ControlInv, FilterTyped, CallerTyped
    <3>2. t \in 0..MaxTime + 1 /\ t # MaxTime + 1
      OBVIOUS
    <3>3. CommandsTyped'
      BY <2>1, <3>2 DEF Control!StopAt, Control!StartUnchanged, ControlInv
    <3>4. CommandsSound'
      BY <2>1, <3>2 DEF Control!StopAt, Control!StartUnchanged, ControlInv
    <3> QED BY <3>1, <3>3, <3>4
  <2>2. ASSUME NEW t \in Control!Times, NEW cookie \in BOOLEAN, Control!StartAt(t, cookie)
        PROVE  FilterTyped' /\ CallerTyped' /\ CommandsTyped' /\ CommandsSound'
    <3>1. FilterTyped' /\ CallerTyped'
      BY <2>2 DEF Control!StartAt, Control!filter, Control!threads, ControlInv, FilterTyped, CallerTyped
    <3>2. CommandsTyped' /\ CommandsSound'
      BY <2>2 DEF Control!StartAt, Control!StopUnchanged, ControlInv
    <3> QED BY <3>1, <3>2
  <2>3. ASSUME Control!StopNow \/ Control!StopNever
        PROVE  FilterTyped' /\ CallerTyped' /\ CommandsTyped' /\ CommandsSound'
    <3>1. FilterTyped' /\ CallerTyped'
      BY <2>3 DEF Control!StopNow, Control!StopNever, Control!filter, Control!threads, ControlInv, FilterTyped, CallerTyped
    <3>2. CommandsTyped'
      BY <2>3 DEF Control!StopNow, Control!StopNever, Control!CancelStopThen, Control!StartUnchanged, ControlInv
    <3>3. CommandsSound'
      BY <2>3 DEF Control!StopNow, Control!StopNever, Control!CancelStopThen, Control!StartUnchanged, ControlInv
    <3> QED BY <3>1, <3>2, <3>3
  <2>4. ASSUME Control!StartNow \/ Control!StartNever
        PROVE  FilterTyped' /\ CallerTyped' /\ CommandsTyped' /\ CommandsSound'
    <3>1. FilterTyped' /\ CallerTyped'
      BY <2>4 DEF Control!StartNow, Control!StartNever, Control!filter, Control!threads, ControlInv, FilterTyped, CallerTyped
    <3>2. CommandsTyped'
      BY <2>4 DEF Control!StartNow, Control!StartNever, Control!CancelStartThen, Control!StopUnchanged, ControlInv
    <3>3. CommandsSound'
      BY <2>4 DEF Control!StartNow, Control!StartNever, Control!CancelStartThen, Control!StopUnchanged, ControlInv
    <3> QED BY <3>1, <3>2, <3>3
  <2> QED BY <2>1, <2>2, <2>3, <2>4 DEF Control!Command
<1> QED BY <1>1 DEF ControlInv

\* A step that leaves the commands alone.
LEMMA CommandsStay ==
    ASSUME CommandsTyped, CommandsSound, UNCHANGED << m_StreamState, Control!commands >>
    PROVE  CommandsTyped' /\ CommandsSound'
BY DEF CommandsTyped, CommandsSound, Control!commands

LEMMA ControlKept ==
    ASSUME ControlInv, Control!Next
    PROVE  ControlInv'
<1> USE DEF ControlInv
<1>1. CASE Control!Command
  BY <1>1, CommandKept
<1>2. CASE Control!CheckStreamState
  <2>1. FilterTyped' /\ CallerTyped'
    BY <1>2 DEF Control!CheckStreamState, Control!CallerOnly, Control!filter, FilterTyped, CallerTyped
  <2>2. CommandsTyped' /\ CommandsSound'
    BY <1>2, CommandsStay DEF Control!CheckStreamState, Control!CallerOnly
  <2> QED BY <2>1, <2>2
<1>3. CASE Control!Broken \/ Control!Untimed \/ Control!Tested \/ Control!DiscardNow \/ Control!Hold \/ Control!TimedOut
  <2>1. FilterTyped' /\ CallerTyped'
    BY <1>3 DEF Control!Broken, Control!Untimed, Control!Tested, Control!DiscardNow, Control!Hold, Control!TimedOut,
       Control!Return, Control!CallerOnly, Control!filter, FilterTyped, CallerTyped
  <2>2. CommandsTyped' /\ CommandsSound'
    BY <1>3, CommandsStay DEF Control!Broken, Control!Untimed, Control!Tested, Control!DiscardNow, Control!Hold,
       Control!TimedOut, Control!CallerOnly
  <2> QED BY <2>1, <2>2
<1>4. CASE Control!CheckSampleTimes
  <2>1. FilterTyped' /\ CallerTyped'
    BY <1>4 DEF Control!CheckSampleTimes, Control!Return, Control!filter, FilterTyped, CallerTyped
  <2>2. Control!Order(sample) \in {"none", "start", "stop", "start stop", "stop start"}
    BY OrderTyped
  <2>3. m_StreamState' \in States
    BY <1>4, <2>2, AfterTyped DEF Control!CheckSampleTimes
  <2>4. CommandsTyped' /\ CommandsSound'
    BY <1>4, <2>3, ExecuteSound DEF Control!CheckSampleTimes
  <2> QED BY <2>1, <2>4
<1>5. CASE Control!SendExtra
  <2>1. FilterTyped' /\ CallerTyped'
    BY <1>5 DEF Control!SendExtra, Control!Return, Control!filter, FilterTyped, CallerTyped
  <2>2. CommandsTyped' /\ CommandsSound'
    BY <1>5 DEF Control!SendExtra, CommandsTyped, CommandsSound
  <2> QED BY <2>1, <2>2
<1>6. CASE Control!Signalled
  <2>1. FilterTyped' /\ CallerTyped'
    BY <1>6 DEF Control!Signalled, Control!filter, FilterTyped, CallerTyped
  <2>2. CommandsTyped' /\ CommandsSound'
    BY <1>6, CommandsStay DEF Control!Signalled
  <2> QED BY <2>1, <2>2
<1>7. CASE Control!NotifyStopped
  <2>1. FilterTyped' /\ CallerTyped'
    BY <1>7, TimesTyped DEF Control!NotifyStopped, Control!threads, FilterTyped, CallerTyped
  <2>2. CommandsTyped' /\ CommandsSound'
    BY <1>7, ExecuteSound DEF Control!NotifyStopped, States
  <2> QED BY <2>1, <2>2
<1>8. CASE Control!NotifyPaused \/ Control!NotifyRunning \/ (\E inProgress \in BOOLEAN : Control!Flushing(inProgress)) \/ Control!Tick
  <2>1. now < MaxTime => now + 1 \in 0..MaxTime
    BY TimesTyped DEF FilterTyped
  <2>3. CallerTyped'
    BY <1>8 DEF Control!NotifyPaused, Control!NotifyRunning, Control!Flushing, Control!Tick, Control!threads, CallerTyped
  <2>4. FilterTyped'
    BY <1>8, <2>1, TimesTyped DEF Control!NotifyPaused, Control!NotifyRunning, Control!Flushing, Control!Tick, FilterTyped
  <2>2. CommandsTyped' /\ CommandsSound'
    BY <1>8, CommandsStay DEF Control!NotifyPaused, Control!NotifyRunning, Control!Flushing, Control!Tick
  <2> QED BY <2>2, <2>3, <2>4
<1> QED BY <1>1, <1>2, <1>3, <1>4, <1>5, <1>6, <1>7, <1>8 DEF Control!Next, Control!CallerStep

LEMMA ControlStays ==
    ASSUME ControlInv, UNCHANGED controlVars
    PROVE  ControlInv'
BY DEF ControlInv, CommandsTyped, FilterTyped, CallerTyped, CommandsSound, controlVars

\* Both parts of the run keep it.
LEMMA ControlAlways == StreamingSpec => []ControlInv
<1>1. StreamingInit => ControlInv
  BY ControlStarts DEF StreamingInit
<1>2. ControlInv /\ [StreamingNext]_streamingVars => ControlInv'
  BY ControlKept, ControlStays DEF StreamingNext, streamingVars
<1> QED BY <1>1, <1>2, PTL DEF StreamingSpec

-----------------------------------------------------------------------------
\* NotifyFilterState executes whatever is pending, in any order.
LEMMA StopExecutesAll ==
    ASSUME ControlInv, Control!NotifyStopped
    PROVE  m_tStartTime' = MaxTime + 1 /\ m_tStopTime' = MaxTime + 1
<1> USE DEF Control!MAX_TIME
<1>1. Control!Execute(Control!PendingOrder)
  BY DEF Control!NotifyStopped
<1>2. \/ m_tStartTime = MaxTime + 1 /\ Control!PendingOrder \in {"none", "stop"}
      \/ Control!PendingOrder \in {"start", "start stop", "stop start"}
  BY DEF Control!PendingOrder
<1>3. \/ m_tStopTime = MaxTime + 1 /\ Control!PendingOrder \in {"none", "start"}
      \/ Control!PendingOrder \in {"stop", "start stop", "stop start"}
  BY DEF Control!PendingOrder
<1> QED BY <1>1, <1>2, <1>3 DEF Control!Execute, Control!ForgetStart, Control!ForgetStop, Control!StartUnchanged,
           Control!StopUnchanged

\* CBaseStreamControl's promise of StartAt and StopAt with a cookie: the application
\* is told of every start and every stop, also when a sample jumps over both, when
\* the filter stops first, and whatever is commanded meanwhile from other threads;
\* and when the filter stops nothing stays pending.
THEOREM EveryCookieIsAnswered == StreamingSpec => ToldOfEverything
<1>1. ASSUME ControlInv, ControlInv', [StreamingNext]_streamingVars
      PROVE  [Control!TellsOfEverything]_streamingVars
  <2>1. startDue' => m_dwStartCookie' /\ m_tStartTime' # Control!MAX_TIME
    BY <1>1 DEF ControlInv, CommandsSound, Control!MAX_TIME
  <2>2. stopDue' => m_dwStopCookie' /\ m_tStopTime' # Control!MAX_TIME
    BY <1>1 DEF ControlInv, CommandsSound, Control!MAX_TIME
  <2>3. ASSUME m_FilterState' = "Stopped", m_FilterState # "Stopped"
        PROVE  m_tStartTime' = Control!MAX_TIME /\ m_tStopTime' = Control!MAX_TIME
    <3>1. Control!Next
      BY <1>1, <2>3 DEF StreamingNext, streamingVars, controlVars
    <3>2. Control!NotifyStopped
      BY <2>3, <3>1 DEF Control!Next, Control!Command, Control!StopAt, Control!StartAt, Control!StopNow, Control!StopNever,
         Control!StartNow, Control!StartNever, Control!CallerStep, Control!CheckStreamState, Control!Broken,
         Control!Untimed, Control!Tested, Control!CheckSampleTimes, Control!SendExtra, Control!DiscardNow, Control!Hold,
         Control!Signalled, Control!TimedOut, Control!NotifyPaused, Control!NotifyRunning, Control!Flushing,
         Control!Tick, Control!CallerOnly, Control!filter
    <3> QED BY <1>1, <3>2, StopExecutesAll DEF Control!MAX_TIME
  <2> QED BY <2>1, <2>2, <2>3 DEF Control!TellsOfEverything
<1> QED BY <1>1, ControlAlways, PTL DEF StreamingSpec, ToldOfEverything

\* The nineteen cases that the comment on CheckSampleTimes lists, as one rule.
LEMMA CasesSound == ControlInv => Control!CasesAsCommented
<1> SUFFICES ASSUME ControlInv, caller = "check"
             PROVE  (Control!StateAfter(Control!Order(sample)) = "flowing")
                       <=> \/ Control!StateBefore(sample.start) = "flowing"
                           \/ m_tStartTime \in sample.start .. sample.stop - 1
  BY DEF Control!CasesAsCommented
<1>1. sample.start \in 0..MaxTime /\ sample.stop \in 0..MaxTime /\ sample.start < sample.stop
  BY DEF ControlInv, CallerTyped, Control!Samples, Control!Times
<1>2. m_tStartTime \in Nat /\ m_tStopTime \in Nat /\ MaxTime \in Nat
  BY TimesTyped DEF ControlInv, CommandsTyped
<1>3. m_tStopTime < sample.start => m_StreamStateOnStop = "discarding"
  BY <1>1, <1>2 DEF ControlInv, CommandsSound
<1>4. CASE m_tStopTime >= sample.start
  BY <1>1, <1>2, <1>4 DEF Control!Order, Control!StateAfter, Control!StateBefore, Control!AfterStart
<1>5. CASE m_tStopTime < sample.start
  BY <1>1, <1>2, <1>3, <1>5 DEF Control!Order, Control!StateAfter, Control!StateBefore, Control!AfterStart,
     Control!AfterStop
<1> QED BY <1>1, <1>2, <1>4, <1>5

-----------------------------------------------------------------------------
(* The invariant of the pulling pin.                                       *)

\* After an answer to Pause the worker cleans up and waits.
Quiet == {"flush", "collectall", "endflush", "get"}

\* The worker holds a sample.
Holding == {"request1", "request2", "syncread", "deliver", "deliverlast", "deliversync"}

\* Nothing is at the reader.
Collected == {"none", "get", "process", "ended", "endflush", "end", "outer", "first", "read", "request1",
              "syncread", "deliverlast", "deliversync"}

\* One request is at the reader, where the allocator has two samples.
Ahead == {"inner", "next", "request2", "deliver", "last"}

\* All of the range so far is delivered or in flight.
Lossless == {"outer", "inner", "first", "next", "read", "last", "request1", "request2", "syncread", "collect",
             "deliver", "deliverlast", "deliversync", "end"}

WorkerPlaces == Quiet \cup Collected \cup Ahead \cup {"collect", "cleanup"}

PullTyped ==
    /\ pullConnected \in BOOLEAN /\ thread \in BOOLEAN /\ replied \in BOOLEAN /\ pullFlushing \in BOOLEAN
    /\ ended \in BOOLEAN
    /\ request \in {"none", "Start", "Pause", "Exit"} /\ m_PullState \in {"Start", "Pause", "Exit"}
    /\ m_tStart \in Nat /\ m_tStop \in Nat
    /\ client \in {"idle", "started", "flush", "post", "stopped", "restart", "join", "release"}
    /\ pullWorker \in WorkerPlaces
    /\ place \in [Buffers -> {"free", "worker", "pending", "done", "failed", "down"}]

\* Of a command: it is posted, and then answered; which one it is; and where the
\* worker is meanwhile.
Handshake ==
    /\ thread <=> pullWorker # "none"
    /\ client # "idle" \/ thread => pullConnected
    /\ IF client \in {"started", "stopped"} THEN request = "none" <=> replied
       ELSE request = "none" /\ ~replied
    /\ client \in {"idle", "flush", "post"} => m_PullState = IF thread THEN "Start" ELSE "Exit"
    /\ client \in {"flush", "post"} => thread
    /\ client = "started" => /\ thread /\ m_PullState = "Start"
                             /\ ~replied => request = "Start" /\ pullWorker \in Quiet
    /\ client = "stopped" => /\ thread /\ m_PullState = IF method = "Seek" THEN "Pause" ELSE "Exit"
                             /\ ~replied => request = m_PullState
                             /\ replied => IF method = "Seek" THEN pullWorker \in Quiet ELSE pullWorker = "ended"
    /\ client = "restart" => thread /\ m_PullState = "Pause" /\ pullWorker \in Quiet
    /\ client = "join" => m_PullState = "Exit" /\ pullWorker = "ended"
    /\ pullWorker = "ended" => client \in {"stopped", "join"} /\ request = "none"
    /\ client = "release" => m_PullState = "Exit" /\ ~thread

AtReader(b) == place[b] \in {"pending", "done", "failed"}

HeldInv ==
    \A b, c \in Buffers : place[b] = "worker" /\ place[c] = "worker" => pullWorker \in Holding /\ b = c

Double == Pull!Cardinality(Buffers) > 1

ReaderInv ==
    /\ \A b \in Buffers : AtReader(b) => pullWorker \notin Collected
    /\ \A b \in Buffers : pullWorker = "collectall" => place[b] # "pending"
    /\ \A b, c \in Buffers : pullWorker \in Ahead /\ AtReader(b) /\ AtReader(c) => b = c
    /\ \A b, c, d \in Buffers : pullWorker = "collect" /\ AtReader(b) /\ AtReader(c) /\ AtReader(d)
                                   => b = c \/ c = d \/ b = d
    /\ \A b \in Buffers : AtReader(b) /\ pullWorker \in {"inner", "next"} => Double
    /\ pullWorker \in {"first", "request1"} => Double

WorkerInv == PullTyped /\ Handshake /\ HeldInv /\ ReaderInv /\ Pull!FlushesEnd

-----------------------------------------------------------------------------
(* The commands and the samples. *)

\* An allocator with two samples is one whose count is above one.
LEMMA TwoSamples == \A b, c \in Buffers : b # c => Double
<1> SUFFICES ASSUME NEW b \in Buffers, NEW c \in Buffers, b # c PROVE Double
  OBVIOUS
<1>1. Pull!Cardinality(Buffers) = Cardinality(Buffers)
  BY DEF Pull!Cardinality, Cardinality
<1>2. IsFiniteSet(Buffers)
  <2>1. Pull!IsFiniteSet(Buffers)
    BY StreamingAssumption DEF Pull!PullPinAssumption
  <2> QED BY <2>1 DEF Pull!IsFiniteSet, IsFiniteSet
<1>3. Cardinality({b}) = 1 /\ IsFiniteSet({b})
  BY FS_Singleton
<1>4. IsFiniteSet({b} \cup {c}) /\ Cardinality({b} \cup {c}) = 2
  <2>1. c \notin {b}
    OBVIOUS
  <2>2. IsFiniteSet({b} \cup {c}) /\ Cardinality({b} \cup {c}) = Cardinality({b}) + 1
    BY <1>3, <2>1, FS_AddElement, Zenon
  <2> QED BY <1>3, <2>2
<1>5. Cardinality({b} \cup {c}) <= Cardinality(Buffers) /\ Cardinality(Buffers) \in Nat
  BY <1>2, FS_Subset, FS_CardinalityType
<1>6. Cardinality(Buffers) > 1
  BY <1>4, <1>5
<1> QED BY <1>1, <1>6 DEF Double

LEMMA PullStarts == Pull!Init => WorkerInv
<1> SUFFICES ASSUME Pull!Init PROVE WorkerInv
  OBVIOUS
<1> USE DEF Pull!Init
<1>1. PullTyped
  BY DEF PullTyped, WorkerPlaces, Collected
<1>2. Handshake
  BY DEF Handshake
<1>3. HeldInv /\ ReaderInv /\ Pull!FlushesEnd
  BY DEF HeldInv, ReaderInv, AtReader, Pull!FlushesEnd, Ahead
<1> QED BY <1>1, <1>2, <1>3 DEF WorkerInv

ClientStep ==
    \/ \E bSync \in BOOLEAN : Pull!Connect(bSync)
    \/ Pull!Active \/ Pull!Inactive \/ Pull!SeekStarted \/ Pull!Disconnect
    \/ \E tStart \in Starts, tStop \in Stops : Pull!SeekStopped(tStart, tStop)
    \/ Pull!Continue

\* What the application's methods do to the worker's side: it is created, it is
\* joined, or its requests are cancelled.
LEMMA ClientMoves ==
    ASSUME ClientStep, PullTyped
    PROVE  /\ UNCHANGED << range, job, delivered, ended >>
           /\ \/ pullWorker' = pullWorker
              \/ ~thread /\ pullWorker' = "get"
              \/ pullWorker = "ended" /\ pullWorker' = "none"
           /\ \A b \in Buffers : place'[b] = place[b] \/ (place[b] = "pending" /\ place'[b] = "failed")
<1> USE DEF Pull!Connect, Pull!Active, Pull!Inactive, Pull!SeekStarted, Pull!Disconnect, Pull!SeekStopped,
           Pull!FlushReader, Pull!PostStop, Pull!Started, Pull!Stopped, Pull!Join, Pull!ReleaseReader, Pull!Restart,
           Pull!bufVars, Pull!outVars
<1>1. CASE Pull!FlushReader
  BY <1>1 DEF Pull!BeginFlush, PullTyped
<1>2. CASE ~Pull!FlushReader
  <2>1. UNCHANGED << range, job, delivered, ended, place >>
    BY <1>2 DEF ClientStep, Pull!Continue
  <2>2. pullWorker' = pullWorker \/ (~thread /\ pullWorker' = "get") \/ (pullWorker = "ended" /\ pullWorker' = "none")
    BY <1>2 DEF ClientStep, Pull!Continue
  <2> QED BY <2>1, <2>2
<1> QED BY <1>1, <1>2

LEMMA ClientSamples ==
    ASSUME WorkerInv, ClientStep
    PROVE  HeldInv' /\ ReaderInv'
<1>1. /\ pullWorker' = pullWorker \/ (pullWorker = "none" /\ pullWorker' = "get") \/ (pullWorker = "ended" /\ pullWorker' = "none")
      /\ \A b \in Buffers : place'[b] = place[b] \/ (place[b] = "pending" /\ place'[b] = "failed")
  BY ClientMoves DEF WorkerInv, Handshake
<1>2. \A b \in Buffers : AtReader(b)' <=> AtReader(b)
  BY <1>1 DEF AtReader
<1>3. \A b \in Buffers : place'[b] = "worker" <=> place[b] = "worker"
  BY <1>1
<1>4. \A b \in Buffers : place'[b] = "pending" => place[b] = "pending"
  BY <1>1
<1>5. CASE pullWorker' = pullWorker
  BY <1>2, <1>3, <1>4, <1>5 DEF WorkerInv, HeldInv, ReaderInv
<1>6. CASE pullWorker \in {"none", "ended"} /\ pullWorker' \in {"none", "get"}
  <2>1. \A b \in Buffers : ~AtReader(b) /\ place[b] # "worker"
    BY <1>6 DEF WorkerInv, HeldInv, ReaderInv, Holding, Collected
  <2> QED BY <1>2, <1>3, <1>6, <2>1 DEF HeldInv, ReaderInv, AtReader
<1> QED BY <1>1, <1>5, <1>6

LEMMA ClientTyped ==
    ASSUME WorkerInv, ClientStep
    PROVE  PullTyped'
<1>0. FileLength \in Nat /\ Starts \subseteq Nat /\ Stops \subseteq Nat
  BY StreamingAssumption DEF Pull!PullPinAssumption
<1> USE <1>0 DEF WorkerInv, PullTyped, Pull!ctlVars, Pull!cmdVars, Pull!outVars, Pull!bufVars, Pull!cliVars, Pull!Call, Pull!Post,
           Pull!SetPositions, Pull!BeginFlush, Pull!EndFlush, WorkerPlaces, Collected, Quiet
<1>1. ASSUME NEW bSync \in BOOLEAN, Pull!Connect(bSync) PROVE PullTyped'
  BY <1>1 DEF Pull!Connect
<1>2. CASE Pull!Active \/ Pull!Inactive \/ Pull!SeekStarted \/ Pull!Disconnect
  BY ZenonT(60), <1>2 DEF Pull!Active, Pull!Inactive, Pull!SeekStarted, Pull!Disconnect
<1>3. ASSUME NEW tStart \in Starts, NEW tStop \in Stops, Pull!SeekStopped(tStart, tStop) \/ Pull!Restart(tStart, tStop)
      PROVE  PullTyped'
  BY <1>3 DEF Pull!SeekStopped, Pull!Restart
<1>4. CASE Pull!FlushReader
  BY <1>4 DEF Pull!FlushReader
<1>5. CASE Pull!PostStop \/ Pull!Started \/ Pull!Stopped
  BY ZenonT(60), <1>5 DEF Pull!PostStop, Pull!Started, Pull!Stopped
<1>6. CASE Pull!Join \/ Pull!ReleaseReader
  BY ZenonT(60), <1>6 DEF Pull!Join, Pull!ReleaseReader
<1> QED BY <1>1, <1>2, <1>3, <1>4, <1>5, <1>6 DEF ClientStep, Pull!Continue

LEMMA ClientHandshake ==
    ASSUME WorkerInv, ClientStep
    PROVE  Handshake' /\ Pull!FlushesEnd'
<1> USE DEF WorkerInv, PullTyped, Handshake, Pull!FlushesEnd, Pull!ctlVars, Pull!cmdVars, Pull!cliVars, Pull!Call, Pull!Post, Pull!BeginFlush,
            Pull!EndFlush
<1>1. ASSUME NEW bSync \in BOOLEAN, Pull!Connect(bSync) PROVE Handshake' /\ Pull!FlushesEnd'
  BY <1>1 DEF Pull!Connect
<1>2. CASE Pull!Active
  BY <1>2 DEF Pull!Active, Quiet
<1>3. CASE Pull!Inactive \/ Pull!SeekStarted
  BY <1>3 DEF Pull!Inactive, Pull!SeekStarted
<1>4. CASE Pull!Disconnect
  BY <1>4 DEF Pull!Disconnect
<1>5. ASSUME NEW tStart \in Starts, NEW tStop \in Stops, Pull!SeekStopped(tStart, tStop)
      PROVE  Handshake' /\ Pull!FlushesEnd'
  BY <1>5 DEF Pull!SeekStopped
<1>6. ASSUME NEW tStart \in Starts, NEW tStop \in Stops, Pull!Restart(tStart, tStop)
      PROVE  Handshake' /\ Pull!FlushesEnd'
  BY <1>6 DEF Pull!Restart
<1>7. CASE Pull!FlushReader
  BY <1>7 DEF Pull!FlushReader
<1>8. CASE Pull!PostStop
  BY <1>8 DEF Pull!PostStop
<1>9. CASE Pull!Started
  BY <1>9 DEF Pull!Started
<1>12. CASE Pull!Stopped
  BY <1>12 DEF Pull!Stopped, Quiet
<1>10. CASE Pull!Join
  BY <1>10 DEF Pull!Join
<1>11. CASE Pull!ReleaseReader
  BY <1>11 DEF Pull!ReleaseReader
<1> QED BY <1>1, <1>2, <1>3, <1>4, <1>5, <1>6, <1>7, <1>8, <1>9, <1>10, <1>11, <1>12 DEF ClientStep, Pull!Continue

-----------------------------------------------------------------------------
(* The worker's steps, and those of the reader and the downstream filter.  *)

\* The application's side, which the worker reads only.
AppSide == << pullConnected, m_bSync, m_tStart, m_tStop, m_PullState, thread, method, client >>

LEMMA WorkerLeaves == Pull!Worker => UNCHANGED AppSide
BY DEF Pull!Worker, Pull!GetExit, Pull!GetPause, Pull!GetStart, Pull!Process, Pull!Outer, Pull!Inner, Pull!GetBuffer,
   Pull!TakeBuffer, Pull!Request, Pull!RequestSample, Pull!Collect, Pull!WaitForNext, Pull!SyncRead, Pull!Deliver,
   Pull!DeliverSample, Pull!EndOfStream, Pull!Cleanup, Pull!CleanupCancelled, Pull!IdleFlush, Pull!IdleEndFlush,
   Pull!ctlVars, Pull!cmdVars, Pull!cliVars, AppSide

\* One step of the loop, from one place to another, and what happens to the samples.
LEMMA WorkerTyped ==
    ASSUME WorkerInv, Pull!Worker
    PROVE  PullTyped'
<1> USE DEF WorkerInv, PullTyped, Pull!ctlVars, Pull!cmdVars, Pull!outVars, Pull!bufVars, Pull!cliVars, Pull!BeginFlush,
           Pull!EndFlush, Pull!Go, Pull!Reply, WorkerPlaces, Collected, Quiet, Ahead
<1>1. CASE Pull!GetExit
  BY <1>1 DEF Pull!GetExit
<1>11. CASE Pull!GetPause
  BY <1>11 DEF Pull!GetPause
<1>12. CASE Pull!GetStart
  BY <1>12 DEF Pull!GetStart
<1>2. CASE Pull!Process \/ Pull!Outer \/ Pull!Inner
  BY <1>2 DEF Pull!Process, Pull!Outer, Pull!Inner
<1>3. CASE Pull!GetBuffer
  BY <1>3 DEF Pull!GetBuffer, Pull!TakeBuffer
<1>4. CASE Pull!Request
  BY <1>4 DEF Pull!Request, Pull!RequestSample
<1>5. CASE Pull!Collect
  BY <1>5 DEF Pull!Collect, Pull!WaitForNext
<1>6. CASE Pull!SyncRead
  BY <1>6 DEF Pull!SyncRead
<1>7. CASE Pull!Deliver
  BY <1>7 DEF Pull!Deliver, Pull!DeliverSample
<1>8. CASE Pull!EndOfStream
  BY <1>8 DEF Pull!EndOfStream
<1>13. CASE Pull!Cleanup
  BY <1>13 DEF Pull!Cleanup, Pull!CleanupCancelled
<1>9. CASE Pull!IdleFlush
  BY <1>9 DEF Pull!IdleFlush
<1>10. CASE Pull!IdleEndFlush
  BY ZenonT(60), <1>10 DEF Pull!IdleEndFlush
<1> QED BY <1>1, <1>2, <1>3, <1>4, <1>5, <1>6, <1>7, <1>8, <1>9, <1>10, <1>11, <1>12, <1>13 DEF Pull!Worker

\* Commands are taken only in "get"; a paused worker stays between there and its flush.
LEMMA WorkerCommands ==
    ASSUME WorkerInv, Pull!Worker
    PROVE  \/ UNCHANGED << request, replied >> /\ (pullWorker \in Quiet \ {"get"} => pullWorker' \in Quiet)
              /\ pullWorker # "get" /\ pullWorker' \notin {"ended", "none"} /\ pullWorker \notin {"ended", "none"}
           \/ request # "none" /\ pullWorker = "get" /\ request' = "none" /\ replied' = TRUE
              /\ (request = "Exit" => pullWorker' = "ended") /\ (request = "Pause" => pullWorker' = "flush")
              /\ (request = "Start" => pullWorker' = "process")
<1> USE DEF Pull!cmdVars, Pull!Go, Quiet
<1>1. CASE Pull!GetExit \/ Pull!GetPause \/ Pull!GetStart
  BY <1>1 DEF Pull!GetExit, Pull!GetPause, Pull!GetStart, Pull!Reply
<1>2. CASE Pull!Process \/ Pull!Outer \/ Pull!Inner
  BY <1>2 DEF Pull!Process, Pull!Outer, Pull!Inner
<1>3. CASE Pull!GetBuffer \/ Pull!Request \/ Pull!Collect \/ Pull!SyncRead
  BY <1>3 DEF Pull!GetBuffer, Pull!TakeBuffer, Pull!Request, Pull!RequestSample, Pull!Collect, Pull!WaitForNext, Pull!SyncRead
<1>4. CASE Pull!Deliver
  BY <1>4 DEF Pull!Deliver, Pull!DeliverSample
<1>5. CASE Pull!EndOfStream \/ Pull!Cleanup
  BY <1>5 DEF Pull!EndOfStream, Pull!Cleanup, Pull!CleanupCancelled
<1>6. CASE Pull!IdleFlush \/ Pull!IdleEndFlush
  BY <1>6 DEF Pull!IdleFlush, Pull!IdleEndFlush
<1> QED BY <1>1, <1>2, <1>3, <1>4, <1>5, <1>6 DEF Pull!Worker

LEMMA WorkerHandshake ==
    ASSUME WorkerInv, Pull!Worker
    PROVE  Handshake'
<1> USE DEF WorkerInv, PullTyped, Handshake
<1>1. UNCHANGED << pullConnected, m_PullState, thread, method, client >>
  BY WorkerLeaves DEF AppSide
<1>2. CASE UNCHANGED << request, replied >> /\ (pullWorker \in Quiet \ {"get"} => pullWorker' \in Quiet)
              /\ pullWorker # "get" /\ pullWorker' \notin {"ended", "none"} /\ pullWorker \notin {"ended", "none"}
  BY <1>1, <1>2
<1>3. CASE request # "none" /\ pullWorker = "get" /\ request' = "none" /\ replied' = TRUE
              /\ (request = "Exit" => pullWorker' = "ended") /\ (request = "Pause" => pullWorker' = "flush")
              /\ (request = "Start" => pullWorker' = "process")
  <2>1. CASE client = "started"
    BY <1>1, <1>3, <2>1
  <2>2. CASE client = "stopped"
    BY <1>1, <1>3, <2>2 DEF Quiet
  <2> QED BY <1>3, <2>1, <2>2
<1> QED BY <1>2, <1>3, WorkerCommands

LEMMA WorkerFlushes ==
    ASSUME WorkerInv, Pull!Worker
    PROVE  Pull!FlushesEnd'
<1> USE DEF WorkerInv, Pull!FlushesEnd, Pull!Go
<1>1. UNCHANGED client
  BY WorkerLeaves DEF AppSide
<1>2. CASE Pull!IdleFlush
  BY <1>2 DEF Pull!IdleFlush
<1>3. CASE Pull!IdleEndFlush
  BY <1>3 DEF Pull!IdleEndFlush, Pull!EndFlush
<1>4. CASE Pull!Cleanup
  BY <1>1, <1>4 DEF Pull!Cleanup, Pull!CleanupCancelled
<1>5. CASE ~Pull!IdleFlush /\ ~Pull!IdleEndFlush /\ ~Pull!Cleanup
  <2>1. UNCHANGED pullFlushing /\ pullWorker \notin {"collectall", "endflush"}
    BY <1>5 DEF Pull!Worker, Pull!GetExit, Pull!GetPause, Pull!GetStart, Pull!Process, Pull!Outer, Pull!Inner,
       Pull!GetBuffer, Pull!TakeBuffer, Pull!Request, Pull!RequestSample, Pull!Collect, Pull!WaitForNext,
       Pull!SyncRead, Pull!Deliver, Pull!DeliverSample, Pull!EndOfStream
  <2> QED BY <1>1, <2>1
<1> QED BY <1>2, <1>3, <1>4, <1>5

\* A step of the loop that moves no sample.
LEMMA SamplesStay ==
    ASSUME WorkerInv, UNCHANGED place, pullWorker \notin Holding,
           pullWorker' \in Collected => \A b \in Buffers : ~AtReader(b),
           pullWorker' \notin {"collect", "collectall"},
           pullWorker' \in Ahead => pullWorker \in Collected \cup {"inner"},
           pullWorker' \in {"first", "request1"} => Double
    PROVE  HeldInv' /\ ReaderInv'
<1>1. \A b \in Buffers : AtReader(b)' <=> AtReader(b)
  BY DEF AtReader
<1>2. \A b \in Buffers : place[b] # "worker"
  BY DEF WorkerInv, HeldInv
<1>3. pullWorker \in Collected => \A b \in Buffers : ~AtReader(b)
  BY DEF WorkerInv, ReaderInv
<1>4. HeldInv'
  BY <1>2 DEF HeldInv
<1>5. \A b \in Buffers : AtReader(b)' => pullWorker' \notin Collected
  BY <1>1
<1>7. \A b, c \in Buffers : pullWorker' \in Ahead /\ AtReader(b)' /\ AtReader(c)' => b = c
  <2> SUFFICES ASSUME NEW b \in Buffers, NEW c \in Buffers, pullWorker' \in Ahead, AtReader(b)', AtReader(c)' PROVE b = c
    OBVIOUS
  <2>1. AtReader(b) /\ AtReader(c)
    BY <1>1
  <2>2. pullWorker = "inner"
    BY <1>3, <2>1
  <2> QED BY <2>1, <2>2 DEF WorkerInv, ReaderInv, Ahead
<1>9. \A b \in Buffers : AtReader(b)' /\ pullWorker' \in {"inner", "next"} => Double
  <2> SUFFICES ASSUME NEW b \in Buffers, AtReader(b)', pullWorker' \in {"inner", "next"} PROVE Double
    OBVIOUS
  <2>1. AtReader(b)
    BY <1>1
  <2>2. pullWorker = "inner"
    BY <1>3, <2>1 DEF Ahead
  <2> QED BY <2>1, <2>2 DEF WorkerInv, ReaderInv
<1> QED BY <1>4, <1>5, <1>7, <1>9 DEF ReaderInv

\* Leaving the loop, or with nothing at the reader but what is cancelled, there
\* is nothing to show of the samples at the reader.
LEMMA ReaderFree ==
    ASSUME pullWorker' \in {"cleanup", "flush"}
    PROVE  ReaderInv'
BY DEF ReaderInv, Collected, Ahead

\* A worker that takes, passes on or lets go of one sample.
LEMMA OneSample ==
    ASSUME WorkerInv, NEW b \in Buffers, NEW p \in {"free", "worker", "pending", "down"},
           place' = [place EXCEPT ![b] = p]
    PROVE  /\ \A c \in Buffers : place'[c] = IF c = b THEN p ELSE place[c]
           /\ \A c \in Buffers : c # b => (AtReader(c)' <=> AtReader(c))
           /\ AtReader(b)' <=> p = "pending"
BY DEF WorkerInv, PullTyped, AtReader

LEMMA WorkerTakes ==
    ASSUME WorkerInv, Pull!GetBuffer
    PROVE  HeldInv' /\ ReaderInv'
<1>1. PICK b \in Buffers : place[b] = "free" /\ place' = [place EXCEPT ![b] = "worker"]
  BY DEF Pull!GetBuffer, Pull!TakeBuffer
<1>2. \A c \in Buffers : place'[c] = IF c = b THEN "worker" ELSE place[c]
  BY <1>1, OneSample
<1>3. \A c \in Buffers : AtReader(c)' <=> AtReader(c)
  BY <1>1, <1>2 DEF AtReader
<1>4. (pullWorker = "first" /\ pullWorker' = "request1") \/ (pullWorker = "next" /\ pullWorker' = "request2")
      \/ (pullWorker = "read" /\ pullWorker' = "syncread")
  BY DEF Pull!GetBuffer, Pull!TakeBuffer, Pull!Go
<1>5. \A c \in Buffers : place[c] # "worker"
  BY <1>4 DEF WorkerInv, HeldInv, Holding
<1>6. HeldInv'
  BY <1>2, <1>4, <1>5 DEF HeldInv, Holding
<1>7. pullWorker \in Collected => \A c \in Buffers : ~AtReader(c)
  BY DEF WorkerInv, ReaderInv
<1>8. CASE pullWorker = "next" /\ pullWorker' = "request2"
  <2>1. \A c, d \in Buffers : AtReader(c) /\ AtReader(d) => c = d
    BY <1>8 DEF WorkerInv, ReaderInv, Ahead
  <2> QED BY <1>3, <1>6, <1>8, <2>1 DEF ReaderInv, Collected, Ahead
<1>9. CASE pullWorker \in {"first", "read"} /\ pullWorker' \in {"request1", "syncread"}
  <2>1. \A c \in Buffers : ~AtReader(c)
    BY <1>7, <1>9 DEF Collected
  <2>2. pullWorker' = "request1" => Double
    BY <1>4, <1>9 DEF WorkerInv, ReaderInv
  <2> QED BY <1>3, <1>6, <1>9, <2>1, <2>2 DEF ReaderInv, Collected, Ahead
<1> QED BY <1>4, <1>8, <1>9

LEMMA WorkerRequests ==
    ASSUME WorkerInv, Pull!Request
    PROVE  HeldInv' /\ ReaderInv'
<1>1. PICK from \in {"request1", "request2"}, to \in {"inner", "collect"} :
         /\ from = "request1" <=> to = "inner"
         /\ Pull!RequestSample(from, to)
  BY DEF Pull!Request
<1>2. PICK b \in Buffers :
         /\ place[b] = "worker" /\ pullWorker = from
         /\ \/ place' = [place EXCEPT ![b] = "free"] /\ pullWorker' = "cleanup"
            \/ place' = [place EXCEPT ![b] = "pending"] /\ pullWorker' = to
  BY <1>1 DEF Pull!RequestSample, Pull!Held
<1>3. \A c \in Buffers : c # b => place[c] # "worker"
  BY <1>2 DEF WorkerInv, HeldInv
<1>4. CASE place' = [place EXCEPT ![b] = "free"] /\ pullWorker' = "cleanup"
  <2>1. \A c \in Buffers : place'[c] = IF c = b THEN "free" ELSE place[c]
    BY <1>4, OneSample
  <2> QED BY <1>3, <1>4, <2>1, ReaderFree DEF HeldInv
<1>5. CASE place' = [place EXCEPT ![b] = "pending"] /\ pullWorker' = to
  <2>1. /\ \A c \in Buffers : place'[c] = IF c = b THEN "pending" ELSE place[c]
        /\ \A c \in Buffers : c # b => (AtReader(c)' <=> AtReader(c))
    BY <1>5, OneSample
  <2>2. HeldInv'
    BY <1>3, <2>1 DEF HeldInv
  <2>3. CASE pullWorker = "request1" /\ pullWorker' = "inner"
    <3>1. \A c \in Buffers : ~AtReader(c)
      BY <2>3 DEF WorkerInv, ReaderInv, Collected
    <3>2. \A c \in Buffers : AtReader(c)' => c = b
      BY <2>1, <3>1
    <3>3. Double
      BY <2>3 DEF WorkerInv, ReaderInv
    <3> QED BY <2>2, <2>3, <3>2, <3>3 DEF ReaderInv, Collected
  <2>4. CASE pullWorker = "request2" /\ pullWorker' = "collect"
    <3>1. \A c, d \in Buffers : AtReader(c) /\ AtReader(d) => c = d
      BY <2>4 DEF WorkerInv, ReaderInv, Ahead
    <3>2. \A c \in Buffers : AtReader(c)' => c = b \/ AtReader(c)
      BY <2>1
    <3> QED BY <2>2, <2>4, <3>1, <3>2 DEF ReaderInv, Collected, Ahead
  <2> QED BY <1>1, <1>2, <1>5, <2>3, <2>4
<1> QED BY <1>2, <1>4, <1>5

LEMMA WorkerCollects ==
    ASSUME WorkerInv, Pull!Collect
    PROVE  HeldInv' /\ ReaderInv'
<1>1. PICK from \in {"collect", "last"}, to \in {"deliver", "deliverlast"} :
         /\ from = "collect" <=> to = "deliver"
         /\ Pull!WaitForNext(from, to)
  BY DEF Pull!Collect
<1>2. \A c \in Buffers : place[c] # "worker"
  BY <1>1 DEF Pull!WaitForNext, WorkerInv, HeldInv, Holding
<1>3. CASE UNCHANGED place /\ pullWorker' = "cleanup"
  BY <1>2, <1>3, ReaderFree DEF HeldInv
<1>4. ASSUME NEW b \in Buffers, place' = [place EXCEPT ![b] = "free"], pullWorker' = "cleanup"
      PROVE  HeldInv' /\ ReaderInv'
  <2>1. \A c \in Buffers : place'[c] = IF c = b THEN "free" ELSE place[c]
    BY <1>4, OneSample
  <2> QED BY <1>2, <1>4, <2>1, ReaderFree DEF HeldInv
<1>5. ASSUME NEW b \in Buffers, place[b] = "done", place' = [place EXCEPT ![b] = "worker"], pullWorker = from, pullWorker' = to
      PROVE  HeldInv' /\ ReaderInv'
  <2>1. /\ \A c \in Buffers : place'[c] = IF c = b THEN "worker" ELSE place[c]
        /\ \A c \in Buffers : c # b => (AtReader(c)' <=> AtReader(c))
        /\ ~AtReader(b)'
    BY <1>5, OneSample
  <2>2. HeldInv'
    BY <1>1, <1>2, <1>5, <2>1 DEF HeldInv, Holding
  <2>3. AtReader(b)
    BY <1>5 DEF AtReader
  <2>4. CASE pullWorker = "last" /\ pullWorker' = "deliverlast"
    <3>1. \A c \in Buffers : AtReader(c) => c = b
      BY <2>3, <2>4 DEF WorkerInv, ReaderInv, Ahead
    <3>2. \A c \in Buffers : ~AtReader(c)'
      BY <2>1, <3>1
    <3> QED BY <2>2, <2>4, <3>2 DEF ReaderInv
  <2>5. CASE pullWorker = "collect" /\ pullWorker' = "deliver"
    <3>1. \A c, d \in Buffers : AtReader(c) /\ AtReader(d) /\ c # b /\ d # b => c = d
      BY <2>3, <2>5 DEF WorkerInv, ReaderInv
    <3>2. \A c \in Buffers : AtReader(c)' => c # b /\ AtReader(c)
      BY <2>1
    <3> QED BY <2>2, <2>5, <3>1, <3>2 DEF ReaderInv, Collected, Ahead
  <2> QED BY <1>1, <1>5, <2>4, <2>5
<1> QED BY <1>1, <1>3, <1>4, <1>5 DEF Pull!WaitForNext

LEMMA WorkerReads ==
    ASSUME WorkerInv, Pull!SyncRead
    PROVE  HeldInv' /\ ReaderInv'
<1>1. PICK b \in Buffers : /\ place[b] = "worker" /\ pullWorker = "syncread"
                           /\ \/ pullWorker' = "deliversync" /\ UNCHANGED place
                              \/ pullWorker' = "flush" /\ place' = [place EXCEPT ![b] = "free"]
  BY DEF Pull!SyncRead, Pull!Held
<1>2. \A c \in Buffers : ~AtReader(c)
  BY <1>1 DEF WorkerInv, ReaderInv, Collected
<1>3. \A c \in Buffers : c # b => place[c] # "worker"
  BY <1>1 DEF WorkerInv, HeldInv
<1>4. CASE pullWorker' = "deliversync" /\ UNCHANGED place
  BY <1>2, <1>3, <1>4 DEF HeldInv, Holding, ReaderInv, AtReader, Ahead
<1>5. CASE pullWorker' = "flush" /\ place' = [place EXCEPT ![b] = "free"]
  <2>1. \A c \in Buffers : place'[c] = IF c = b THEN "free" ELSE place[c]
    BY <1>5, OneSample
  <2> QED BY <1>3, <1>5, <2>1, ReaderFree DEF HeldInv
<1> QED BY <1>1, <1>4, <1>5

LEMMA WorkerDelivers ==
    ASSUME WorkerInv, Pull!Deliver
    PROVE  HeldInv' /\ ReaderInv'
<1>1. /\ \E b \in Buffers, p \in {"free", "down"} : place[b] = "worker" /\ place' = [place EXCEPT ![b] = p]
      /\ \/ pullWorker = "deliver" /\ pullWorker' \in {"inner", "flush", "cleanup"}
         \/ pullWorker = "deliverlast" /\ pullWorker' \in {"outer", "cleanup"}
         \/ pullWorker = "deliversync" /\ pullWorker' \in {"outer", "flush"}
  <2>1. \E b \in Buffers, p \in {"free", "down"} : place[b] = "worker" /\ place' = [place EXCEPT ![b] = p]
    BY DEF Pull!Deliver, Pull!DeliverSample, Pull!Held
  <2>2. CASE Pull!DeliverSample("deliver", "inner", "flush", "cleanup")
    <3>1. pullWorker = "deliver" /\ pullWorker' \in {"inner", "flush", "cleanup"}
      BY <2>2 DEF Pull!DeliverSample
    <3> QED BY <2>1, <3>1
  <2>3. CASE Pull!DeliverSample("deliverlast", "outer", "outer", "cleanup")
    <3>1. pullWorker = "deliverlast" /\ pullWorker' \in {"outer", "outer", "cleanup"}
      BY <2>3 DEF Pull!DeliverSample
    <3> QED BY <2>1, <3>1
  <2>4. CASE Pull!DeliverSample("deliversync", "outer", "flush", "flush")
    <3>1. pullWorker = "deliversync" /\ pullWorker' \in {"outer", "flush", "flush"}
      BY <2>4 DEF Pull!DeliverSample
    <3> QED BY <2>1, <3>1
  <2> QED BY <2>2, <2>3, <2>4 DEF Pull!Deliver
<1>2. PICK b \in Buffers, p \in {"free", "down"} : place[b] = "worker" /\ place' = [place EXCEPT ![b] = p]
  BY <1>1
<1>3. \A c \in Buffers : c # b => place[c] # "worker"
  BY <1>2 DEF WorkerInv, HeldInv
<1>4. \A c \in Buffers : place'[c] = IF c = b THEN p ELSE place[c]
  <2>1. p \in {"free", "worker", "pending", "down"}
    OBVIOUS
  <2> QED BY ZenonT(60), <1>2, <2>1, OneSample
<1>5. HeldInv'
  BY <1>3, <1>4 DEF HeldInv
<1>6. \A c \in Buffers : AtReader(c)' => c # b /\ AtReader(c)
  BY <1>4 DEF AtReader
<1>7. CASE pullWorker' \in {"cleanup", "flush"}
  BY <1>5, <1>7, ReaderFree
<1>8. CASE pullWorker = "deliver" /\ pullWorker' = "inner"
  <2>1. \A c, d \in Buffers : AtReader(c) /\ AtReader(d) => c = d
    BY <1>8 DEF WorkerInv, ReaderInv, Ahead
  <2>2. \A c \in Buffers : AtReader(c)' => Double
    BY <1>6, TwoSamples
  <2> QED BY <1>5, <1>6, <1>8, <2>1, <2>2 DEF ReaderInv, Collected, Ahead
<1>9. CASE pullWorker \in {"deliverlast", "deliversync"} /\ pullWorker' = "outer"
  <2>1. \A c \in Buffers : ~AtReader(c)
    BY <1>9 DEF WorkerInv, ReaderInv, Collected
  <2> QED BY <1>5, <1>6, <1>9, <2>1 DEF ReaderInv, Ahead
<1> QED BY <1>1, <1>7, <1>8, <1>9

LEMMA WorkerCleansUp ==
    ASSUME WorkerInv, Pull!Cleanup
    PROVE  HeldInv' /\ ReaderInv'
<1>1. PICK from \in {"cleanup", "collectall"}, to \in {"flush", "endflush"} :
         /\ from = "cleanup" <=> to = "flush"
         /\ Pull!CleanupCancelled(from, to)
  BY DEF Pull!Cleanup
<1>2. \A c \in Buffers : place[c] # "worker"
  BY <1>1 DEF Pull!CleanupCancelled, WorkerInv, HeldInv, Holding
<1>3. CASE (\A b \in Buffers : place[b] \notin {"done", "failed"}) /\ pullWorker' = to /\ UNCHANGED place
  <2>1. HeldInv'
    BY <1>2, <1>3 DEF HeldInv
  <2>2. CASE to = "endflush" /\ pullWorker = "collectall"
    <3>1. \A c \in Buffers : ~AtReader(c)
      BY <1>3, <2>2 DEF WorkerInv, ReaderInv, AtReader
    <3>2. \A c \in Buffers : ~AtReader(c)'
      BY <1>3, <3>1 DEF AtReader
    <3>3. pullWorker' = "endflush"
      BY <1>3, <2>2
    <3>4. ReaderInv'
      BY <3>2, <3>3 DEF ReaderInv, Ahead
    <3> QED BY <2>1, <3>4
  <2> QED BY <1>1, <1>3, <2>1, <2>2, ReaderFree DEF Pull!CleanupCancelled
<1>4. ASSUME NEW b \in Buffers, place' = [place EXCEPT ![b] = "free"], UNCHANGED pullWorker
      PROVE  HeldInv' /\ ReaderInv'
  <2>1. \A c \in Buffers : place'[c] = IF c = b THEN "free" ELSE place[c]
    BY <1>4, OneSample
  <2>2. pullWorker \in {"cleanup", "collectall"}
    BY <1>1 DEF Pull!CleanupCancelled
  <2>3. HeldInv'
    BY <1>2, <2>1 DEF HeldInv
  <2>4. \A c \in Buffers : pullWorker' = "collectall" => place'[c] # "pending"
    BY <1>4, <2>1 DEF WorkerInv, ReaderInv
  <2> QED BY <1>4, <2>2, <2>3, <2>4 DEF ReaderInv, Collected, Ahead
<1> QED BY <1>1, <1>3, <1>4 DEF Pull!CleanupCancelled

LEMMA WorkerSamples ==
    ASSUME WorkerInv, Pull!Worker
    PROVE  HeldInv' /\ ReaderInv'
<1> USE DEF Pull!Go, Pull!bufVars
<1>1. CASE Pull!GetExit \/ Pull!GetPause \/ Pull!GetStart \/ Pull!Process \/ Pull!Outer \/ Pull!EndOfStream
  <2>1. UNCHANGED place /\ pullWorker \in {"get", "process", "outer", "end"}
        /\ pullWorker' \in {"ended", "flush", "process", "end", "outer", "read", "first", "next"}
        /\ (pullWorker' = "first" => Double)
    BY <1>1 DEF Pull!GetExit, Pull!GetPause, Pull!GetStart, Pull!Process, Pull!Outer, Pull!EndOfStream, Double
  <2>2. pullWorker \in Collected /\ pullWorker \notin Holding
    BY <2>1 DEF Collected, Holding
  <2>3. \A b \in Buffers : ~AtReader(b)
    BY <2>2 DEF WorkerInv, ReaderInv
  <2>4. pullWorker' \notin {"collect", "collectall", "request1"}
    BY <2>1
  <2> QED BY <2>1, <2>2, <2>3, <2>4, SamplesStay
<1>2. CASE Pull!Inner
  <2>1. UNCHANGED place /\ pullWorker = "inner" /\ pullWorker' \in {"next", "last", "outer"}
        /\ (pullWorker' = "outer" => ~Double)
    BY <1>2 DEF Pull!Inner, Double
  <2>2. pullWorker' = "outer" => \A b \in Buffers : ~AtReader(b)
    BY <2>1 DEF WorkerInv, ReaderInv
  <2>3. pullWorker \notin Holding /\ pullWorker' \notin {"collect", "collectall", "first", "request1"}
    BY <2>1 DEF Holding
  <2>4. pullWorker' \in Collected => pullWorker' = "outer"
    BY <2>1 DEF Collected
  <2> QED BY <2>1, <2>2, <2>3, <2>4, SamplesStay
<1>3. CASE Pull!IdleEndFlush
  <2>1. UNCHANGED place /\ pullWorker = "endflush" /\ pullWorker' = "get"
    BY <1>3 DEF Pull!IdleEndFlush
  <2>2. pullWorker \in Collected /\ pullWorker \notin Holding /\ pullWorker' \notin Ahead
    BY <2>1 DEF Collected, Holding, Ahead
  <2>3. \A b \in Buffers : ~AtReader(b)
    BY <2>2 DEF WorkerInv, ReaderInv
  <2>4. pullWorker' \notin {"collect", "collectall", "first", "request1"}
    BY <2>1
  <2> QED BY <2>1, <2>2, <2>3, <2>4, SamplesStay
<1>4. CASE Pull!IdleFlush
  <2>1. pullWorker = "flush" /\ pullWorker' = "collectall"
        /\ place' = [b \in Buffers |-> IF place[b] = "pending" THEN "failed" ELSE place[b]]
    BY <1>4 DEF Pull!IdleFlush, Pull!BeginFlush
  <2>2. \A b \in Buffers : place'[b] # "worker"
    BY <2>1 DEF WorkerInv, HeldInv, Holding
  <2> QED BY <2>1, <2>2 DEF HeldInv, ReaderInv, AtReader, Collected, Ahead
<1> QED BY <1>1, <1>2, <1>3, <1>4, WorkerTakes, WorkerRequests, WorkerCollects, WorkerReads, WorkerDelivers,
          WorkerCleansUp DEF Pull!Worker

-----------------------------------------------------------------------------
(* The reader, the downstream filter, and all the steps together.          *)

LEMMA OutsideSteps ==
    ASSUME WorkerInv, Pull!Complete \/ Pull!DownstreamRelease
    PROVE  WorkerInv'
<1>1. UNCHANGED << pullConnected, m_bSync, m_tStart, m_tStop, m_PullState, thread, request, replied, pullFlushing, range, method,
                   client, pullWorker, job, delivered, ended >>
  BY DEF Pull!Complete, Pull!DownstreamRelease, Pull!ctlVars, Pull!cmdVars, Pull!cliVars, Pull!outVars
<1>2. PICK b \in Buffers, p \in {"done", "failed", "free"} :
         /\ place' = [place EXCEPT ![b] = p]
         /\ IF p = "free" THEN place[b] = "down" ELSE place[b] = "pending"
  <2>1. CASE Pull!Complete
    BY <2>1 DEF Pull!Complete
  <2>2. CASE Pull!DownstreamRelease
    BY <2>2 DEF Pull!DownstreamRelease
  <2> QED BY <2>1, <2>2
<1>3. \A c \in Buffers : place'[c] = IF c = b THEN p ELSE place[c]
  BY <1>2 DEF WorkerInv, PullTyped
<1>4. \A c \in Buffers : AtReader(c)' <=> AtReader(c)
  BY <1>2, <1>3 DEF AtReader
<1>5. \A c \in Buffers : place'[c] = "worker" <=> place[c] = "worker"
  BY <1>2, <1>3
<1>6. \A c \in Buffers : place'[c] = "pending" => place[c] = "pending"
  BY <1>2, <1>3
<1>7. PullTyped'
  BY <1>1, <1>2 DEF WorkerInv, PullTyped
<1>8. Handshake' /\ Pull!FlushesEnd'
  BY <1>1 DEF WorkerInv, Handshake, Pull!FlushesEnd
<1>9. HeldInv'
  BY <1>1, <1>5 DEF WorkerInv, HeldInv
<1>10. ReaderInv'
  BY <1>1, <1>4, <1>6 DEF WorkerInv, ReaderInv
<1> QED BY <1>7, <1>8, <1>9, <1>10 DEF WorkerInv

LEMMA PullSteps == Pull!Next => ClientStep \/ Pull!Worker \/ Pull!Complete \/ Pull!DownstreamRelease
BY DEF Pull!Next, ClientStep

LEMMA WorkerKept ==
    ASSUME WorkerInv, [Pull!Next]_pullVars
    PROVE  WorkerInv'
<1>1. CASE ClientStep
  BY <1>1, ClientSamples, ClientTyped, ClientHandshake DEF WorkerInv
<1>2. CASE Pull!Worker
  BY <1>2, WorkerSamples, WorkerTyped, WorkerHandshake, WorkerFlushes DEF WorkerInv
<1>3. CASE Pull!Complete \/ Pull!DownstreamRelease
  BY <1>3, OutsideSteps
<1>4. CASE UNCHANGED pullVars
  <2>1. PullTyped' /\ Handshake'
    BY <1>4 DEF pullVars, WorkerInv, PullTyped, Handshake
  <2>2. HeldInv' /\ ReaderInv' /\ Pull!FlushesEnd'
    BY <1>4 DEF pullVars, WorkerInv, HeldInv, ReaderInv, AtReader, Pull!FlushesEnd
  <2> QED BY <2>1, <2>2 DEF WorkerInv
<1> QED BY <1>1, <1>2, <1>3, <1>4, PullSteps

LEMMA PullSoundHolds == WorkerInv => Pull!PullSound
<1> SUFFICES ASSUME WorkerInv PROVE Pull!PullSound
  OBVIOUS
<1>1. Pull!NothingOutstanding
  <2> SUFFICES ASSUME pullWorker \in {"none", "get", "ended"}, NEW b \in Buffers PROVE place[b] \in {"free", "down"}
    BY DEF Pull!NothingOutstanding, Pull!Outstanding
  <2>1. pullWorker \in Collected /\ pullWorker \notin Holding
    BY DEF Collected, Holding
  <2>2. ~AtReader(b) /\ place[b] # "worker"
    BY <2>1 DEF WorkerInv, HeldInv, ReaderInv
  <2> QED BY <2>2 DEF AtReader, WorkerInv, PullTyped
<1>2. Pull!FlushesEnd
  BY DEF WorkerInv
<1>3. Pull!PausedIsQuiet
  BY DEF WorkerInv, Handshake, PullTyped, Quiet, Pull!PausedIsQuiet
<1> QED BY <1>1, <1>2, <1>3 DEF Pull!PullSound

-----------------------------------------------------------------------------
(* The positions.                                                          *)

InFlight(b) == place[b] \notin {"free", "down"}

Within(x) == job.tStart <= x /\ x < job.tStop

\* What has been delivered, and what is on its way, of one position.
Got(x, i) == delivered[i][1] + job.tStart <= x /\ x < delivered[i][2] + job.tStart
Coming(x, b) == InFlight(b) /\ range[b][1] <= x /\ x < range[b][2] /\ x < job.tStop

DataTyped ==
    /\ job \in [tStart : Int, tStop : Int, tAlignStop : Int, tCurrent : Int]
    /\ range \in [Buffers -> Int \X Int]
    /\ delivered \in Seq(Int \X Int)

DeliveredInv ==
    /\ pullWorker = "process" => delivered = << >> /\ ~ended
    /\ \A i, j \in DOMAIN delivered : \A x \in Int : Got(x, i) /\ Got(x, j) => i = j
    /\ \A i \in DOMAIN delivered : \A x \in Int : Got(x, i) => Within(x)
    /\ ended => \A x \in Int : Within(x) => \E i \in DOMAIN delivered : Got(x, i)

\* In the loop: everything up to tCurrent is delivered or on its way, and
\* nothing beyond.
LoopInv ==
    pullWorker \in Lossless =>
      /\ job.tStart <= job.tCurrent /\ job.tStop <= job.tAlignStop
      /\ \A b \in Buffers : \A x \in Int : Coming(x, b) => Within(x) /\ x < job.tCurrent
      /\ \A i \in DOMAIN delivered : \A x \in Int : Got(x, i) => x < job.tCurrent
      /\ \A b, c \in Buffers : \A x \in Int : Coming(x, b) /\ Coming(x, c) => b = c
      /\ \A b \in Buffers, i \in DOMAIN delivered : \A x \in Int : ~(Coming(x, b) /\ Got(x, i))
      /\ \A x \in Int : Within(x) /\ x < job.tCurrent
                           => (\E i \in DOMAIN delivered : Got(x, i)) \/ (\E b \in Buffers : Coming(x, b))
      /\ pullWorker \in {"first", "next", "read"} => job.tCurrent < job.tAlignStop
      /\ pullWorker = "end" => job.tStop <= job.tCurrent

DataInv == DataTyped /\ DeliveredInv /\ LoopInv

LEMMA DataStarts == Pull!Init => DataInv
<1> SUFFICES ASSUME Pull!Init PROVE DataInv
  OBVIOUS
<1>1. /\ job = [tStart |-> 0, tStop |-> 0, tAlignStop |-> 0, tCurrent |-> 0]
      /\ range = [b \in Buffers |-> << 0, 0 >>] /\ delivered = << >> /\ ended = FALSE /\ pullWorker = "none"
  BY DEF Pull!Init, Pull!NoJob
<1>2. DataTyped
  BY <1>1 DEF DataTyped
<1>3. DOMAIN delivered = {}
  BY <1>1
<1> QED BY <1>1, <1>2, <1>3 DEF DataInv, DeliveredInv, LoopInv, Lossless

\* A step that neither takes a sample for a range nor passes one on.
LEMMA DataStays ==
    ASSUME DataInv, UNCHANGED << range, job, delivered, ended >>,
           pullWorker' = "process" => pullWorker = "process",
           pullWorker' \in Lossless => pullWorker \in Lossless /\ \A b \in Buffers : InFlight(b)' <=> InFlight(b),
           pullWorker' \in {"first", "next", "read"} => job.tCurrent < job.tAlignStop,
           pullWorker' = "end" => job.tStop <= job.tCurrent
    PROVE  DataInv'
<1>1. DataTyped'
  BY DEF DataInv, DataTyped
<1>2. \A x, i : Got(x, i)' <=> Got(x, i)
  BY DEF Got
<1>3. \A x : Within(x)' <=> Within(x)
  BY DEF Within
<1>4. DeliveredInv'
  BY <1>2, <1>3 DEF DataInv, DeliveredInv
<1>5. LoopInv'
  <2> SUFFICES ASSUME pullWorker' \in Lossless PROVE LoopInv'
    BY DEF LoopInv
  <2>1. pullWorker \in Lossless /\ \A b \in Buffers : InFlight(b)' <=> InFlight(b)
    OBVIOUS
  <2>2. \A x : \A b \in Buffers : Coming(x, b)' <=> Coming(x, b)
    BY <2>1 DEF Coming
  <2> QED BY <1>2, <1>3, <2>1, <2>2 DEF DataInv, LoopInv
<1> QED BY <1>1, <1>4, <1>5 DEF DataInv

LEMMA ClientData ==
    ASSUME WorkerInv, DataInv, ClientStep
    PROVE  DataInv'
<1>1. /\ UNCHANGED << range, job, delivered, ended >>
      /\ pullWorker' = pullWorker \/ pullWorker' \in {"get", "none"}
      /\ \A b \in Buffers : place'[b] = place[b] \/ (place[b] = "pending" /\ place'[b] = "failed")
  BY ClientMoves DEF WorkerInv
<1>2. \A b \in Buffers : InFlight(b)' <=> InFlight(b)
  BY <1>1 DEF InFlight
<1>3. pullWorker' \in Lossless \cup {"process"} => pullWorker' = pullWorker
  BY <1>1 DEF Lossless
<1>4. pullWorker' \in {"first", "next", "read", "end"} => pullWorker' \in Lossless
  BY DEF Lossless
<1>5. /\ pullWorker' \in {"first", "next", "read"} => job.tCurrent < job.tAlignStop
      /\ pullWorker' = "end" => job.tStop <= job.tCurrent
  BY <1>3, <1>4 DEF DataInv, LoopInv
<1> QED BY <1>1, <1>2, <1>3, <1>5, DataStays

LEMMA OutsideData ==
    ASSUME WorkerInv, DataInv, Pull!Complete \/ Pull!DownstreamRelease
    PROVE  DataInv'
<1>1. UNCHANGED << pullWorker, range, job, delivered, ended >>
  BY DEF Pull!Complete, Pull!DownstreamRelease, Pull!outVars
<1>2. \A c \in Buffers : InFlight(c)' <=> InFlight(c)
  BY DEF Pull!Complete, Pull!DownstreamRelease, WorkerInv, PullTyped, InFlight
<1>3. pullWorker \in {"first", "next", "read", "end"} => pullWorker \in Lossless
  BY DEF Lossless
<1>4. /\ pullWorker' \in {"first", "next", "read"} => job.tCurrent < job.tAlignStop
      /\ pullWorker' = "end" => job.tStop <= job.tCurrent
  BY <1>1, <1>3 DEF DataInv, LoopInv
<1> QED BY <1>1, <1>2, <1>4, DataStays

\* The steps of the worker that move no range.
LEMMA LoopData ==
    ASSUME WorkerInv, DataInv,
           \/ Pull!GetExit \/ Pull!GetPause \/ Pull!Outer \/ Pull!Inner \/ Pull!Request \/ Pull!Collect \/ Pull!SyncRead
           \/ Pull!Cleanup \/ Pull!IdleFlush \/ Pull!IdleEndFlush
    PROVE  DataInv'
<1> USE DEF Pull!Go
<1>1. CASE Pull!Outer
  <2>1. /\ UNCHANGED << range, job, delivered, ended, place >> /\ pullWorker = "outer"
        /\ pullWorker' \in {"end", "flush", "read", "first", "next"}
        /\ IF job.tCurrent < job.tAlignStop THEN pullWorker' # "end" ELSE pullWorker' = "end"
    BY <1>1 DEF Pull!Outer, Pull!More, Pull!bufVars, Pull!outVars
  <2>2. pullWorker \in Lossless /\ pullWorker' # "process"
    BY <2>1 DEF Lossless
  <2>3. \A b \in Buffers : InFlight(b)' <=> InFlight(b)
    BY <2>1 DEF InFlight
  <2>4. job.tStop <= job.tAlignStop /\ job.tStop \in Int /\ job.tAlignStop \in Int /\ job.tCurrent \in Int
    BY <2>2 DEF DataInv, DataTyped, LoopInv
  <2>5. pullWorker' = "end" => job.tStop <= job.tCurrent
    BY <2>1, <2>4
  <2>6. pullWorker' \in {"first", "next", "read"} => job.tCurrent < job.tAlignStop
    BY <2>1
  <2> QED BY <2>1, <2>2, <2>3, <2>5, <2>6, DataStays
<1>2. CASE Pull!Inner
  <2>1. /\ UNCHANGED << range, job, delivered, ended, place >> /\ pullWorker = "inner"
        /\ pullWorker' \in {"next", "last", "outer"}
        /\ pullWorker' = "next" => job.tCurrent < job.tAlignStop
    BY <1>2 DEF Pull!Inner, Pull!More, Pull!bufVars, Pull!outVars
  <2>2. pullWorker \in Lossless /\ pullWorker' \notin {"process", "end", "first", "read"}
    BY <2>1 DEF Lossless
  <2>3. \A b \in Buffers : InFlight(b)' <=> InFlight(b)
    BY <2>1 DEF InFlight
  <2> QED BY <2>1, <2>2, <2>3, DataStays
<1>3. CASE Pull!Request
  <2>1. PICK from \in {"request1", "request2"}, to \in {"inner", "collect"} : Pull!RequestSample(from, to)
    BY <1>3 DEF Pull!Request
  <2>2. /\ UNCHANGED << range, job, delivered, ended >> /\ pullWorker \in {"request1", "request2"}
        /\ pullWorker' \in {"inner", "collect", "cleanup"}
    BY <2>1 DEF Pull!RequestSample, Pull!outVars
  <2>3. pullWorker' # "cleanup" => \E b \in Buffers : place[b] = "worker" /\ place' = [place EXCEPT ![b] = "pending"]
    BY <2>1 DEF Pull!RequestSample, Pull!Held
  <2>4. pullWorker' # "cleanup" => \A b \in Buffers : InFlight(b)' <=> InFlight(b)
    BY <2>3 DEF InFlight, WorkerInv, PullTyped
  <2>5. pullWorker' \in Lossless => pullWorker \in Lossless /\ pullWorker' # "cleanup"
    BY <2>2 DEF Lossless
  <2>6. pullWorker' \notin {"process", "first", "next", "read", "end"}
    BY <2>2
  <2> QED BY <2>2, <2>4, <2>5, <2>6, DataStays
<1>4. CASE Pull!Collect
  <2>1. PICK from \in {"collect", "last"}, to \in {"deliver", "deliverlast"} : Pull!WaitForNext(from, to)
    BY <1>4 DEF Pull!Collect
  <2>2. /\ UNCHANGED << range, job, delivered, ended >> /\ pullWorker \in {"collect", "last"}
        /\ pullWorker' \in {"deliver", "deliverlast", "cleanup"}
    BY <2>1 DEF Pull!WaitForNext, Pull!outVars
  <2>3. pullWorker' # "cleanup" => \E b \in Buffers : place[b] = "done" /\ place' = [place EXCEPT ![b] = "worker"]
    BY <2>1 DEF Pull!WaitForNext
  <2>4. pullWorker' # "cleanup" => \A b \in Buffers : InFlight(b)' <=> InFlight(b)
    BY <2>3 DEF InFlight, WorkerInv, PullTyped
  <2>5. pullWorker' \in Lossless => pullWorker \in Lossless /\ pullWorker' # "cleanup"
    BY <2>2 DEF Lossless
  <2>6. pullWorker' \notin {"process", "first", "next", "read", "end"}
    BY <2>2
  <2> QED BY <2>2, <2>4, <2>5, <2>6, DataStays
<1>5. CASE Pull!SyncRead
  <2>1. /\ UNCHANGED << range, job, delivered, ended >> /\ pullWorker = "syncread"
        /\ pullWorker' = "flush" \/ (pullWorker' = "deliversync" /\ UNCHANGED place)
    BY <1>5 DEF Pull!SyncRead, Pull!outVars
  <2>2. pullWorker' \in Lossless => pullWorker \in Lossless /\ \A b \in Buffers : InFlight(b)' <=> InFlight(b)
    BY <2>1 DEF Lossless, InFlight
  <2>3. pullWorker' \notin {"process", "first", "next", "read", "end"}
    BY <2>1
  <2> QED BY <2>1, <2>2, <2>3, DataStays
<1>6. CASE Pull!GetExit \/ Pull!GetPause \/ Pull!Cleanup \/ Pull!IdleFlush \/ Pull!IdleEndFlush
  <2>1. UNCHANGED << range, job, delivered, ended >>
    BY <1>6 DEF Pull!GetExit, Pull!GetPause, Pull!Cleanup, Pull!CleanupCancelled, Pull!IdleFlush, Pull!IdleEndFlush,
       Pull!bufVars, Pull!outVars
  <2>2. pullWorker' \in {"ended", "flush", "collectall", "endflush", "get", "cleanup"}
    BY <1>6 DEF Pull!GetExit, Pull!GetPause, Pull!Cleanup, Pull!CleanupCancelled, Pull!IdleFlush, Pull!IdleEndFlush
  <2>3. pullWorker' \notin Lossless /\ pullWorker' \notin {"process", "first", "next", "read", "end"}
    BY <2>2 DEF Lossless
  <2> QED BY <2>1, <2>3, DataStays
<1> QED BY <1>1, <1>2, <1>3, <1>4, <1>5, <1>6

\* What is left at the end of the loop: nothing is on its way.
LEMMA NothingComing ==
    ASSUME WorkerInv, pullWorker \in {"get", "process", "outer", "end", "first", "read"}
    PROVE  \A b \in Buffers : ~InFlight(b)
<1>1. pullWorker \in Collected /\ pullWorker \notin Holding
  BY DEF Collected, Holding
<1>2. \A b \in Buffers : ~AtReader(b) /\ place[b] # "worker"
  BY <1>1 DEF WorkerInv, HeldInv, ReaderInv
<1> QED BY <1>2 DEF InFlight, AtReader, WorkerInv, PullTyped

LEMMA StartData ==
    ASSUME WorkerInv, DataInv, Pull!GetStart
    PROVE  DataInv'
<1>1. delivered' = << >> /\ ended' = FALSE /\ pullWorker' = "process" /\ UNCHANGED << range, job >>
  BY DEF Pull!GetStart, Pull!Go, Pull!bufVars
<1>2. DataTyped'
  BY <1>1 DEF DataInv, DataTyped
<1>3. DOMAIN delivered' = {}
  BY <1>1
<1>4. DeliveredInv'
  BY <1>1, <1>3 DEF DeliveredInv
<1>5. LoopInv'
  BY <1>1 DEF LoopInv, Lossless
<1> QED BY <1>2, <1>4, <1>5 DEF DataInv

LEMMA Aligned ==
    /\ \A l \in Int : Pull!AlignDown(l) \in Int /\ Pull!AlignUp(l) \in Int
    /\ \A l \in Int : l <= Pull!AlignUp(l)
<1>1. Align \in Nat \ {0}
  BY StreamingAssumption DEF Pull!PullPinAssumption
<1> SUFFICES ASSUME NEW l \in Int
             PROVE  Pull!AlignDown(l) \in Int /\ Pull!AlignUp(l) \in Int /\ l <= Pull!AlignUp(l)
  OBVIOUS
<1>2. \A k \in Int : k % Align \in 0..(Align - 1)
  BY <1>1
<1> DEFINE k == l + Align - 1
           r == k % Align
<1>3. k \in Int /\ r \in 0..(Align - 1)
  BY <1>1, <1>2
<1>4. Pull!AlignUp(l) = k - r
  BY DEF Pull!AlignUp, Pull!AlignDown
<1>5. Pull!AlignDown(l) \in Int
  BY <1>1, <1>2 DEF Pull!AlignDown
<1>6. k = l + Align - 1
  OBVIOUS
<1> HIDE DEF r, k
<1> QED BY <1>1, <1>3, <1>4, <1>5, <1>6

LEMMA ProcessData ==
    ASSUME WorkerInv, DataInv, Pull!Process
    PROVE  DataInv'
<1>1. /\ UNCHANGED << range, delivered, ended, place >> /\ pullWorker = "process" /\ pullWorker' \in {"end", "outer"}
      /\ pullWorker' = "end" => job' = Pull!NoJob
      /\ pullWorker' = "outer" =>
           LET tStop == Pull!Least(m_tStop, FileLength) IN
           job' = [tStart |-> Pull!AlignDown(m_tStart), tCurrent |-> Pull!AlignDown(m_tStart),
                   tStop |-> tStop, tAlignStop |-> Pull!AlignUp(tStop)]
  BY DEF Pull!Process, Pull!Go, Pull!bufVars, Pull!outVars
<1>2. m_tStart \in Int /\ m_tStop \in Int /\ FileLength \in Int
  BY StreamingAssumption DEF WorkerInv, PullTyped, Pull!PullPinAssumption
<1> DEFINE stop == Pull!Least(m_tStop, FileLength)
<1>3. stop \in Int
  BY <1>2 DEF Pull!Least
<1>4. Pull!AlignDown(m_tStart) \in Int /\ Pull!AlignUp(stop) \in Int /\ stop <= Pull!AlignUp(stop)
  BY <1>2, <1>3, Aligned
<1> HIDE DEF stop
<1>5. /\ job' \in [tStart : Int, tStop : Int, tAlignStop : Int, tCurrent : Int]
      /\ job'.tStart = job'.tCurrent /\ job'.tStop <= job'.tAlignStop
      /\ pullWorker' = "end" => job'.tStop <= job'.tCurrent
  <2>1. CASE pullWorker' = "end"
    BY <1>1, <2>1 DEF Pull!NoJob
  <2>2. CASE pullWorker' = "outer"
    <3>1. job' = [tStart |-> Pull!AlignDown(m_tStart), tCurrent |-> Pull!AlignDown(m_tStart),
                  tStop |-> stop, tAlignStop |-> Pull!AlignUp(stop)]
      BY <1>1, <2>2 DEF stop
    <3> QED BY <1>3, <1>4, <2>2, <3>1
  <2> QED BY <1>1, <2>1, <2>2
<1>6. delivered' = << >> /\ ~ended'
  BY <1>1 DEF DataInv, DeliveredInv
<1>7. DOMAIN delivered' = {}
  BY <1>6
<1>8. DataTyped'
  BY <1>1, <1>5 DEF DataInv, DataTyped
<1>9. DeliveredInv'
  BY <1>1, <1>6, <1>7 DEF DeliveredInv
<1>10. \A b \in Buffers : ~InFlight(b)'
  BY <1>1, NothingComing DEF InFlight
<1>11. \A b \in Buffers : \A x : ~Coming(x, b)'
  BY <1>10 DEF Coming
<1>12. \A x \in Int : ~(Within(x)' /\ x < job'.tCurrent)
  BY <1>5 DEF Within
<1>13. job'.tStart <= job'.tCurrent
  BY <1>5
<1>14. LoopInv'
  BY <1>1, <1>5, <1>7, <1>11, <1>12, <1>13 DEF LoopInv
<1> QED BY <1>8, <1>9, <1>14 DEF DataInv

LEMMA EndData ==
    ASSUME WorkerInv, DataInv, Pull!EndOfStream
    PROVE  DataInv'
<1>1. UNCHANGED << range, job, delivered, place >> /\ pullWorker = "end" /\ pullWorker' = "flush" /\ ended'
  BY DEF Pull!EndOfStream, Pull!Go, Pull!bufVars
<1>2. pullWorker \in Lossless
  BY <1>1 DEF Lossless
<1>3. \A b \in Buffers : \A x : ~Coming(x, b)
  BY <1>1, NothingComing DEF Coming
<1>4. job.tStop <= job.tCurrent /\ job.tStop \in Int /\ job.tCurrent \in Int
  BY <1>1, <1>2 DEF DataInv, DataTyped, LoopInv
<1>5. \A x \in Int : Within(x) => \E i \in DOMAIN delivered : Got(x, i)
  <2> SUFFICES ASSUME NEW x \in Int, Within(x) PROVE \E i \in DOMAIN delivered : Got(x, i)
    OBVIOUS
  <2>1. x < job.tCurrent
    BY <1>4 DEF Within
  <2> QED BY <1>2, <1>3, <2>1 DEF DataInv, LoopInv
<1>6. (\A x, i : Got(x, i)' <=> Got(x, i)) /\ (\A x : Within(x)' <=> Within(x))
  BY <1>1 DEF Got, Within
<1>7. DeliveredInv'
  BY <1>1, <1>5, <1>6 DEF DataInv, DeliveredInv
<1>8. LoopInv'
  BY <1>1 DEF LoopInv, Lossless
<1>9. DataTyped'
  BY <1>1 DEF DataInv, DataTyped
<1> QED BY <1>7, <1>8, <1>9 DEF DataInv

\* The next range begins where the last one ended.
LEMMA TakeData ==
    ASSUME WorkerInv, DataInv, Pull!GetBuffer
    PROVE  DataInv'
<1> DEFINE stop == Pull!Least(job.tCurrent + BufferSize, job.tAlignStop)
<1>1. PICK b \in Buffers :
         /\ place[b] = "free" /\ place' = [place EXCEPT ![b] = "worker"]
         /\ range' = [range EXCEPT ![b] = << job.tCurrent, stop >>]
         /\ job' = [job EXCEPT !.tCurrent = stop]
  BY DEF Pull!GetBuffer, Pull!TakeBuffer
<1>2. /\ UNCHANGED << delivered, ended >> /\ pullWorker \in {"first", "next", "read"}
      /\ pullWorker' \in {"request1", "request2", "syncread"}
  BY DEF Pull!GetBuffer, Pull!TakeBuffer, Pull!Go, Pull!outVars
<1>3. pullWorker \in Lossless /\ pullWorker' \in Lossless
  BY <1>2 DEF Lossless
<1>4. BufferSize \in Nat \ {0}
  BY StreamingAssumption DEF Pull!PullPinAssumption
<1>5. /\ job \in [tStart : Int, tStop : Int, tAlignStop : Int, tCurrent : Int]
      /\ range \in [Buffers -> Int \X Int] /\ delivered \in Seq(Int \X Int)
  BY DEF DataInv, DataTyped
<1>6. job.tStart <= job.tCurrent /\ job.tStop <= job.tAlignStop /\ job.tCurrent < job.tAlignStop
  BY <1>2, <1>3 DEF DataInv, LoopInv
<1>7. job.tStart \in Int /\ job.tStop \in Int /\ job.tAlignStop \in Int /\ job.tCurrent \in Int
  BY <1>5
<1>8. stop \in Int /\ job.tCurrent < stop
  BY <1>4, <1>6, <1>7 DEF Pull!Least
<1> HIDE DEF stop
<1>9. /\ job' \in [tStart : Int, tStop : Int, tAlignStop : Int, tCurrent : Int]
      /\ job'.tStart = job.tStart /\ job'.tStop = job.tStop /\ job'.tAlignStop = job.tAlignStop /\ job'.tCurrent = stop
  BY <1>1, <1>5, <1>8
<1>10. /\ \A c \in Buffers : c # b => range'[c] = range[c]
       /\ range'[b][1] = job.tCurrent /\ range'[b][2] = stop
       /\ range' \in [Buffers -> Int \X Int]
  BY <1>1, <1>5, <1>7, <1>8
<1>11. \A c \in Buffers : place'[c] = IF c = b THEN "worker" ELSE place[c]
  BY <1>1, OneSample
<1>12. DataTyped'
  BY <1>2, <1>5, <1>9, <1>10 DEF DataTyped
<1>13. (\A x, i : Got(x, i)' <=> Got(x, i)) /\ (\A x : Within(x)' <=> Within(x))
  BY <1>2, <1>9 DEF Got, Within
<1>14. DeliveredInv'
  BY <1>2, <1>13 DEF DataInv, DeliveredInv
<1>15. \A x : Coming(x, b)' <=> job.tCurrent <= x /\ x < stop /\ x < job.tStop
  BY <1>9, <1>10, <1>11 DEF Coming, InFlight
<1>16. \A x : \A c \in Buffers : c # b => (Coming(x, c)' <=> Coming(x, c))
  BY <1>9, <1>10, <1>11 DEF Coming, InFlight
<1>17. \A x : ~Coming(x, b)
  BY <1>1 DEF Coming, InFlight
<1>18. /\ \A c \in Buffers : \A x \in Int : Coming(x, c) => Within(x) /\ x < job.tCurrent
       /\ \A i \in DOMAIN delivered : \A x \in Int : Got(x, i) => x < job.tCurrent
       /\ \A c, d \in Buffers : \A x \in Int : Coming(x, c) /\ Coming(x, d) => c = d
       /\ \A c \in Buffers, i \in DOMAIN delivered : \A x \in Int : ~(Coming(x, c) /\ Got(x, i))
       /\ \A x \in Int : Within(x) /\ x < job.tCurrent
                           => (\E i \in DOMAIN delivered : Got(x, i)) \/ (\E c \in Buffers : Coming(x, c))
  BY <1>3 DEF DataInv, LoopInv
<1>19. \A c \in Buffers : \A x \in Int : Coming(x, c)' => Within(x)' /\ x < stop
  <2> SUFFICES ASSUME NEW c \in Buffers, NEW x \in Int, Coming(x, c)' PROVE Within(x) /\ x < stop
    BY <1>13
  <2>1. CASE c = b
    BY <1>6, <1>7, <1>8, <1>15, <2>1 DEF Within
  <2>2. CASE c # b
    BY <1>7, <1>8, <1>16, <1>18, <2>2
  <2> QED BY <2>1, <2>2
<1>20. \A i \in DOMAIN delivered' : \A x \in Int : Got(x, i)' => x < stop
  BY <1>2, <1>7, <1>8, <1>13, <1>18
<1>21. \A c, d \in Buffers : \A x \in Int : Coming(x, c)' /\ Coming(x, d)' => c = d
  <2> SUFFICES ASSUME NEW c \in Buffers, NEW d \in Buffers, NEW x \in Int, Coming(x, c)', Coming(x, d)', c # d PROVE FALSE
    OBVIOUS
  <2>1. ASSUME NEW e \in Buffers, e # b, Coming(x, e)', Coming(x, b)' PROVE FALSE
    <3>1. x < job.tCurrent /\ job.tCurrent <= x
      BY <1>15, <1>16, <1>18, <2>1
    <3> QED BY <1>7, <3>1
  <2>2. CASE c # b /\ d # b
    BY <1>16, <1>18, <2>2
  <2> QED BY <2>1, <2>2
<1>22. \A c \in Buffers, i \in DOMAIN delivered' : \A x \in Int : ~(Coming(x, c)' /\ Got(x, i)')
  <2> SUFFICES ASSUME NEW c \in Buffers, NEW i \in DOMAIN delivered, NEW x \in Int, Coming(x, c)', Got(x, i) PROVE FALSE
    BY <1>2, <1>13
  <2>1. CASE c = b
    <3>1. x < job.tCurrent /\ job.tCurrent <= x
      BY <1>15, <1>18, <2>1
    <3> QED BY <1>7, <3>1
  <2>2. CASE c # b
    BY <1>16, <1>18, <2>2
  <2> QED BY <2>1, <2>2
<1>23. \A x \in Int : Within(x)' /\ x < stop
                        => (\E i \in DOMAIN delivered' : Got(x, i)') \/ (\E c \in Buffers : Coming(x, c)')
  <2> SUFFICES ASSUME NEW x \in Int, Within(x), x < stop
               PROVE  (\E i \in DOMAIN delivered : Got(x, i)) \/ (\E c \in Buffers : Coming(x, c)')
    BY <1>2, <1>13
  <2>1. CASE x < job.tCurrent
    <3>1. (\E i \in DOMAIN delivered : Got(x, i)) \/ (\E c \in Buffers : c # b /\ Coming(x, c))
      BY <1>17, <1>18, <2>1
    <3> QED BY <1>16, <3>1
  <2>2. CASE ~(x < job.tCurrent)
    <3>1. job.tCurrent <= x /\ x < job.tStop
      BY <1>7, <2>2 DEF Within
    <3>2. Coming(x, b)'
      BY <1>15, <3>1
    <3> QED BY <3>2
  <2> QED BY <2>1, <2>2
<1>24. job'.tStart <= job'.tCurrent /\ job'.tStop <= job'.tAlignStop
  BY <1>6, <1>7, <1>8, <1>9
<1>25. LoopInv'
  BY <1>2, <1>9, <1>19, <1>20, <1>21, <1>22, <1>23, <1>24 DEF LoopInv
<1> QED BY <1>12, <1>14, <1>25 DEF DataInv

\* The range of the sample that is passed on is what was coming.
LEMMA DeliverData ==
    ASSUME WorkerInv, DataInv, Pull!Deliver
    PROVE  DataInv'
<1> DEFINE first(b) == range[b][1] - job.tStart
           next(b)  == Pull!Least(range[b][2], job.tStop) - job.tStart
<1>1. PICK b \in Buffers, p \in {"free", "down"} :
         /\ place[b] = "worker" /\ place' = [place EXCEPT ![b] = p]
         /\ delivered' = Append(delivered, << first(b), next(b) >>)
  BY DEF Pull!Deliver, Pull!DeliverSample, Pull!Held
<1>2. UNCHANGED << range, job, ended >>
  BY DEF Pull!Deliver, Pull!DeliverSample
<1>3. pullWorker \in {"deliver", "deliverlast", "deliversync"}
  BY DEF Pull!Deliver, Pull!DeliverSample
<1>4. pullWorker' \in {"inner", "outer", "flush", "cleanup"}
  <2>1. CASE Pull!DeliverSample("deliver", "inner", "flush", "cleanup")
    <3>1. pullWorker' \in {"inner", "flush", "cleanup"}
      BY <2>1 DEF Pull!DeliverSample
    <3> QED BY <3>1
  <2>2. CASE Pull!DeliverSample("deliverlast", "outer", "outer", "cleanup")
    <3>1. pullWorker' \in {"outer", "outer", "cleanup"}
      BY <2>2 DEF Pull!DeliverSample
    <3> QED BY <3>1
  <2>3. CASE Pull!DeliverSample("deliversync", "outer", "flush", "flush")
    <3>1. pullWorker' \in {"outer", "flush", "flush"}
      BY <2>3 DEF Pull!DeliverSample
    <3> QED BY <3>1
  <2> QED BY <2>1, <2>2, <2>3 DEF Pull!Deliver
<1>5. pullWorker \in Lossless
  BY <1>3 DEF Lossless
<1>6. /\ job \in [tStart : Int, tStop : Int, tAlignStop : Int, tCurrent : Int]
      /\ range \in [Buffers -> Int \X Int] /\ delivered \in Seq(Int \X Int)
  BY DEF DataInv, DataTyped
<1>7. job.tStart \in Int /\ job.tStop \in Int /\ range[b][1] \in Int /\ range[b][2] \in Int
  BY <1>6
<1>8. first(b) \in Int /\ next(b) \in Int
  BY <1>7 DEF Pull!Least
<1>9. \A x \in Int : first(b) + job.tStart <= x /\ x < next(b) + job.tStart <=> Coming(x, b)
  BY <1>1, <1>7 DEF Coming, InFlight, Pull!Least
<1> HIDE DEF first, next
<1>32. PICK n \in Nat : n = Len(delivered) + 1
  BY <1>6
<1>10. << first(b), next(b) >> \in Int \X Int
  BY <1>8
<1>11. /\ delivered' \in Seq(Int \X Int) /\ DOMAIN delivered = 1..Len(delivered) /\ DOMAIN delivered' = 1..n
       /\ delivered'[n] = << first(b), next(b) >>
       /\ \A i \in DOMAIN delivered : delivered'[i] = delivered[i]
       /\ Len(delivered) \in Nat
  BY SMTT(40), <1>1, <1>6, <1>10, <1>32
<1>12. DOMAIN delivered' = DOMAIN delivered \cup {n} /\ n \notin DOMAIN delivered
  BY <1>11, <1>32
<1>13. \A x \in Int : Got(x, n)' <=> Coming(x, b)
  BY <1>2, <1>9, <1>11 DEF Got
<1>14. \A i \in DOMAIN delivered : \A x : Got(x, i)' <=> Got(x, i)
  BY <1>2, <1>11 DEF Got
<1>15. \A x : Within(x)' <=> Within(x)
  BY <1>2 DEF Within
<1>16. \A c \in Buffers : place'[c] = IF c = b THEN p ELSE place[c]
  <2>1. p \in {"free", "worker", "pending", "down"}
    OBVIOUS
  <2> QED BY ZenonT(60), <1>1, <2>1, OneSample
<1>17. \A x : ~Coming(x, b)'
  BY <1>16 DEF Coming, InFlight
<1>18. \A x : \A c \in Buffers : c # b => (Coming(x, c)' <=> Coming(x, c))
  BY <1>2, <1>16 DEF Coming, InFlight
<1>19. /\ job.tStart <= job.tCurrent /\ job.tStop <= job.tAlignStop
       /\ \A c \in Buffers : \A x \in Int : Coming(x, c) => Within(x) /\ x < job.tCurrent
       /\ \A i \in DOMAIN delivered : \A x \in Int : Got(x, i) => x < job.tCurrent
       /\ \A c, d \in Buffers : \A x \in Int : Coming(x, c) /\ Coming(x, d) => c = d
       /\ \A c \in Buffers, i \in DOMAIN delivered : \A x \in Int : ~(Coming(x, c) /\ Got(x, i))
       /\ \A x \in Int : Within(x) /\ x < job.tCurrent
                           => (\E i \in DOMAIN delivered : Got(x, i)) \/ (\E c \in Buffers : Coming(x, c))
  BY <1>5 DEF DataInv, LoopInv
<1>20. /\ \A i, j \in DOMAIN delivered : \A x \in Int : Got(x, i) /\ Got(x, j) => i = j
       /\ \A i \in DOMAIN delivered : \A x \in Int : Got(x, i) => Within(x)
       /\ ended => \A x \in Int : Within(x) => \E i \in DOMAIN delivered : Got(x, i)
  BY DEF DataInv, DeliveredInv
<1>21. \A i, j \in DOMAIN delivered' : \A x \in Int : Got(x, i)' /\ Got(x, j)' => i = j
  <2> SUFFICES ASSUME NEW i \in DOMAIN delivered', NEW j \in DOMAIN delivered', NEW x \in Int, Got(x, i)', Got(x, j)'
               PROVE  i = j
    OBVIOUS
  <2>1. CASE i # n /\ j # n
    BY <1>12, <1>14, <1>20, <2>1
  <2>2. CASE i = n /\ j # n
    BY <1>12, <1>13, <1>14, <1>19, <2>2
  <2>3. CASE i # n /\ j = n
    BY <1>12, <1>13, <1>14, <1>19, <2>3
  <2> QED BY <2>1, <2>2, <2>3
<1>22. \A i \in DOMAIN delivered' : \A x \in Int : Got(x, i)' => Within(x)' /\ x < job.tCurrent
  BY <1>12, <1>13, <1>14, <1>15, <1>19, <1>20
<1>23. ended' => \A x \in Int : Within(x)' => \E i \in DOMAIN delivered' : Got(x, i)'
  BY <1>2, <1>12, <1>14, <1>15, <1>20
<1>24. pullWorker' # "process" /\ pullWorker' \notin {"first", "next", "read", "end"}
  BY <1>4
<1>25. DeliveredInv'
  BY <1>21, <1>22, <1>23, <1>24 DEF DeliveredInv
<1>26. DataTyped'
  BY <1>2, <1>6, <1>11 DEF DataTyped
<1>27. \A c, d \in Buffers : \A x \in Int : Coming(x, c)' /\ Coming(x, d)' => c = d
  BY <1>17, <1>18, <1>19
<1>28. \A c \in Buffers, i \in DOMAIN delivered' : \A x \in Int : ~(Coming(x, c)' /\ Got(x, i)')
  BY <1>12, <1>13, <1>14, <1>17, <1>18, <1>19
<1>29. \A x \in Int : Within(x)' /\ x < job.tCurrent
                        => (\E i \in DOMAIN delivered' : Got(x, i)') \/ (\E c \in Buffers : Coming(x, c)')
  <2> SUFFICES ASSUME NEW x \in Int, Within(x), x < job.tCurrent
               PROVE  (\E i \in DOMAIN delivered' : Got(x, i)') \/ (\E c \in Buffers : Coming(x, c)')
    BY <1>15
  <2>1. CASE \E i \in DOMAIN delivered : Got(x, i)
    BY <1>12, <1>14, <2>1
  <2>2. CASE \E c \in Buffers : Coming(x, c)
    <3>1. PICK c \in Buffers : Coming(x, c)
      BY <2>2
    <3>2. CASE c = b
      <4>1. Got(x, n)' /\ n \in DOMAIN delivered'
        BY <1>12, <1>13, <3>1, <3>2
      <4> QED BY <4>1
    <3>3. CASE c # b
      BY <1>18, <3>1, <3>3
    <3> QED BY <3>2, <3>3
  <2> QED BY <1>19, <2>1, <2>2
<1>30. \A c \in Buffers : \A x \in Int : Coming(x, c)' => Within(x)' /\ x < job.tCurrent
  BY <1>15, <1>17, <1>18, <1>19
<1>31. LoopInv'
  BY <1>2, <1>19, <1>22, <1>24, <1>27, <1>28, <1>29, <1>30 DEF LoopInv
<1> QED BY <1>25, <1>26, <1>31 DEF DataInv

LEMMA DataKept ==
    ASSUME WorkerInv, DataInv, [Pull!Next]_pullVars
    PROVE  DataInv'
<1>1. CASE Pull!Worker
  BY <1>1, LoopData, StartData, ProcessData, EndData, TakeData, DeliverData DEF Pull!Worker
<1>2. CASE UNCHANGED pullVars
  <2>1. UNCHANGED << place, range, pullWorker, job, delivered, ended >>
    BY <1>2 DEF pullVars
  <2>2. DataTyped'
    BY <2>1 DEF DataInv, DataTyped
  <2>3. DeliveredInv'
    BY <2>1 DEF DataInv, DeliveredInv, Got, Within
  <2>4. LoopInv'
    BY <2>1 DEF DataInv, LoopInv, Got, Within, Coming, InFlight
  <2> QED BY <2>2, <2>3, <2>4 DEF DataInv
<1> QED BY <1>1, <1>2, ClientData, OutsideData, PullSteps

LEMMA EndMeansAllHolds == DataInv => Pull!EndMeansAll
<1> SUFFICES ASSUME DataInv PROVE Pull!EndMeansAll
  OBVIOUS
<1>1. /\ job \in [tStart : Int, tStop : Int, tAlignStop : Int, tCurrent : Int] /\ delivered \in Seq(Int \X Int)
  BY DEF DataInv, DataTyped
<1>2. job.tStart \in Int /\ job.tStop \in Int
  BY <1>1
<1>3. \A i \in DOMAIN delivered : delivered[i][1] \in Int /\ delivered[i][2] \in Int
  BY <1>1
<1>4. \A i \in DOMAIN delivered : \A x : x \in Pull!Positions(delivered[i]) <=> x \in Int /\ Got(x, i)
  BY <1>2, <1>3 DEF Pull!Positions, Got
<1>5. \A x : x \in job.tStart .. (job.tStop - 1) <=> x \in Int /\ Within(x)
  BY <1>2 DEF Within
<1>6. ASSUME NEW i \in DOMAIN delivered, NEW j \in DOMAIN delivered, i # j
      PROVE  Pull!Positions(delivered[i]) \cap Pull!Positions(delivered[j]) = {}
  <2> SUFFICES ASSUME NEW x, x \in Pull!Positions(delivered[i]), x \in Pull!Positions(delivered[j]) PROVE FALSE
    OBVIOUS
  <2>1. x \in Int /\ Got(x, i) /\ Got(x, j)
    BY <1>4
  <2> QED BY <1>6, <2>1 DEF DataInv, DeliveredInv
<1>7. ASSUME NEW i \in DOMAIN delivered
      PROVE  Pull!Positions(delivered[i]) \subseteq job.tStart .. (job.tStop - 1)
  <2> SUFFICES ASSUME NEW x, x \in Pull!Positions(delivered[i]) PROVE x \in job.tStart .. (job.tStop - 1)
    OBVIOUS
  <2>1. x \in Int /\ Got(x, i)
    BY <1>4
  <2>2. Within(x)
    BY <2>1 DEF DataInv, DeliveredInv
  <2> QED BY <1>5, <2>1, <2>2
<1>8. ASSUME ended
      PROVE  UNION { Pull!Positions(delivered[i]) : i \in DOMAIN delivered } = job.tStart .. (job.tStop - 1)
  <2>1. ASSUME NEW x, x \in job.tStart .. (job.tStop - 1)
        PROVE  x \in UNION { Pull!Positions(delivered[i]) : i \in DOMAIN delivered }
    <3>1. x \in Int /\ Within(x)
      BY <1>5, <2>1
    <3>2. PICK i \in DOMAIN delivered : Got(x, i)
      BY <1>8, <3>1 DEF DataInv, DeliveredInv
    <3>3. x \in Pull!Positions(delivered[i])
      BY <1>4, <3>1, <3>2
    <3> QED BY <3>3
  <2>2. ASSUME NEW x, x \in UNION { Pull!Positions(delivered[i]) : i \in DOMAIN delivered }
        PROVE  x \in job.tStart .. (job.tStop - 1)
    BY <1>7, <2>2
  <2> QED BY <2>1, <2>2
<1> QED BY <1>6, <1>7, <1>8 DEF Pull!EndMeansAll

LEMMA PullAlways == StreamingSpec => [](WorkerInv /\ DataInv)
<1>1. StreamingInit => WorkerInv /\ DataInv
  BY PullStarts, DataStarts DEF StreamingInit
<1>2. WorkerInv /\ DataInv /\ [StreamingNext]_streamingVars => (WorkerInv /\ DataInv)'
  <2>1. [StreamingNext]_streamingVars => [Pull!Next]_pullVars
    BY DEF StreamingNext, streamingVars
  <2> QED BY <2>1, WorkerKept, DataKept
<1> QED BY <1>1, <1>2, PTL DEF StreamingSpec

\* The pulling pin never waits for a command with a read outstanding, a flush
\* left over or a position delivered twice, out of range or missing at the end
\* of the stream; and a sample is sent or discarded as the cases of the stream
\* control say: for every allocator, alignment, file and order of completion.
THEOREM StreamsAsAsked == StreamingSpec => []StreamingSound
<1>1. WorkerInv /\ DataInv => Pull!PullSound /\ Pull!EndMeansAll
  BY PullSoundHolds, EndMeansAllHolds
<1>2. ControlInv => Control!TypeOK /\ Control!CasesAsCommented
  BY ControlTyped, CasesSound DEF ControlInv
<1>3. WorkerInv /\ DataInv /\ ControlInv => StreamingSound
  BY <1>1, <1>2 DEF StreamingSound
<1> QED BY <1>3, PullAlways, ControlAlways, PTL


-----------------------------------------------------------------------------
(* The forms of a call in progress. *)

Creating(f) == <<Do("wrap", f), Do("qi", f), Do("release", f)>>

Querying(f) == <<Do("qi", f), Do("release", f)>>

Only(op, o) == <<Do(op, o)>>

Calls ==
    {<<>>, Only("objects", NoObject)}
    \cup {Creating(f) : f \in Filters}
    \cup {Querying(f) : f \in Filters}
    \cup {Only("members", f) : f \in Filters}
    \cup {Only(op, o) : op \in {"release", "destroy"}, o \in Objects}

LEMMA DoSound ==
    ASSUME NEW a, NEW b, NEW o, NEW p
    PROVE  Do(a, o) = Do(b, p) <=> a = b /\ o = p
BY DEF Do

\* Where a form begins, and what remains of it.
LEMMA FormsSound ==
    ASSUME NEW f, NEW op, NEW o
    PROVE  /\ Creating(f) # <<>> /\ Head(Creating(f)) = Do("wrap", f) /\ Tail(Creating(f)) = Querying(f)
           /\ Querying(f) # <<>> /\ Head(Querying(f)) = Do("qi", f) /\ Tail(Querying(f)) = Only("release", f)
           /\ Only(op, o) # <<>> /\ Head(Only(op, o)) = Do(op, o) /\ Tail(Only(op, o)) = <<>>
<1> HIDE DEF Do
<1> QED BY DEF Creating, Querying, Only

\* What each form will still release.
LEMMA FormsGiveBack ==
    ASSUME NEW f, NEW op, NEW o, NEW x
    PROVE  /\ ~GivesBack(<<>>, x)
           /\ ~GivesBack(Creating(f), x)
           /\ GivesBack(Querying(f), x) <=> x = f
           /\ GivesBack(Only(op, o), x) <=> op = "release" /\ x = o
<1>1. ~GivesBack(<<>>, x)
  BY DEF GivesBack
<1>2. ~GivesBack(Creating(f), x)
  <2> SUFFICES ASSUME NEW i \in 1..3, Creating(f)[i] = Do("release", x)
               PROVE  \E j \in 1..i : Creating(f)[j] = Do("wrap", x)
    BY DEF GivesBack, Creating
  <2>1. i = 1 \/ i = 2 \/ i = 3
    OBVIOUS
  <2>2. Creating(f)[1] = Do("wrap", f) /\ Creating(f)[2] = Do("qi", f) /\ Creating(f)[3] = Do("release", f)
    BY DEF Creating
  <2>3. i = 3 /\ x = f
    BY <2>1, <2>2, DoSound
  <2> QED BY <2>2, <2>3
<1>3. GivesBack(Querying(f), x) <=> x = f
  <2>1. Querying(f)[1] = Do("qi", f) /\ Querying(f)[2] = Do("release", f) /\ DOMAIN Querying(f) = 1..2
    BY DEF Querying
  <2>2. ASSUME x = f PROVE GivesBack(Querying(f), x)
    <3>1. \A j \in 1..2 : Querying(f)[j] # Do("wrap", x)
      <4> SUFFICES ASSUME NEW j \in 1..2 PROVE Querying(f)[j] # Do("wrap", x)
        OBVIOUS
      <4>1. j = 1 \/ j = 2
        OBVIOUS
      <4> QED BY <2>1, <4>1, DoSound
    <3> QED BY <2>1, <2>2, <3>1 DEF GivesBack
  <2>3. ASSUME GivesBack(Querying(f), x) PROVE x = f
    <3>1. PICK i \in 1..2 : Querying(f)[i] = Do("release", x)
      BY <2>1, <2>3 DEF GivesBack
    <3>2. i = 1 \/ i = 2
      OBVIOUS
    <3> QED BY <2>1, <3>1, <3>2, DoSound
  <2> QED BY <2>2, <2>3
<1>4. GivesBack(Only(op, o), x) <=> op = "release" /\ x = o
  <2>1. Only(op, o)[1] = Do(op, o) /\ DOMAIN Only(op, o) = 1..1
    BY DEF Only
  <2>2. ASSUME op = "release", x = o PROVE GivesBack(Only(op, o), x)
    <3>1. \A j \in 1..1 : Only(op, o)[j] # Do("wrap", x)
      BY <2>1, <2>2, DoSound
    <3> QED BY <2>1, <2>2, <3>1 DEF GivesBack
  <2>3. ASSUME GivesBack(Only(op, o), x) PROVE op = "release" /\ x = o
    BY <2>1, <2>3, DoSound DEF GivesBack
  <2> QED BY <2>2, <2>3
<1> QED BY <1>1, <1>2, <1>3, <1>4

\* No two forms are the same.
LEMMA FormsDiffer ==
    ASSUME NEW f, NEW g, NEW o, NEW p, NEW a, NEW b
    PROVE  /\ Creating(f) # Querying(g) /\ Creating(f) # Only(a, o) /\ Querying(f) # Only(a, o)
           /\ Creating(f) = Creating(g) => f = g
           /\ Querying(f) = Querying(g) => f = g
           /\ Only(a, o) = Only(b, p) => a = b /\ o = p
<1> HIDE DEF Do
<1>1. Creating(f) # Querying(g) /\ Creating(f) # Only(a, o) /\ Querying(f) # Only(a, o)
  BY DEF Creating, Querying, Only
<1>2. Creating(f) = Creating(g) => f = g
  BY FormsSound, DoSound
<1>3. Querying(f) = Querying(g) => f = g
  <2>1. Head(Querying(f)) = Do("qi", f) /\ Head(Querying(g)) = Do("qi", g)
    BY FormsSound
  <2> QED BY <2>1, DoSound
<1>4. Only(a, o) = Only(b, p) => a = b /\ o = p
  BY FormsSound, DoSound
<1> QED BY <1>1, <1>2, <1>3, <1>4

\* The first step of a call tells its form.
LEMMA FormByHead ==
    ASSUME NEW s \in Calls, s # <<>>, NEW op, NEW o, Head(s) = Do(op, o)
    PROVE  /\ op = "wrap" => s = Creating(o) /\ o \in Filters
           /\ op = "qi" => s = Querying(o) /\ o \in Filters
           /\ op \in {"release", "destroy", "members", "objects"} => s = Only(op, o)
<1> HIDE DEF Do
<1>1. CASE \E f \in Filters : s = Creating(f)
  BY <1>1, FormsSound, DoSound
<1>2. CASE \E f \in Filters : s = Querying(f)
  <2>1. PICK f \in Filters : s = Querying(f)
    BY <1>2
  <2>2. Head(s) = Do("qi", f)
    BY <2>1, FormsSound
  <2>3. op = "qi" /\ o = f
    BY <2>2, DoSound
  <2> QED BY <2>1, <2>3
<1>3. CASE \E a, p : a \in {"release", "destroy", "members", "objects"} /\ s = Only(a, p)
  BY <1>3, FormsSound, DoSound
<1> QED BY <1>1, <1>2, <1>3 DEF Calls

-----------------------------------------------------------------------------
(* Counting pointers. *)

Bit(b) == IF b THEN 1 ELSE 0

LEMMA OneMore ==
    ASSUME NEW S, IsFiniteSet(S), NEW x, x \notin S
    PROVE  Cardinality(S \cup {x}) = Cardinality(S) + 1
BY FS_AddElement

LEMMA OneLess ==
    ASSUME NEW S, IsFiniteSet(S), NEW x \in S
    PROVE  Cardinality(S \ {x}) = Cardinality(S) - 1
BY FS_RemoveElement

\* The pointers to an object are finitely many, before a step and after it.
LEMMA FiniteParts ==
    ASSUME NEW o
    PROVE  /\ IsFiniteSet(Pointers(o)) /\ IsFiniteSet(Pointers(o)')
           /\ IsFiniteSet(Enumerating(o)) /\ IsFiniteSet(Enumerating(o)')
           /\ IsFiniteSet(Timed(o)) /\ IsFiniteSet(Timed(o)')
           /\ IsFiniteSet(Givers(o)) /\ IsFiniteSet(Givers(o)')
<1>1. IsFiniteSet(Threads) /\ IsFiniteSet(Objects) /\ Enums \subseteq Objects /\ Filters \subseteq Objects
  BY LifetimeAssumption DEF Objects, Counted
<1>2. IsFiniteSet(Enums) /\ IsFiniteSet(Filters)
  BY <1>1, FS_Subset
<1>3. IsFiniteSet(1..MaxHeld + 1)
  BY LifetimeAssumption, FS_Interval
<1>4. IsFiniteSet(Threads \X (1..MaxHeld + 1))
  BY <1>1, <1>3, FS_Product
<1>5. Pointers(o) \subseteq Threads \X (1..MaxHeld + 1) /\ Pointers(o)' \subseteq Threads \X (1..MaxHeld + 1)
  BY DEF Pointers
<1>6. Enumerating(o) \subseteq Enums /\ Enumerating(o)' \subseteq Enums
  BY DEF Enumerating
<1>7. Timed(o) \subseteq Filters /\ Timed(o)' \subseteq Filters
  BY DEF Timed
<1>8. Givers(o) \subseteq Threads /\ Givers(o)' \subseteq Threads
  BY DEF Givers
<1>9. IsFiniteSet(Pointers(o)) /\ IsFiniteSet(Pointers(o)')
  BY <1>4, <1>5, FS_Subset
<1>10. IsFiniteSet(Enumerating(o)) /\ IsFiniteSet(Enumerating(o)')
  BY <1>2, <1>6, FS_Subset
<1>11. IsFiniteSet(Timed(o)) /\ IsFiniteSet(Timed(o)')
  BY <1>2, <1>7, FS_Subset
<1>12. IsFiniteSet(Givers(o)) /\ IsFiniteSet(Givers(o)')
  BY <1>1, <1>8, FS_Subset
<1> QED BY <1>9, <1>10, <1>11, <1>12

\* So they can be counted, and a count of zero says that there are none.
LEMMA ReferencesTyped ==
    ASSUME NEW o
    PROVE  /\ ThreadRefs(o) \in Nat /\ Cardinality(Enumerating(o)) \in Nat /\ Cardinality(Timed(o)) \in Nat
           /\ CallRefs(o) \in Nat
           /\ References(o) = ThreadRefs(o) + Cardinality(Enumerating(o)) + Cardinality(Timed(o)) + CallRefs(o)
           /\ References(o) \in Nat
           /\ References(o) = 0 <=> /\ Pointers(o) = {} /\ Enumerating(o) = {}
                                    /\ Timed(o) = {} /\ Givers(o) = {}
<1>1. /\ Cardinality(Pointers(o)) \in Nat /\ Cardinality(Enumerating(o)) \in Nat
      /\ Cardinality(Timed(o)) \in Nat /\ Cardinality(Givers(o)) \in Nat
  BY FiniteParts, FS_CardinalityType
<1>2. /\ Cardinality(Pointers(o)) = 0 <=> Pointers(o) = {}
      /\ Cardinality(Enumerating(o)) = 0 <=> Enumerating(o) = {}
      /\ Cardinality(Timed(o)) = 0 <=> Timed(o) = {}
      /\ Cardinality(Givers(o)) = 0 <=> Givers(o) = {}
  BY FiniteParts, FS_EmptySet
<1> DEFINE a == Cardinality(Pointers(o))
           b == Cardinality(Enumerating(o))
           c == Cardinality(Timed(o))
           d == Cardinality(Givers(o))
<1>3. References(o) = a + (b + c) + d /\ ThreadRefs(o) = a /\ CallRefs(o) = d
  BY DEF References, ThreadRefs, ObjectRefs, CallRefs
<1>4. a \in Nat /\ b \in Nat /\ c \in Nat /\ d \in Nat
  BY <1>1
<1> HIDE DEF a, b, c, d
<1>5. a + (b + c) + d = a + b + c + d /\ a + b + c + d \in Nat
      /\ (a + b + c + d = 0 <=> a = 0 /\ b = 0 /\ c = 0 /\ d = 0)
  BY <1>4
<1> QED BY <1>2, <1>3, <1>4, <1>5 DEF a, b, c, d

\* The same of the state after a step.
LEMMA ReferencesTypedNext ==
    ASSUME NEW o
    PROVE  /\ ThreadRefs(o)' \in Nat /\ Cardinality(Enumerating(o))' \in Nat /\ Cardinality(Timed(o))' \in Nat
           /\ CallRefs(o)' \in Nat
           /\ References(o)' = ThreadRefs(o)' + Cardinality(Enumerating(o))' + Cardinality(Timed(o))' + CallRefs(o)'
           /\ References(o)' \in Nat
           /\ References(o)' = 0 <=> /\ Pointers(o)' = {} /\ Enumerating(o)' = {}
                                     /\ Timed(o)' = {} /\ Givers(o)' = {}
<1>1. /\ Cardinality(Pointers(o)') \in Nat /\ Cardinality(Enumerating(o)') \in Nat
      /\ Cardinality(Timed(o)') \in Nat /\ Cardinality(Givers(o)') \in Nat
  BY FiniteParts, FS_CardinalityType
<1>2. /\ Cardinality(Pointers(o)') = 0 <=> Pointers(o)' = {}
      /\ Cardinality(Enumerating(o)') = 0 <=> Enumerating(o)' = {}
      /\ Cardinality(Timed(o)') = 0 <=> Timed(o)' = {}
      /\ Cardinality(Givers(o)') = 0 <=> Givers(o)' = {}
  BY FiniteParts, FS_EmptySet
<1> DEFINE a == Cardinality(Pointers(o)')
           b == Cardinality(Enumerating(o)')
           c == Cardinality(Timed(o)')
           d == Cardinality(Givers(o)')
<1>3. References(o)' = a + (b + c) + d /\ ThreadRefs(o)' = a /\ CallRefs(o)' = d
  BY DEF References, ThreadRefs, ObjectRefs, CallRefs
<1>4. a \in Nat /\ b \in Nat /\ c \in Nat /\ d \in Nat
  BY <1>1
<1> HIDE DEF a, b, c, d
<1>5. a + (b + c) + d = a + b + c + d /\ a + b + c + d \in Nat
      /\ (a + b + c + d = 0 <=> a = 0 /\ b = 0 /\ c = 0 /\ d = 0)
  BY <1>4
<1> QED BY <1>2, <1>3, <1>4, <1>5 DEF a, b, c, d

\* A thread gains a pointer, or gives one up.
LEMMA GainCounts ==
    ASSUME TypeOK, NEW t \in Threads, NEW o \in Objects, Gain(t, o), held[t][o] <= MaxHeld, NEW x \in Objects
    PROVE  ThreadRefs(x)' = ThreadRefs(x) + Bit(x = o)
<1>1. held \in [Threads -> [Objects -> 0..MaxHeld + 1]] /\ MaxHeld \in Nat
  BY LifetimeAssumption DEF TypeOK
<1>2. \A u \in Threads : held'[u][x] = IF u = t /\ x = o THEN held[t][o] + 1 ELSE held[u][x]
  BY <1>1 DEF Gain
<1>3. CASE x # o
  <2>1. Pointers(x)' = Pointers(x)
    BY <1>2, <1>3 DEF Pointers
  <2> QED BY <1>3, <2>1, ReferencesTyped DEF ThreadRefs, Bit
<1>4. CASE x = o
  <2> DEFINE p == <<t, held[t][o] + 1>>
  <2>1. held[t][o] \in Nat /\ held[t][o] + 1 \in 1..MaxHeld + 1
    BY <1>1
  <2>2. p \in Threads \X (1..MaxHeld + 1) /\ p \notin Pointers(o)
    BY <2>1 DEF Pointers
  <2>3. ASSUME NEW q \in Threads \X (1..MaxHeld + 1)
        PROVE  q[2] <= held'[q[1]][o] <=> q[2] <= held[q[1]][o] \/ q = p
    <3>1. PICK u \in Threads, n \in 1..MaxHeld + 1 : q = <<u, n>>
      BY <2>3
    <3>2. held[u][o] \in Nat
      BY <1>1
    <3>3. n <= held'[u][o] <=> n <= held[u][o] \/ (u = t /\ n = held[t][o] + 1)
      BY <1>2, <1>4, <2>1, <3>2
    <3> QED BY <3>1, <3>3
  <2>4. Pointers(o)' = Pointers(o) \cup {p}
    BY <2>2, <2>3 DEF Pointers
  <2>5. Cardinality(Pointers(o)') = Cardinality(Pointers(o)) + 1
    BY <2>2, <2>4, FiniteParts, OneMore
  <2> QED BY <1>4, <2>5 DEF ThreadRefs, Bit
<1> QED BY <1>3, <1>4

LEMMA DropCounts ==
    ASSUME TypeOK, NEW t \in Threads, NEW o \in Objects, Holds(t, o), held' = [held EXCEPT ![t][o] = @ - 1],
           NEW x \in Objects
    PROVE  ThreadRefs(x)' = ThreadRefs(x) - Bit(x = o)
<1>1. held \in [Threads -> [Objects -> 0..MaxHeld + 1]] /\ MaxHeld \in Nat
  BY LifetimeAssumption DEF TypeOK
<1>2. \A u \in Threads : held'[u][x] = IF u = t /\ x = o THEN held[t][o] - 1 ELSE held[u][x]
  BY <1>1
<1>3. CASE x # o
  <2>1. Pointers(x)' = Pointers(x)
    BY <1>2, <1>3 DEF Pointers
  <2> QED BY <1>3, <2>1, ReferencesTyped DEF ThreadRefs, Bit
<1>4. CASE x = o
  <2> DEFINE p == <<t, held[t][o]>>
  <2>1. held[t][o] \in 1..MaxHeld + 1
    BY <1>1 DEF Holds
  <2>2. p \in Pointers(o)
    BY <2>1 DEF Pointers
  <2>3. ASSUME NEW q \in Threads \X (1..MaxHeld + 1)
        PROVE  q[2] <= held'[q[1]][o] <=> q[2] <= held[q[1]][o] /\ q # p
    <3>1. PICK u \in Threads, n \in 1..MaxHeld + 1 : q = <<u, n>>
      BY <2>3
    <3>2. held[u][o] \in Nat
      BY <1>1
    <3>3. n <= held'[u][o] <=> n <= held[u][o] /\ ~(u = t /\ n = held[t][o])
      BY <1>2, <1>4, <2>1, <3>2
    <3> QED BY <3>1, <3>3
  <2>4. Pointers(o)' = Pointers(o) \ {p}
    BY <2>2, <2>3 DEF Pointers
  <2>5. Cardinality(Pointers(o)') = Cardinality(Pointers(o)) - 1
    BY <2>2, <2>4, FiniteParts, OneLess
  <2> QED BY <1>4, <2>5 DEF ThreadRefs, Bit
<1> QED BY <1>3, <1>4

LEMMA HeldSame ==
    ASSUME UNCHANGED held, NEW x
    PROVE  ThreadRefs(x)' = ThreadRefs(x)
BY DEF ThreadRefs, Pointers

\* The call of a thread goes on to another form.
LEMMA GiversMove ==
    ASSUME TypeOK, NEW t \in Threads, NEW s, todo' = [todo EXCEPT ![t] = s], NEW x \in Objects
    PROVE  CallRefs(x)' = CallRefs(x) + Bit(GivesBack(s, x)) - Bit(GivesBack(todo[t], x))
<1>1. \A u \in Threads : todo'[u] = IF u = t THEN s ELSE todo[u]
  BY DEF TypeOK
<1>2. CallRefs(x) \in Nat
  BY ReferencesTyped
<1>3. CASE GivesBack(s, x) <=> GivesBack(todo[t], x)
  <2>1. Givers(x)' = Givers(x)
    BY <1>1, <1>3 DEF Givers
  <2> QED BY <1>2, <1>3, <2>1 DEF CallRefs, Bit
<1>4. CASE GivesBack(s, x) /\ ~GivesBack(todo[t], x)
  <2>1. Givers(x)' = Givers(x) \cup {t} /\ t \notin Givers(x)
    BY <1>1, <1>4 DEF Givers
  <2> QED BY <1>2, <1>4, <2>1, FiniteParts, OneMore DEF CallRefs, Bit
<1>5. CASE ~GivesBack(s, x) /\ GivesBack(todo[t], x)
  <2>1. Givers(x)' = Givers(x) \ {t} /\ t \in Givers(x)
    BY <1>1, <1>5 DEF Givers
  <2> QED BY <1>2, <1>5, <2>1, FiniteParts, OneLess DEF CallRefs, Bit
<1> QED BY <1>3, <1>4, <1>5

LEMMA GiversSame ==
    ASSUME UNCHANGED todo, NEW x
    PROVE  CallRefs(x)' = CallRefs(x)
BY DEF CallRefs, Givers

-----------------------------------------------------------------------------
(* The invariant. *)

\* The destructor of an object is running, or about to.
Ends(s, o) == s = Only("destroy", o) \/ s = Only("members", o)

Ending(o) == \E t \in Threads : Ends(todo[t], o)

Alive(o) == life[o] = "live" /\ ~Ending(o)

\* One destructor runs once, on an object that is there.
CallsSound ==
    /\ \A t \in Threads : todo[t] \in Calls
    /\ \A o \in Objects : \A t, u \in Threads : Ends(todo[t], o) /\ Ends(todo[u], o) => t = u
    /\ \A o \in Objects : Ending(o) => life[o] = "live"

\* Nobody knows a filter before its creator has counted the first reference.
FreshUnknown ==
    \A t \in Threads, f \in Filters :
       /\ todo[t] = Creating(f) => /\ Alive(f) /\ References(f) = 0
                                   /\ \A u \in Threads : todo[u] = Creating(f) => u = t
       /\ todo[t] = Creating(f) \/ todo[t] = Querying(f) => held[t][f] = 0

Balanced ==
    \A o \in Objects : IF Alive(o) THEN ref[o] = References(o) ELSE References(o) = 0

HoldersSound ==
    /\ \A e \in Enums : life[e] = "live" => target[e] \in Filters
    /\ \A f \in Filters : life[f] # "live" => clockOf[f] = NoObject
    /\ \A f \in Filters : runner[f] # NoObject => runner[f] \in Threads /\ Holds(runner[f], f)

RefInv == TypeOK /\ CallsSound /\ FreshUnknown /\ Balanced /\ HoldersSound

-----------------------------------------------------------------------------
(* Reading a step. *)

LEMMA SlotsDiffer ==
    /\ Factories \subseteq Objects /\ Filters \subseteq Objects /\ Enums \subseteq Objects /\ Clocks \subseteq Objects
    /\ \A f \in Filters : f \notin Factories /\ f \notin Enums /\ f \notin Clocks
    /\ \A e \in Enums : e \notin Factories /\ e \notin Filters /\ e \notin Clocks
    /\ \A c \in Factories : c \notin Enums /\ c \notin Filters /\ c \notin Clocks
    /\ \A k \in Clocks : k \notin Factories /\ k \notin Filters /\ k \notin Enums
    /\ \A o \in Objects : o # NoObject
BY LifetimeAssumption DEF Objects, Counted

\* What a thread is doing tells the form of its call.
LEMMA DoingForm ==
    ASSUME CallsSound, NEW t \in Threads, NEW o
    PROVE  /\ Doing(t, "wrap", o) => todo[t] = Creating(o) /\ o \in Filters
           /\ Doing(t, "qi", o) => todo[t] = Querying(o) /\ o \in Filters
           /\ \A op \in {"release", "destroy", "members", "objects"} : Doing(t, op, o) => todo[t] = Only(op, o)
BY FormByHead DEF CallsSound, Doing

LEMMA DestroyingIsEnding ==
    ASSUME CallsSound, NEW o
    PROVE  BeingDestroyed(o) <=> Ending(o)
<1>1. ASSUME NEW t \in Threads
      PROVE  Doing(t, "destroy", o) \/ Doing(t, "members", o) <=> Ends(todo[t], o)
  <2>1. Ends(todo[t], o) => Doing(t, "destroy", o) \/ Doing(t, "members", o)
    BY FormsSound DEF Ends, Doing
  <2> QED BY <2>1, DoingForm DEF Ends
<1> QED BY <1>1 DEF BeingDestroyed, Ending

\* What the rest of a call becomes.
LEMMA ThenForm ==
    ASSUME TypeOK, CallsSound, NEW t \in Threads
    PROVE  /\ \A f : todo[t] = Creating(f) /\ Then(t, <<>>) => todo' = [todo EXCEPT ![t] = Querying(f)]
           /\ \A f : todo[t] = Querying(f) /\ Then(t, <<>>) => todo' = [todo EXCEPT ![t] = Only("release", f)]
           /\ \A op, o : todo[t] = Only(op, o) /\ Then(t, <<>>) => todo' = [todo EXCEPT ![t] = <<>>]
           /\ \A op, o, a, p : todo[t] = Only(op, o) /\ Then(t, <<Do(a, p)>>)
                              => todo' = [todo EXCEPT ![t] = Only(a, p)]
<1> HIDE DEF Do
<1>1. \A f : <<>> \o Querying(f) = Querying(f)
  BY DEF Querying
<1>2. \A f : <<>> \o Only("release", f) = Only("release", f)
  BY DEF Only
<1>3. \A a, p : <<Do(a, p)>> \o <<>> = Only(a, p)
  BY DEF Only
<1>4. <<>> \o <<>> = <<>>
  OBVIOUS
<1>5. \A f : Tail(Creating(f)) = Querying(f) /\ Tail(Querying(f)) = Only("release", f)
  BY FormsSound
<1>6. \A op, o : Tail(Only(op, o)) = <<>>
  BY FormsSound
<1>7. ASSUME NEW f, todo[t] = Creating(f), Then(t, <<>>)
      PROVE  todo' = [todo EXCEPT ![t] = Querying(f)]
  BY <1>1, <1>5, <1>7 DEF Then
<1>8. ASSUME NEW f, todo[t] = Querying(f), Then(t, <<>>)
      PROVE  todo' = [todo EXCEPT ![t] = Only("release", f)]
  BY <1>2, <1>5, <1>8 DEF Then
<1>9. ASSUME NEW op, NEW o, todo[t] = Only(op, o), Then(t, <<>>)
      PROVE  todo' = [todo EXCEPT ![t] = <<>>]
  BY <1>4, <1>6, <1>9 DEF Then
<1>10. ASSUME NEW op, NEW o, NEW a, NEW p, todo[t] = Only(op, o), Then(t, <<Do(a, p)>>)
       PROVE  todo' = [todo EXCEPT ![t] = Only(a, p)]
  BY <1>3, <1>6, <1>10 DEF Then
<1> QED BY <1>7, <1>8, <1>9, <1>10

\* How a step of one thread changes what is ending.
LEMMA EndingMove ==
    ASSUME TypeOK, CallsSound, NEW t \in Threads, NEW s, todo' = [todo EXCEPT ![t] = s], NEW x \in Objects
    PROVE  /\ Ends(s, x) => Ending(x)'
           /\ ~Ends(s, x) /\ Ends(todo[t], x) => ~Ending(x)'
           /\ ~Ends(s, x) /\ ~Ends(todo[t], x) => (Ending(x)' <=> Ending(x))
<1>1. \A u \in Threads : todo'[u] = IF u = t THEN s ELSE todo[u]
  BY DEF TypeOK
<1> QED BY <1>1 DEF Ending, CallsSound

\* Whatever is pointed to is alive.
LEMMA ReferredAlive ==
    ASSUME RefInv, NEW o \in Objects, References(o) # 0
    PROVE  Alive(o) /\ ref[o] = References(o)
BY DEF RefInv, Balanced

LEMMA HeldAlive ==
    ASSUME RefInv, NEW t \in Threads, NEW o \in Objects, Holds(t, o)
    PROVE  Alive(o) /\ ref[o] = References(o) /\ References(o) # 0
<1>1. held[t][o] \in 0..MaxHeld + 1 /\ MaxHeld \in Nat
  BY LifetimeAssumption DEF RefInv, TypeOK
<1>2. <<t, 1>> \in Pointers(o)
  BY <1>1 DEF Pointers, Holds
<1>3. References(o) # 0
  BY <1>2, ReferencesTyped
<1> QED BY <1>3, ReferredAlive

LEMMA EnumeratedAlive ==
    ASSUME RefInv, NEW e \in Enums, life[e] = "live"
    PROVE  target[e] \in Filters /\ Alive(target[e]) /\ References(target[e]) # 0
<1>1. target[e] \in Filters /\ target[e] \in Objects
  BY SlotsDiffer DEF RefInv, HoldersSound
<1>2. e \in Enumerating(target[e])
  BY DEF Enumerating
<1>3. References(target[e]) # 0
  BY <1>2, ReferencesTyped
<1> QED BY <1>1, <1>3, ReferredAlive

LEMMA TimedAlive ==
    ASSUME RefInv, NEW f \in Filters, clockOf[f] # NoObject
    PROVE  clockOf[f] \in Clocks /\ Alive(clockOf[f]) /\ References(clockOf[f]) # 0 /\ life[f] = "live"
<1>1. clockOf[f] \in Clocks /\ clockOf[f] \in Objects /\ life[f] = "live"
  BY SlotsDiffer DEF RefInv, HoldersSound, TypeOK
<1>2. f \in Timed(clockOf[f])
  BY <1>1 DEF Timed
<1>3. References(clockOf[f]) # 0
  BY <1>2, ReferencesTyped
<1> QED BY <1>1, <1>3, ReferredAlive

LEMMA GivenAlive ==
    ASSUME RefInv, NEW t \in Threads, NEW o \in Objects, GivesBack(todo[t], o)
    PROVE  Alive(o) /\ ref[o] = References(o) /\ References(o) # 0
<1>1. t \in Givers(o)
  BY DEF Givers
<1>2. References(o) # 0
  BY <1>1, ReferencesTyped
<1> QED BY <1>2, ReferredAlive

-----------------------------------------------------------------------------
(* Every step keeps the balance. *)

LEMMA EnumeratingSame ==
    ASSUME \A e \in Enums : life'[e] = life[e], UNCHANGED target, NEW x
    PROVE  Cardinality(Enumerating(x))' = Cardinality(Enumerating(x))
BY DEF Enumerating

LEMMA TimedSame ==
    ASSUME \A f \in Filters : life'[f] = life[f] \/ clockOf[f] = NoObject, UNCHANGED clockOf, NEW x \in Objects
    PROVE  Cardinality(Timed(x))' = Cardinality(Timed(x))
<1>1. Timed(x)' = Timed(x)
  BY SlotsDiffer DEF Timed
<1> QED BY <1>1

\* A thread takes a counted pointer to what is alive.
LEMMA TakeBalanced ==
    ASSUME RefInv, NEW u \in Threads, NEW o \in Objects, Alive(o), held[u][o] <= MaxHeld,
           ref' = [ref EXCEPT ![o] = @ + 1], Gain(u, o), UNCHANGED <<life, target, clockOf>>,
           \A x \in Objects : CallRefs(x)' = CallRefs(x) /\ (Ending(x)' <=> Ending(x))
    PROVE  Balanced'
<1> SUFFICES ASSUME NEW x \in Objects
             PROVE  IF Alive(x)' THEN ref'[x] = References(x)' ELSE References(x)' = 0
  BY DEF Balanced
<1>1. ThreadRefs(x)' = ThreadRefs(x) + Bit(x = o)
  BY GainCounts DEF RefInv
<1>2. Cardinality(Enumerating(x))' = Cardinality(Enumerating(x)) /\ Cardinality(Timed(x))' = Cardinality(Timed(x))
  BY EnumeratingSame, TimedSame
<1>3. References(x)' = References(x) + Bit(x = o)
  BY <1>1, <1>2, ReferencesTyped, ReferencesTypedNext DEF Bit
<1>4. Alive(x)' <=> Alive(x)
  BY DEF Alive
<1>5. ref[x] \in Nat /\ ref'[x] = ref[x] + Bit(x = o)
  BY DEF RefInv, TypeOK, Bit
<1>6. IF Alive(x) THEN ref[x] = References(x) ELSE References(x) = 0
  BY DEF RefInv, Balanced
<1> QED BY <1>3, <1>4, <1>5, <1>6, ReferencesTyped DEF Bit

\* Nothing that concerns references.
LEMMA RestBalanced ==
    ASSUME RefInv, UNCHANGED <<life, ref, target, clockOf, held>>,
           \A x \in Objects : CallRefs(x)' = CallRefs(x) /\ (Ending(x)' <=> Ending(x))
    PROVE  Balanced'
<1> SUFFICES ASSUME NEW x \in Objects
             PROVE  IF Alive(x)' THEN ref'[x] = References(x)' ELSE References(x)' = 0
  BY DEF Balanced
<1>1. ThreadRefs(x)' = ThreadRefs(x)
  BY HeldSame
<1>2. Cardinality(Enumerating(x))' = Cardinality(Enumerating(x)) /\ Cardinality(Timed(x))' = Cardinality(Timed(x))
  BY EnumeratingSame, TimedSame
<1>3. References(x)' = References(x)
  BY <1>1, <1>2, ReferencesTyped, ReferencesTypedNext
<1> QED BY <1>3 DEF Alive, RefInv, Balanced

LEMMA FactoryBalanced ==
    ASSUME RefInv, NEW t \in Threads, NEW c \in Factories, DllGetClassObject(t, c)
    PROVE  Balanced'
<1> SUFFICES ASSUME NEW x \in Objects
             PROVE  IF Alive(x)' THEN ref'[x] = References(x)' ELSE References(x)' = 0
  BY DEF Balanced
<1>1. life[c] = "none" /\ life' = [life EXCEPT ![c] = "live"] /\ ref' = [ref EXCEPT ![c] = 1] /\ Gain(t, c)
      /\ UNCHANGED <<target, clockOf, todo>> /\ c \in Objects
  BY SlotsDiffer DEF DllGetClassObject
<1>2. ~Alive(c) /\ References(c) = 0
  BY <1>1 DEF Alive, RefInv, Balanced
<1>3. held[t][c] <= MaxHeld
  BY <1>1, <1>2, HeldAlive, LifetimeAssumption DEF Holds, RefInv, TypeOK
<1>4. ThreadRefs(x)' = ThreadRefs(x) + Bit(x = c)
  BY <1>1, <1>3, GainCounts DEF RefInv
<1>5. Cardinality(Enumerating(x))' = Cardinality(Enumerating(x)) /\ Cardinality(Timed(x))' = Cardinality(Timed(x))
  BY <1>1, SlotsDiffer, EnumeratingSame, TimedSame DEF RefInv, TypeOK
<1>6. CallRefs(x)' = CallRefs(x)
  BY <1>1, GiversSame
<1>7. References(x)' = References(x) + Bit(x = c)
  BY <1>4, <1>5, <1>6, ReferencesTyped, ReferencesTypedNext DEF Bit
<1>8. ~Ending(c) /\ (Ending(x)' <=> Ending(x))
  BY <1>1 DEF RefInv, CallsSound, Ending
<1>9. CASE x = c
  <2>1. Alive(c)' /\ ref'[c] = 1
    BY <1>1, <1>8, <1>9 DEF Alive, RefInv, TypeOK
  <2> QED BY <1>2, <1>7, <1>9, <2>1 DEF Bit
<1>10. CASE x # c
  <2>1. References(x)' = References(x) /\ ref'[x] = ref[x] /\ (Alive(x)' <=> Alive(x))
    BY <1>1, <1>7, <1>8, <1>10, ReferencesTyped DEF Bit, RefInv, TypeOK, Alive
  <2> QED BY <2>1 DEF RefInv, Balanced
<1> QED BY <1>9, <1>10

\* The filter that is being created has no reference before Wrap.
LEMMA CreateBalanced ==
    ASSUME RefInv, NEW t \in Threads, NEW c \in Factories, NEW f \in Filters, CreateInstance(t, c, f)
    PROVE  Balanced' /\ Alive(f)' /\ References(f)' = 0
<1>1. life[f] = "none" /\ life' = [life EXCEPT ![f] = "live"] /\ ref' = [ref EXCEPT ![f] = 0]
      /\ todo[t] = <<>> /\ todo' = [todo EXCEPT ![t] = Creating(f)]
      /\ UNCHANGED <<target, clockOf, held>> /\ f \in Objects
  BY SlotsDiffer DEF CreateInstance, NewFilter, Idle, Creating
<1>2. ~Alive(f) /\ References(f) = 0
  BY <1>1 DEF Alive, RefInv, Balanced
<1>3. clockOf[f] = NoObject
  BY <1>1 DEF RefInv, HoldersSound
<1>4. ~Ending(f)
  BY <1>1 DEF RefInv, CallsSound
<1>5. ASSUME NEW x \in Objects
      PROVE  References(x)' = References(x) /\ (Ending(x)' <=> Ending(x))
  <2>1. ThreadRefs(x)' = ThreadRefs(x)
    BY <1>1, HeldSame
  <2>2. Cardinality(Enumerating(x))' = Cardinality(Enumerating(x))
    BY <1>1, SlotsDiffer, EnumeratingSame DEF RefInv, TypeOK
  <2>3. Cardinality(Timed(x))' = Cardinality(Timed(x))
    BY <1>1, <1>3, TimedSame DEF RefInv, TypeOK
  <2>4. CallRefs(x)' = CallRefs(x) + Bit(GivesBack(Creating(f), x)) - Bit(GivesBack(<<>>, x))
    BY <1>1, GiversMove DEF RefInv
  <2>5. CallRefs(x)' = CallRefs(x)
    BY <2>4, FormsGiveBack, ReferencesTyped DEF Bit
  <2>6. References(x)' = References(x)
    BY <2>1, <2>2, <2>3, <2>5, ReferencesTyped, ReferencesTypedNext
  <2>7. ~Ends(Creating(f), x) /\ ~Ends(<<>>, x)
    BY FormsDiffer, FormsSound DEF Ends
  <2> QED BY <1>1, <2>6, <2>7, EndingMove DEF RefInv
<1>6. Alive(f)' /\ References(f)' = 0 /\ ref'[f] = 0
  BY <1>1, <1>2, <1>4, <1>5 DEF Alive, RefInv, TypeOK
<1>7. ASSUME NEW x \in Objects, x # f
      PROVE  IF Alive(x)' THEN ref'[x] = References(x)' ELSE References(x)' = 0
  <2>1. ref'[x] = ref[x] /\ (Alive(x)' <=> Alive(x))
    BY <1>1, <1>5, <1>7 DEF Alive, RefInv, TypeOK
  <2> QED BY <1>5, <2>1 DEF RefInv, Balanced
<1> QED BY <1>6, <1>7 DEF Balanced

LEMMA WrapBalanced ==
    ASSUME RefInv, NEW t \in Threads, NEW f \in Filters, Wrap(t, f)
    PROVE  Balanced'
<1> SUFFICES ASSUME NEW x \in Objects
             PROVE  IF Alive(x)' THEN ref'[x] = References(x)' ELSE References(x)' = 0
  BY DEF Balanced
<1>1. todo[t] = Creating(f) /\ todo' = [todo EXCEPT ![t] = Querying(f)]
  BY DoingForm, ThenForm DEF Wrap, RefInv
<1>2. ref' = [ref EXCEPT ![f] = @ + 1] /\ UNCHANGED <<life, target, clockOf, held>> /\ f \in Objects
  BY SlotsDiffer DEF Wrap
<1>3. Alive(f) /\ References(f) = 0
  BY <1>1 DEF RefInv, FreshUnknown
<1>4. ThreadRefs(x)' = ThreadRefs(x)
  BY <1>2, HeldSame
<1>5. Cardinality(Enumerating(x))' = Cardinality(Enumerating(x)) /\ Cardinality(Timed(x))' = Cardinality(Timed(x))
  BY <1>2, EnumeratingSame, TimedSame
<1>6. CallRefs(x)' = CallRefs(x) + Bit(GivesBack(Querying(f), x)) - Bit(GivesBack(Creating(f), x))
  BY <1>1, GiversMove DEF RefInv
<1>7. CallRefs(x)' = CallRefs(x) + Bit(x = f)
  BY <1>6, FormsGiveBack, ReferencesTyped DEF Bit
<1>8. References(x)' = References(x) + Bit(x = f)
  BY <1>4, <1>5, <1>7, ReferencesTyped, ReferencesTypedNext DEF Bit
<1>9. ~Ends(Creating(f), x) /\ ~Ends(Querying(f), x)
  BY FormsDiffer DEF Ends
<1>10. Alive(x)' <=> Alive(x)
  BY <1>1, <1>2, <1>9, EndingMove DEF RefInv, Alive
<1>11. ref[x] \in Nat /\ ref'[x] = ref[x] + Bit(x = f)
  BY <1>2 DEF RefInv, TypeOK, Bit
<1> QED BY <1>3, <1>8, <1>10, <1>11, ReferencesTyped DEF RefInv, Balanced, Bit

\* The pointer of a thread becomes the pointer of its call.
LEMMA CallReleaseBalanced ==
    ASSUME RefInv, NEW t \in Threads, NEW o \in Objects, CallRelease(t, o)
    PROVE  Balanced'
<1> SUFFICES ASSUME NEW x \in Objects
             PROVE  IF Alive(x)' THEN ref'[x] = References(x)' ELSE References(x)' = 0
  BY DEF Balanced
<1>1. todo[t] = <<>> /\ todo' = [todo EXCEPT ![t] = Only("release", o)] /\ Holds(t, o)
      /\ held' = [held EXCEPT ![t][o] = @ - 1] /\ UNCHANGED <<life, ref, target, clockOf>>
  BY DEF CallRelease, Idle, Only, objectVars
<1>2. ThreadRefs(x)' = ThreadRefs(x) - Bit(x = o)
  BY <1>1, DropCounts DEF RefInv
<1>3. Cardinality(Enumerating(x))' = Cardinality(Enumerating(x)) /\ Cardinality(Timed(x))' = Cardinality(Timed(x))
  BY <1>1, EnumeratingSame, TimedSame
<1>4. CallRefs(x)' = CallRefs(x) + Bit(GivesBack(Only("release", o), x)) - Bit(GivesBack(<<>>, x))
  BY <1>1, GiversMove DEF RefInv
<1>5. CallRefs(x)' = CallRefs(x) + Bit(x = o)
  <2>1. ~GivesBack(<<>>, x) /\ (GivesBack(Only("release", o), x) <=> x = o)
    BY FormsGiveBack
  <2> QED BY <1>4, <2>1, ReferencesTyped DEF Bit
<1>6. References(x)' = References(x)
  BY <1>2, <1>3, <1>5, ReferencesTyped, ReferencesTypedNext DEF Bit
<1>7. ~Ends(<<>>, x) /\ ~Ends(Only("release", o), x)
  BY FormsSound, FormsDiffer DEF Ends
<1>8. Alive(x)' <=> Alive(x)
  BY <1>1, <1>7, EndingMove DEF RefInv, Alive
<1> QED BY <1>1, <1>6, <1>8 DEF RefInv, Balanced

\* The last reference begins the destructor, and no pointer is left.
LEMMA ReleaseBalanced ==
    ASSUME RefInv, NEW t \in Threads, NEW o \in Objects, Release(t, o)
    PROVE  Balanced'
<1> SUFFICES ASSUME NEW x \in Objects
             PROVE  IF Alive(x)' THEN ref'[x] = References(x)' ELSE References(x)' = 0
  BY DEF Balanced
<1> DEFINE s == IF ref[o] = 1 THEN Only("destroy", o) ELSE <<>>
<1>1. todo[t] = Only("release", o)
  BY DoingForm DEF Release, RefInv
<1>2. todo' = [todo EXCEPT ![t] = s]
  <2>1. CASE ref[o] = 1
    BY <1>1, <2>1, ThenForm DEF Release, RefInv
  <2>2. CASE ref[o] # 1
    BY <1>1, <2>2, ThenForm DEF Release, RefInv
  <2> QED BY <2>1, <2>2
<1>3. ref' = [ref EXCEPT ![o] = IF @ = 1 /\ o \in Filters THEN 1 ELSE @ - 1]
      /\ UNCHANGED <<life, target, clockOf, held>>
  BY DEF Release
<1>4. GivesBack(todo[t], o)
  BY <1>1, FormsGiveBack
<1>5. Alive(o) /\ ref[o] = References(o) /\ References(o) # 0
  BY <1>4, GivenAlive
<1>6. ThreadRefs(x)' = ThreadRefs(x)
  BY <1>3, HeldSame
<1>7. Cardinality(Enumerating(x))' = Cardinality(Enumerating(x)) /\ Cardinality(Timed(x))' = Cardinality(Timed(x))
  BY <1>3, EnumeratingSame, TimedSame
<1>8. CallRefs(x)' = CallRefs(x) + Bit(GivesBack(s, x)) - Bit(GivesBack(Only("release", o), x))
  BY <1>1, <1>2, GiversMove DEF RefInv
<1>9. ~GivesBack(s, x)
  BY FormsGiveBack
<1>10. References(x)' = References(x) - Bit(x = o)
  <2> HIDE DEF s
  <2>1. CallRefs(x)' = CallRefs(x) - Bit(x = o)
    <3>1. GivesBack(Only("release", o), x) <=> x = o
      BY FormsGiveBack
    <3> QED BY <1>8, <1>9, <3>1, ReferencesTyped DEF Bit
  <2> QED BY <1>6, <1>7, <2>1, ReferencesTyped, ReferencesTypedNext DEF Bit
<1>11. ~Ends(Only("release", o), x) /\ ~Ends(<<>>, x) /\ (Ends(Only("destroy", o), x) <=> x = o)
  BY FormsSound, FormsDiffer DEF Ends
<1>12. CASE x # o
  <2>1. ~Ends(s, x)
    BY <1>11, <1>12
  <2>2. Alive(x)' <=> Alive(x)
    BY <1>1, <1>2, <1>3, <1>11, <2>1, EndingMove DEF RefInv, Alive
  <2>3. ref'[x] = ref[x] /\ References(x)' = References(x)
    BY <1>3, <1>10, <1>12, ReferencesTyped DEF RefInv, TypeOK, Bit
  <2> QED BY <2>2, <2>3 DEF RefInv, Balanced
<1>13. CASE x = o /\ ref[o] = 1
  <2>1. Ends(s, x)
    BY <1>11, <1>13
  <2>2. Ending(x)'
    BY <1>2, <2>1, EndingMove DEF RefInv
  <2>3. References(x)' = 0
    BY <1>5, <1>10, <1>13 DEF Bit
  <2> QED BY <2>2, <2>3 DEF Alive
<1>14. CASE x = o /\ ref[o] # 1
  <2>1. ~Ends(s, x)
    BY <1>11, <1>14
  <2>2. Alive(x)'
    BY <1>1, <1>2, <1>3, <1>5, <1>11, <1>14, <2>1, EndingMove DEF RefInv, Alive
  <2>3. ref'[x] = ref[x] - 1
    BY <1>3, <1>14 DEF RefInv, TypeOK
  <2> QED BY <1>5, <1>10, <1>14, <2>2, <2>3 DEF Bit
<1> QED BY <1>12, <1>13, <1>14

\* What no pointer is left to, goes.
LEMMA DestroyBalanced ==
    ASSUME RefInv, NEW t \in Threads, NEW o \in Objects, Destroy(t, o)
    PROVE  Balanced'
<1> SUFFICES ASSUME NEW x \in Objects
             PROVE  IF Alive(x)' THEN ref'[x] = References(x)' ELSE References(x)' = 0
  BY DEF Balanced
<1>1. todo[t] = Only("destroy", o) /\ todo' = [todo EXCEPT ![t] = <<>>]
  BY DoingForm, ThenForm DEF Destroy, RefInv
<1>2. life' = [life EXCEPT ![o] = "gone"] /\ UNCHANGED <<ref, target, clockOf, held>>
      /\ o \notin Enums /\ o \notin Filters
  BY SlotsDiffer DEF Destroy
<1>3. Ends(todo[t], o)
  BY <1>1 DEF Ends
<1>4. References(o) = 0
  BY <1>3 DEF Alive, Ending, RefInv, Balanced
<1>5. ThreadRefs(x)' = ThreadRefs(x)
  BY <1>2, HeldSame
<1>6. Cardinality(Enumerating(x))' = Cardinality(Enumerating(x)) /\ Cardinality(Timed(x))' = Cardinality(Timed(x))
  BY <1>2, SlotsDiffer, EnumeratingSame, TimedSame DEF RefInv, TypeOK
<1>7. CallRefs(x)' = CallRefs(x) + Bit(GivesBack(<<>>, x)) - Bit(GivesBack(Only("destroy", o), x))
  BY <1>1, GiversMove DEF RefInv
<1>8. References(x)' = References(x)
  <2>1. CallRefs(x)' = CallRefs(x)
    <3>1. ~GivesBack(<<>>, x) /\ ~GivesBack(Only("destroy", o), x)
      BY FormsGiveBack
    <3> QED BY <1>7, <3>1, ReferencesTyped DEF Bit
  <2> QED BY <1>5, <1>6, <2>1, ReferencesTyped, ReferencesTypedNext
<1>9. CASE x = o
  BY <1>2, <1>4, <1>8, <1>9 DEF Alive, RefInv, TypeOK
<1>10. CASE x # o
  <2>1. ~Ends(<<>>, x) /\ ~Ends(Only("destroy", o), x)
    BY <1>10, FormsSound, FormsDiffer DEF Ends
  <2>2. Alive(x)' <=> Alive(x)
    BY <1>1, <1>2, <1>10, <2>1, EndingMove DEF Alive, RefInv, TypeOK
  <2> QED BY <1>2, <1>8, <2>2 DEF RefInv, Balanced
<1> QED BY <1>9, <1>10

\* The enumerator's pointer to the filter becomes the pointer of the call.
LEMMA DestroyEnumBalanced ==
    ASSUME RefInv, NEW t \in Threads, NEW e \in Enums, DestroyEnum(t, e)
    PROVE  Balanced'
<1> SUFFICES ASSUME NEW x \in Objects
             PROVE  IF Alive(x)' THEN ref'[x] = References(x)' ELSE References(x)' = 0
  BY DEF Balanced
<1> DEFINE f == target[e]
<1>1. todo[t] = Only("destroy", e) /\ todo' = [todo EXCEPT ![t] = Only("release", f)]
  BY DoingForm, ThenForm DEF DestroyEnum, RefInv
<1>2. life' = [life EXCEPT ![e] = "gone"] /\ target' = [target EXCEPT ![e] = NoObject]
      /\ UNCHANGED <<ref, clockOf, held>> /\ e \in Objects /\ e \notin Filters
  BY SlotsDiffer DEF DestroyEnum
<1>3. Ending(e)
  BY <1>1 DEF Ends, Ending
<1>4. life[e] = "live" /\ References(e) = 0
  BY <1>2, <1>3 DEF Alive, RefInv, CallsSound, Balanced
<1>5. f \in Filters /\ Alive(f) /\ f # e
  BY <1>2, <1>4, EnumeratedAlive
<1> HIDE DEF f
<1>6. ThreadRefs(x)' = ThreadRefs(x)
  BY <1>2, HeldSame
<1>7. Cardinality(Enumerating(x))' = Cardinality(Enumerating(x)) - Bit(x = f)
  <2>1. CASE x # f
    <3>1. Enumerating(x)' = Enumerating(x)
      BY <1>2, <2>1 DEF Enumerating, RefInv, TypeOK, f
    <3> QED BY <2>1, <3>1, ReferencesTyped DEF Bit
  <2>2. CASE x = f
    <3>1. Enumerating(x)' = Enumerating(x) \ {e} /\ e \in Enumerating(x)
      BY <1>2, <1>4, <2>2 DEF Enumerating, RefInv, TypeOK, f
    <3> QED BY <2>2, <3>1, FiniteParts, OneLess DEF Bit
  <2> QED BY <2>1, <2>2
<1>8. Cardinality(Timed(x))' = Cardinality(Timed(x))
  BY <1>2, SlotsDiffer, TimedSame DEF RefInv, TypeOK
<1>9. CallRefs(x)' = CallRefs(x) + Bit(GivesBack(Only("release", f), x)) - Bit(GivesBack(Only("destroy", e), x))
  BY <1>1, GiversMove DEF RefInv
<1>10. CallRefs(x)' = CallRefs(x) + Bit(x = f)
  <2>1. ~GivesBack(Only("destroy", e), x) /\ (GivesBack(Only("release", f), x) <=> x = f)
    BY FormsGiveBack
  <2> QED BY <1>9, <2>1, ReferencesTyped DEF Bit
<1>11. References(x)' = References(x)
  BY <1>6, <1>7, <1>8, <1>10, ReferencesTyped, ReferencesTypedNext DEF Bit
<1>12. CASE x = e
  BY <1>2, <1>4, <1>11, <1>12 DEF Alive, RefInv, TypeOK
<1>13. CASE x # e
  <2>1. ~Ends(Only("release", f), x) /\ ~Ends(Only("destroy", e), x)
    BY <1>13, FormsSound, FormsDiffer DEF Ends
  <2>2. Alive(x)' <=> Alive(x)
    BY <1>1, <1>2, <1>13, <2>1, EndingMove DEF Alive, RefInv, TypeOK
  <2> QED BY <1>2, <1>11, <2>2 DEF RefInv, Balanced
<1> QED BY <1>12, <1>13

\* The filter's pin is gone, the filter not yet.
LEMMA DestroyPinBalanced ==
    ASSUME RefInv, NEW t \in Threads, NEW f \in Filters, DestroyPin(t, f)
    PROVE  Balanced'
<1>1. todo[t] = Only("destroy", f) /\ todo' = [todo EXCEPT ![t] = Only("members", f)]
  BY DoingForm, ThenForm DEF DestroyPin, RefInv
<1>2. UNCHANGED <<life, ref, target, clockOf, held>>
  BY DEF DestroyPin, objectVars
<1>3. ASSUME NEW x \in Objects
      PROVE  CallRefs(x)' = CallRefs(x) /\ (Ending(x)' <=> Ending(x))
  <2>1. CallRefs(x)' = CallRefs(x) + Bit(GivesBack(Only("members", f), x)) - Bit(GivesBack(Only("destroy", f), x))
    BY <1>1, GiversMove DEF RefInv
  <2>2. ~GivesBack(Only("members", f), x) /\ ~GivesBack(Only("destroy", f), x)
    BY FormsGiveBack
  <2>3. CallRefs(x)' = CallRefs(x)
    BY <2>1, <2>2, ReferencesTyped DEF Bit
  <2>4. CASE x = f
    <3>1. Ends(todo[t], x) /\ Ends(Only("members", f), x)
      BY <1>1, <2>4 DEF Ends
    <3> QED BY <1>1, <2>3, <3>1, EndingMove DEF RefInv, Ending
  <2>5. CASE x # f
    <3>1. ~Ends(Only("members", f), x) /\ ~Ends(Only("destroy", f), x)
      BY <2>5, FormsDiffer DEF Ends
    <3> QED BY <1>1, <2>3, <3>1, EndingMove DEF RefInv
  <2> QED BY <2>4, <2>5
<1> QED BY <1>2, <1>3, RestBalanced

\* The filter's pointer to its clock becomes the pointer of the call.
LEMMA DestroyFilterBalanced ==
    ASSUME RefInv, NEW t \in Threads, NEW f \in Filters, DestroyFilter(t, f)
    PROVE  Balanced'
<1> SUFFICES ASSUME NEW x \in Objects
             PROVE  IF Alive(x)' THEN ref'[x] = References(x)' ELSE References(x)' = 0
  BY DEF Balanced
<1> DEFINE k == clockOf[f]
           s == IF k = NoObject THEN <<>> ELSE Only("release", k)
<1>1. todo[t] = Only("members", f)
  BY DoingForm DEF DestroyFilter, RefInv
<1>2. todo' = [todo EXCEPT ![t] = s]
  <2>1. CASE k = NoObject
    BY <1>1, <2>1, ThenForm DEF DestroyFilter, RefInv
  <2>2. CASE k # NoObject
    BY <1>1, <2>2, ThenForm DEF DestroyFilter, RefInv
  <2> QED BY <2>1, <2>2
<1>3. life' = [life EXCEPT ![f] = "gone"] /\ clockOf' = [clockOf EXCEPT ![f] = NoObject]
      /\ UNCHANGED <<ref, target, held>> /\ f \in Objects /\ f \notin Enums
  BY SlotsDiffer DEF DestroyFilter
<1>4. Ending(f)
  BY <1>1 DEF Ends, Ending
<1>5. life[f] = "live" /\ References(f) = 0
  BY <1>3, <1>4 DEF Alive, RefInv, CallsSound, Balanced
<1>6. x # NoObject
  BY SlotsDiffer
<1>7. ThreadRefs(x)' = ThreadRefs(x)
  BY <1>3, HeldSame
<1>8. Cardinality(Enumerating(x))' = Cardinality(Enumerating(x))
  BY <1>3, EnumeratingSame DEF RefInv, TypeOK
<1>9. Cardinality(Timed(x))' = Cardinality(Timed(x)) - Bit(x = k)
  <2>1. CASE x # k
    <3>1. Timed(x)' = Timed(x)
      BY <1>3, <1>6, <2>1 DEF Timed, RefInv, TypeOK
    <3> QED BY <2>1, <3>1, ReferencesTyped DEF Bit
  <2>2. CASE x = k
    <3>1. Timed(x)' = Timed(x) \ {f} /\ f \in Timed(x)
      BY <1>3, <1>5, <1>6, <2>2 DEF Timed, RefInv, TypeOK
    <3> QED BY <2>2, <3>1, FiniteParts, OneLess DEF Bit
  <2> QED BY <2>1, <2>2
<1>10. (GivesBack(s, x) <=> x = k) /\ ~GivesBack(Only("members", f), x)
  BY <1>6, FormsGiveBack
<1>11. CallRefs(x)' = CallRefs(x) + Bit(GivesBack(s, x)) - Bit(GivesBack(Only("members", f), x))
  BY <1>1, <1>2, GiversMove DEF RefInv
<1>12. ~Ends(s, x) /\ (Ends(Only("members", f), x) <=> x = f)
  BY FormsSound, FormsDiffer DEF Ends
<1> HIDE DEF s, k
<1>13. CallRefs(x)' = CallRefs(x) + Bit(x = k)
  BY <1>10, <1>11, ReferencesTyped DEF Bit
<1>14. References(x)' = References(x)
  BY <1>7, <1>8, <1>9, <1>13, ReferencesTyped, ReferencesTypedNext DEF Bit
<1>15. CASE x = f
  BY <1>3, <1>5, <1>14, <1>15 DEF Alive, RefInv, TypeOK
<1>16. CASE x # f
  <2>1. Alive(x)' <=> Alive(x)
    BY <1>1, <1>2, <1>3, <1>12, <1>16, EndingMove DEF Alive, RefInv, TypeOK
  <2> QED BY <1>3, <1>14, <2>1 DEF RefInv, Balanced
<1> QED BY <1>15, <1>16

\* A new enumerator counts the filter it points to.
LEMMA NewEnumBalanced ==
    ASSUME RefInv, NEW t \in Threads, NEW f \in Filters, NEW e \in Enums, NewEnum(t, f, e), Alive(f)
    PROVE  Balanced' /\ held[t][e] = 0
<1>1. life[e] = "none" /\ life' = [life EXCEPT ![e] = "live"] /\ target' = [target EXCEPT ![e] = f]
      /\ ref' = [ref EXCEPT ![e] = 1, ![f] = @ + 1] /\ Gain(t, e) /\ UNCHANGED <<clockOf, todo>>
      /\ e \in Objects /\ f \in Objects /\ e # f /\ e \notin Filters
  BY SlotsDiffer DEF NewEnum
<1>2. ~Alive(e) /\ References(e) = 0
  BY <1>1 DEF Alive, RefInv, Balanced
<1>3. held[t][e] = 0
  BY <1>1, <1>2, HeldAlive, LifetimeAssumption DEF Holds, RefInv, TypeOK
<1>4. held[t][e] <= MaxHeld
  BY <1>3, LifetimeAssumption
<1>5. ~Ending(e)
  BY <1>1 DEF RefInv, CallsSound
<1>6. ASSUME NEW x \in Objects
      PROVE  IF Alive(x)' THEN ref'[x] = References(x)' ELSE References(x)' = 0
  <2>1. ThreadRefs(x)' = ThreadRefs(x) + Bit(x = e)
    BY <1>1, <1>4, GainCounts DEF RefInv
  <2>2. Cardinality(Enumerating(x))' = Cardinality(Enumerating(x)) + Bit(x = f)
    <3>1. CASE x # f
      <4>1. Enumerating(x)' = Enumerating(x)
        BY <1>1, <3>1 DEF Enumerating, RefInv, TypeOK
      <4> QED BY <3>1, <4>1, ReferencesTyped DEF Bit
    <3>2. CASE x = f
      <4>1. Enumerating(x)' = Enumerating(x) \cup {e} /\ e \notin Enumerating(x)
        BY <1>1, <3>2 DEF Enumerating, RefInv, TypeOK
      <4> QED BY <3>2, <4>1, FiniteParts, OneMore DEF Bit
    <3> QED BY <3>1, <3>2
  <2>3. Cardinality(Timed(x))' = Cardinality(Timed(x))
    BY <1>1, TimedSame DEF RefInv, TypeOK
  <2>4. CallRefs(x)' = CallRefs(x)
    BY <1>1, GiversSame
  <2>5. References(x)' = References(x) + Bit(x = e) + Bit(x = f)
    BY <2>1, <2>2, <2>3, <2>4, ReferencesTyped, ReferencesTypedNext DEF Bit
  <2>6. Ending(x)' <=> Ending(x)
    BY <1>1 DEF Ending
  <2>7. CASE x = e
    <3>1. Alive(x)' /\ ref'[x] = 1
      BY <1>1, <1>5, <2>6, <2>7 DEF Alive, RefInv, TypeOK
    <3> QED BY <1>1, <1>2, <2>5, <2>7, <3>1 DEF Bit
  <2>8. CASE x # e
    <3>1. Alive(x)' <=> Alive(x)
      BY <1>1, <2>6, <2>8 DEF Alive, RefInv, TypeOK
    <3>2. ref[x] \in Nat /\ ref'[x] = ref[x] + Bit(x = f)
      BY <1>1, <2>8 DEF RefInv, TypeOK, Bit
    <3>3. IF Alive(x) THEN ref[x] = References(x) ELSE References(x) = 0
      BY DEF RefInv, Balanced
    <3>4. References(x)' = References(x) + Bit(x = f)
      BY <2>5, <2>8, ReferencesTyped DEF Bit
    <3> QED BY <3>1, <3>2, <3>3, <3>4, ReferencesTyped DEF Bit
  <2> QED BY <2>7, <2>8
<1> QED BY <1>3, <1>6 DEF Balanced

\* The new clock is counted, and the pointer to the old one becomes the call's.
LEMMA SetSyncSourceBalanced ==
    ASSUME RefInv, NEW t \in Threads, NEW f \in Filters, NEW k \in Clocks \cup {NoObject}, SetSyncSource(t, f, k)
    PROVE  Balanced'
<1> SUFFICES ASSUME NEW x \in Objects
             PROVE  IF Alive(x)' THEN ref'[x] = References(x)' ELSE References(x)' = 0
  BY DEF Balanced
<1> DEFINE old == clockOf[f]
           s == IF old = NoObject THEN <<>> ELSE Only("release", old)
<1>1. todo[t] = <<>> /\ todo' = [todo EXCEPT ![t] = s]
  BY DEF SetSyncSource, Idle, Only
<1>2. clockOf' = [clockOf EXCEPT ![f] = k] /\ UNCHANGED <<life, target, held>> /\ f \in Objects
  BY SlotsDiffer DEF SetSyncSource
<1>3. x # NoObject /\ (k # NoObject => k \in Objects)
  BY SlotsDiffer
<1>4. ref'[x] = ref[x] + Bit(x = k) /\ ref[x] \in Nat
  BY <1>3 DEF SetSyncSource, RefInv, TypeOK, Bit
<1>5. Holds(t, f) /\ (k # NoObject => Holds(t, k))
  BY DEF SetSyncSource
<1>6. life[f] = "live"
  BY <1>2, <1>5, HeldAlive DEF Alive
<1>7. x = k => Alive(x)
  BY <1>3, <1>5, HeldAlive
<1>8. ThreadRefs(x)' = ThreadRefs(x)
  BY <1>2, HeldSame
<1>9. Cardinality(Enumerating(x))' = Cardinality(Enumerating(x))
  BY <1>2, EnumeratingSame
<1>10. Cardinality(Timed(x))' = Cardinality(Timed(x)) + Bit(x = k) - Bit(x = old)
  <2>1. CASE (x = k) <=> (x = old)
    <3>1. Timed(x)' = Timed(x)
      BY <1>2, <2>1 DEF Timed, RefInv, TypeOK
    <3> HIDE DEF old
    <3> QED BY <2>1, <3>1, ReferencesTyped DEF Bit
  <2>2. CASE x = k /\ x # old
    <3>1. Timed(x)' = Timed(x) \cup {f} /\ f \notin Timed(x)
      BY <1>2, <1>6, <2>2 DEF Timed, RefInv, TypeOK
    <3> HIDE DEF old
    <3> QED BY <2>2, <3>1, FiniteParts, OneMore, ReferencesTyped DEF Bit
  <2>3. CASE x # k /\ x = old
    <3>1. Timed(x)' = Timed(x) \ {f} /\ f \in Timed(x)
      BY <1>2, <1>6, <2>3 DEF Timed, RefInv, TypeOK
    <3> HIDE DEF old
    <3> QED BY <2>3, <3>1, FiniteParts, OneLess, ReferencesTyped DEF Bit
  <2> HIDE DEF old
  <2> QED BY <2>1, <2>2, <2>3
<1>11. (GivesBack(s, x) <=> x = old) /\ ~GivesBack(<<>>, x)
  BY <1>3, FormsGiveBack
<1>12. CallRefs(x)' = CallRefs(x) + Bit(GivesBack(s, x)) - Bit(GivesBack(<<>>, x))
  BY <1>1, GiversMove DEF RefInv
<1>13. ~Ends(s, x) /\ ~Ends(<<>>, x)
  BY FormsSound, FormsDiffer DEF Ends
<1>14. Alive(x)' <=> Alive(x)
  BY <1>1, <1>2, <1>13, EndingMove DEF Alive, RefInv
<1> HIDE DEF old, s
<1>15. CallRefs(x)' = CallRefs(x) + Bit(x = old)
  BY <1>11, <1>12, ReferencesTyped DEF Bit
<1>16. References(x)' = References(x) + Bit(x = k)
  BY <1>8, <1>9, <1>10, <1>15, ReferencesTyped, ReferencesTypedNext DEF Bit
<1>17. IF Alive(x) THEN ref[x] = References(x) ELSE References(x) = 0
  BY DEF RefInv, Balanced
<1> QED BY <1>4, <1>7, <1>14, <1>16, <1>17, ReferencesTyped DEF Bit

\* A call that ends without touching an object.
LEMMA QuietMove ==
    ASSUME RefInv, NEW t \in Threads, NEW s, todo' = [todo EXCEPT ![t] = s],
           \A x \in Objects : /\ GivesBack(s, x) <=> GivesBack(todo[t], x)
                              /\ ~Ends(s, x) /\ ~Ends(todo[t], x)
    PROVE  \A x \in Objects : CallRefs(x)' = CallRefs(x) /\ (Ending(x)' <=> Ending(x))
<1> SUFFICES ASSUME NEW x \in Objects
             PROVE  CallRefs(x)' = CallRefs(x) /\ (Ending(x)' <=> Ending(x))
  OBVIOUS
<1>1. CallRefs(x)' = CallRefs(x) + Bit(GivesBack(s, x)) - Bit(GivesBack(todo[t], x))
  BY GiversMove DEF RefInv
<1>2. CallRefs(x)' = CallRefs(x)
  BY <1>1, ReferencesTyped DEF Bit
<1> QED BY <1>2, EndingMove DEF RefInv

\* No object is concerned by an idle thread, nor by the rest of DllCanUnloadNow.
LEMMA QuietForms ==
    ASSUME NEW x
    PROVE  /\ ~GivesBack(<<>>, x) /\ ~GivesBack(Only("objects", NoObject), x)
           /\ ~Ends(<<>>, x) /\ ~Ends(Only("objects", NoObject), x)
<1>1. ~GivesBack(<<>>, x) /\ ~GivesBack(Only("objects", NoObject), x)
  BY FormsGiveBack
<1>2. ~Ends(<<>>, x)
  BY FormsSound DEF Ends
<1>3. ~Ends(Only("objects", NoObject), x)
  BY FormsDiffer DEF Ends
<1> QED BY <1>1, <1>2, <1>3

LEMMA SameCalls ==
    ASSUME UNCHANGED todo
    PROVE  \A x \in Objects : CallRefs(x)' = CallRefs(x) /\ (Ending(x)' <=> Ending(x))
BY GiversSame DEF Ending

LEMMA QueryBalanced ==
    ASSUME RefInv, NEW t \in Threads, NEW f \in Filters, Query(t, f)
    PROVE  Balanced'
<1>1. todo[t] = Querying(f) /\ todo' = [todo EXCEPT ![t] = Only("release", f)]
  BY DoingForm, ThenForm DEF Query, RefInv
<1>2. f \in Objects /\ UNCHANGED <<life, target, clockOf>>
  BY SlotsDiffer DEF Query
<1>3. \A x : /\ GivesBack(Querying(f), x) <=> x = f
             /\ GivesBack(Only("release", f), x) <=> x = f
             /\ ~Ends(Querying(f), x) /\ ~Ends(Only("release", f), x)
  BY FormsGiveBack, FormsDiffer DEF Ends
<1>4. \A x \in Objects : CallRefs(x)' = CallRefs(x) /\ (Ending(x)' <=> Ending(x))
  BY <1>1, <1>3, QuietMove
<1>5. Alive(f)
  BY <1>1, <1>2, <1>3, GivenAlive
<1>6. CASE ref' = [ref EXCEPT ![f] = @ + 1] /\ Gain(t, f)
  <2>1. held[t][f] <= MaxHeld
    BY <1>1, LifetimeAssumption DEF RefInv, FreshUnknown
  <2> QED BY <1>2, <1>4, <1>5, <1>6, <2>1, TakeBalanced
<1>7. CASE UNCHANGED <<ref, held>>
  BY <1>2, <1>4, <1>7, RestBalanced
<1> QED BY <1>6, <1>7 DEF Query

LEMMA BalancedKept ==
    ASSUME RefInv, [Next]_vars
    PROVE  Balanced'
<1>1. CASE UNCHANGED vars
  <2>1. \A x \in Objects : CallRefs(x)' = CallRefs(x) /\ (Ending(x)' <=> Ending(x))
    BY <1>1, SameCalls DEF vars
  <2> QED BY <1>1, <2>1, RestBalanced DEF vars, objectVars
<1>2. ASSUME NEW t \in Threads, Continue(t)
      PROVE  Balanced'
  <2>1. ASSUME NEW f \in Filters, Wrap(t, f) \/ Query(t, f) \/ DestroyPin(t, f) \/ DestroyFilter(t, f)
        PROVE  Balanced'
    BY <2>1, WrapBalanced, QueryBalanced, DestroyPinBalanced, DestroyFilterBalanced
  <2>2. ASSUME NEW o \in Objects, Release(t, o) \/ Destroy(t, o)
        PROVE  Balanced'
    BY <2>2, ReleaseBalanced, DestroyBalanced
  <2>3. ASSUME NEW e \in Enums, DestroyEnum(t, e)
        PROVE  Balanced'
    BY <2>3, DestroyEnumBalanced
  <2>4. ASSUME ObjectsActive(t)
        PROVE  Balanced'
    <3>1. todo[t] = Only("objects", NoObject) /\ todo' = [todo EXCEPT ![t] = <<>>]
      BY <2>4, DoingForm, ThenForm DEF ObjectsActive, RefInv
    <3>3. \A x \in Objects : CallRefs(x)' = CallRefs(x) /\ (Ending(x)' <=> Ending(x))
      BY <3>1, QuietForms, QuietMove
    <3> QED BY <2>4, <3>3, RestBalanced DEF ObjectsActive, objectVars
  <2> QED BY <1>2, <2>1, <2>2, <2>3, <2>4 DEF Continue
<1>3. ASSUME NEW t \in Threads, Call(t)
      PROVE  Balanced'
  <2>1. ASSUME NEW c \in Factories, DllGetClassObject(t, c)
        PROVE  Balanced'
    BY <2>1, FactoryBalanced
  <2>2. ASSUME NEW c \in Factories, NEW f \in Filters, CreateInstance(t, c, f)
        PROVE  Balanced'
    BY <2>2, CreateBalanced
  <2>3. ASSUME NEW o \in Objects, CallRelease(t, o)
        PROVE  Balanced'
    BY <2>3, CallReleaseBalanced
  <2>4. ASSUME NEW o \in Objects, NEW u \in Threads, AddRef(t, u, o)
        PROVE  Balanced'
    <3>1. Alive(o) /\ \A x \in Objects : CallRefs(x)' = CallRefs(x) /\ (Ending(x)' <=> Ending(x))
      BY <2>4, HeldAlive, SameCalls DEF AddRef
    <3>2. held[u][o] <= MaxHeld
      BY <2>4, LifetimeAssumption DEF AddRef, CanHold, RefInv, TypeOK
    <3> QED BY <2>4, <3>1, <3>2, TakeBalanced DEF AddRef
  <2>5. ASSUME NEW f \in Filters, NEW e \in Enums, Enumerate(t, f, e)
        PROVE  Balanced'
    <3>1. Alive(f)
      BY <2>5, SlotsDiffer, HeldAlive DEF Enumerate
    <3> QED BY <2>5, <3>1, NewEnumBalanced DEF Enumerate
  <2>6. ASSUME NEW e \in Enums, NEW new \in Enums, Clone(t, e, new)
        PROVE  Balanced'
    <3>1. target[e] \in Filters /\ Alive(target[e])
      BY <2>6, SlotsDiffer, HeldAlive, EnumeratedAlive DEF Clone, Alive
    <3> QED BY <2>6, <3>1, NewEnumBalanced DEF Clone
  <2>7. ASSUME NEW e \in Enums, NextPin(t, e)
        PROVE  Balanced'
    <3> DEFINE f == target[e]
    <3>1. f \in Objects /\ Alive(f)
      BY <2>7, SlotsDiffer, HeldAlive, EnumeratedAlive DEF NextPin, Alive
    <3>2. \A x \in Objects : CallRefs(x)' = CallRefs(x) /\ (Ending(x)' <=> Ending(x))
      BY <2>7, SameCalls DEF NextPin
    <3>3. held[t][f] <= MaxHeld
      BY <2>7, <3>1, LifetimeAssumption DEF NextPin, CanHold, RefInv, TypeOK
    <3>4. ref' = [ref EXCEPT ![f] = @ + 1] /\ Gain(t, f) /\ UNCHANGED <<life, target, clockOf>>
      BY <2>7 DEF NextPin
    <3> HIDE DEF f
    <3> QED BY <3>1, <3>2, <3>3, <3>4, TakeBalanced
  <2>8. ASSUME NEW f \in Filters, GetSyncSource(t, f)
        PROVE  Balanced'
    <3> DEFINE k == clockOf[f]
    <3>1. k \in Objects /\ Alive(k)
      BY <2>8, SlotsDiffer, TimedAlive DEF GetSyncSource
    <3>2. \A x \in Objects : CallRefs(x)' = CallRefs(x) /\ (Ending(x)' <=> Ending(x))
      BY <2>8, SameCalls DEF GetSyncSource
    <3>3. held[t][k] <= MaxHeld
      BY <2>8, <3>1, LifetimeAssumption DEF GetSyncSource, CanHold, RefInv, TypeOK
    <3>4. ref' = [ref EXCEPT ![k] = @ + 1] /\ Gain(t, k) /\ UNCHANGED <<life, target, clockOf>>
      BY <2>8 DEF GetSyncSource
    <3> HIDE DEF k
    <3> QED BY <3>1, <3>2, <3>3, <3>4, TakeBalanced
  <2>9. ASSUME NEW f \in Filters, NEW k \in Clocks \cup {NoObject}, SetSyncSource(t, f, k)
        PROVE  Balanced'
    BY <2>9, SetSyncSourceBalanced
  <2>10. ASSUME \/ \E f \in Filters : Start(t, f) \/ Stop(t, f)
                \/ \E c \in Factories, fLock \in BOOLEAN : LockServer(t, c, fLock)
         PROVE  Balanced'
    <3>1. UNCHANGED <<life, ref, target, clockOf, held, todo>>
      BY <2>10 DEF Start, Stop, LockServer, objectVars
    <3> QED BY <3>1, SameCalls, RestBalanced
  <2>11. ASSUME DllCanUnloadNow(t)
         PROVE  Balanced'
    <3>1. todo[t] = <<>> /\ todo' = [todo EXCEPT ![t] = Only("objects", NoObject)]
      BY <2>11 DEF DllCanUnloadNow, Idle, Only
    <3>3. \A x \in Objects : CallRefs(x)' = CallRefs(x) /\ (Ending(x)' <=> Ending(x))
      BY <3>1, QuietForms, QuietMove
    <3> QED BY <2>11, <3>3, RestBalanced DEF DllCanUnloadNow, objectVars
  <2> QED BY <1>3, <2>1, <2>2, <2>3, <2>4, <2>5, <2>6, <2>7, <2>8, <2>9, <2>10, <2>11 DEF Call
<1> QED BY <1>1, <1>2, <1>3 DEF Next

-----------------------------------------------------------------------------
(* Every step goes on from one form of a call to another, and a destructor *)
(* begins only with the last reference.                                    *)

\* The actions of a thread that is idle before and after them.
IdleStep(t) ==
    \/ \E c \in Factories : DllGetClassObject(t, c) \/ \E fLock \in BOOLEAN : LockServer(t, c, fLock)
    \/ \E u \in Threads, o \in Objects : AddRef(t, u, o)
    \/ \E f \in Filters : \/ \E e \in Enums : Enumerate(t, f, e)
                          \/ GetSyncSource(t, f) \/ Start(t, f) \/ Stop(t, f)
    \/ \E e \in Enums : NextPin(t, e) \/ \E new \in Enums : Clone(t, e, new)

LEMMA IdleSteps ==
    ASSUME TypeOK, NEW t \in Threads, IdleStep(t)
    PROVE  /\ todo[t] = <<>> /\ todo' = todo /\ todo' = [todo EXCEPT ![t] = <<>>]
           /\ \A x \in Objects : life'[x] = life[x] \/ (life[x] = "none" /\ life'[x] = "live")
<1>1. todo[t] = <<>> /\ todo' = todo
  BY DEF IdleStep, DllGetClassObject, LockServer, AddRef, Enumerate, NewEnum, GetSyncSource, Start, Stop, NextPin,
         Clone, Idle
<1>2. todo' = [todo EXCEPT ![t] = <<>>]
  BY <1>1 DEF TypeOK
<1>3. ASSUME NEW x \in Objects
      PROVE  life'[x] = life[x] \/ (life[x] = "none" /\ life'[x] = "live")
  <2>1. CASE \E c \in Factories : DllGetClassObject(t, c)
    BY <2>1 DEF DllGetClassObject, TypeOK
  <2>2. CASE \E f, e : e \in Enums /\ NewEnum(t, f, e)
    BY <2>2 DEF NewEnum, TypeOK
  <2>3. CASE UNCHANGED life
    BY <2>3
  <2> QED BY <2>1, <2>2, <2>3 DEF IdleStep, LockServer, AddRef, Enumerate, GetSyncSource, Start, Stop, NextPin,
             Clone, objectVars
<1> QED BY <1>1, <1>2, <1>3

\* A call goes on: at most one destructor of an object, and the object is there.
LEMMA CallsMove ==
    ASSUME RefInv, NEW t \in Threads, NEW s \in Calls, todo' = [todo EXCEPT ![t] = s],
           \A x \in Objects : Ends(s, x) => Ends(todo[t], x) \/ Alive(x),
           \A x \in Objects : \/ life'[x] = life[x]
                              \/ life[x] = "none" /\ life'[x] = "live"
                              \/ Ends(todo[t], x) /\ ~Ends(s, x)
    PROVE  CallsSound'
<1>1. \A u \in Threads : todo'[u] = IF u = t THEN s ELSE todo[u]
  BY DEF RefInv, TypeOK
<1>2. \A u \in Threads : todo'[u] \in Calls
  BY <1>1 DEF RefInv, CallsSound
<1>3. ASSUME NEW o \in Objects, NEW u \in Threads, NEW v \in Threads, Ends(todo'[u], o), Ends(todo'[v], o)
      PROVE  u = v
  <2>1. \A w \in Threads : Ends(todo[w], o) => \A y \in Threads : Ends(todo[y], o) => w = y
    BY DEF RefInv, CallsSound
  <2>2. \A w \in Threads : Ends(todo[w], o) => ~Alive(o)
    BY DEF Alive, Ending
  <2> QED BY <1>1, <1>3, <2>1, <2>2
<1>4. ASSUME NEW o \in Objects, Ending(o)'
      PROVE  life'[o] = "live"
  <2>1. PICK u \in Threads : Ends(todo'[u], o)
    BY <1>4 DEF Ending
  <2>2. Ending(o) \/ Alive(o)
    BY <1>1, <2>1 DEF Ending
  <2>3. life[o] = "live"
    BY <2>2 DEF Alive, RefInv, CallsSound
  <2>4. ~(Ends(todo[t], o) /\ ~Ends(s, o))
    <3>1. SUFFICES ASSUME Ends(todo[t], o), ~Ends(s, o) PROVE FALSE
      OBVIOUS
    <3>2. u # t /\ Ends(todo[u], o)
      BY <1>1, <2>1, <3>1
    <3> QED BY <3>1, <3>2 DEF RefInv, CallsSound
  <2> QED BY <2>3, <2>4
<1> QED BY <1>2, <1>3, <1>4 DEF CallsSound

LEMMA CallForms ==
    /\ <<>> \in Calls /\ Only("objects", NoObject) \in Calls
    /\ \A f \in Filters : Creating(f) \in Calls /\ Querying(f) \in Calls /\ Only("members", f) \in Calls
    /\ \A o \in Objects : Only("release", o) \in Calls /\ Only("destroy", o) \in Calls
BY DEF Calls

\* Which forms end which object.
LEMMA EndsForms ==
    ASSUME NEW f, NEW x
    PROVE  /\ ~Ends(<<>>, x) /\ ~Ends(Only("objects", NoObject), x)
           /\ ~Ends(Creating(f), x) /\ ~Ends(Querying(f), x) /\ ~Ends(Only("release", f), x)
           /\ Ends(Only("destroy", f), x) <=> x = f
           /\ Ends(Only("members", f), x) <=> x = f
<1>1. ~Ends(Creating(f), x) /\ ~Ends(Querying(f), x)
  BY FormsDiffer DEF Ends
<1>2. ~Ends(Only("release", f), x)
  BY FormsDiffer DEF Ends
<1>3. Ends(Only("destroy", f), x) <=> x = f
  BY FormsDiffer DEF Ends
<1>4. Ends(Only("members", f), x) <=> x = f
  BY FormsDiffer DEF Ends
<1> QED BY <1>1, <1>2, <1>3, <1>4, QuietForms

LEMMA CallsKept ==
    ASSUME RefInv, [Next]_vars
    PROVE  CallsSound'
<1>1. CASE UNCHANGED vars
  BY <1>1 DEF vars, objectVars, RefInv, CallsSound, Ending
<1>2. ASSUME NEW t \in Threads, Continue(t)
      PROVE  CallsSound'
  <2>1. ASSUME NEW f \in Filters, Wrap(t, f)
        PROVE  CallsSound'
    <3>1. todo' = [todo EXCEPT ![t] = Querying(f)] /\ UNCHANGED life
      BY <2>1, DoingForm, ThenForm DEF Wrap, RefInv
    <3>2. Querying(f) \in Calls /\ \A x \in Objects : ~Ends(Querying(f), x)
      BY CallForms, EndsForms
    <3> QED BY <3>1, <3>2, CallsMove
  <2>2. ASSUME NEW f \in Filters, Query(t, f)
        PROVE  CallsSound'
    <3>1. todo' = [todo EXCEPT ![t] = Only("release", f)] /\ UNCHANGED life /\ f \in Objects
      BY <2>2, SlotsDiffer, DoingForm, ThenForm DEF Query, RefInv
    <3>2. Only("release", f) \in Calls /\ \A x \in Objects : ~Ends(Only("release", f), x)
      BY <3>1, CallForms, EndsForms
    <3> QED BY <3>1, <3>2, CallsMove
  <2>3. ASSUME NEW f \in Filters, DestroyPin(t, f)
        PROVE  CallsSound'
    <3>1. todo[t] = Only("destroy", f) /\ todo' = [todo EXCEPT ![t] = Only("members", f)] /\ UNCHANGED life
      BY <2>3, DoingForm, ThenForm DEF DestroyPin, RefInv, objectVars
    <3>2. Only("members", f) \in Calls /\ \A x \in Objects : Ends(Only("members", f), x) <=> Ends(Only("destroy", f), x)
      BY CallForms, EndsForms
    <3> QED BY <3>1, <3>2, CallsMove
  <2>4. ASSUME NEW f \in Filters, DestroyFilter(t, f)
        PROVE  CallsSound'
    <3>1. todo[t] = Only("members", f) /\ life' = [life EXCEPT ![f] = "gone"]
      BY <2>4, DoingForm DEF DestroyFilter, RefInv
    <3>2. ASSUME NEW x \in Objects
          PROVE  life'[x] = life[x] \/ Ends(todo[t], x)
      BY <3>1, EndsForms DEF RefInv, TypeOK
    <3>3. CASE clockOf[f] = NoObject
      <4>1. todo' = [todo EXCEPT ![t] = <<>>]
        BY <2>4, <3>1, <3>3, ThenForm DEF DestroyFilter, RefInv
      <4>2. <<>> \in Calls /\ \A x \in Objects : ~Ends(<<>>, x)
        BY CallForms, EndsForms
      <4> QED BY <3>2, <4>1, <4>2, CallsMove
    <3>4. CASE clockOf[f] # NoObject
      <4>1. todo' = [todo EXCEPT ![t] = Only("release", clockOf[f])] /\ clockOf[f] \in Objects
        BY <2>4, <3>1, <3>4, SlotsDiffer, TimedAlive, ThenForm DEF DestroyFilter, RefInv
      <4>2. Only("release", clockOf[f]) \in Calls /\ \A x \in Objects : ~Ends(Only("release", clockOf[f]), x)
        BY <3>2, <4>1, CallForms, EndsForms
      <4> QED BY <3>2, <4>1, <4>2, CallsMove
    <3> QED BY <3>3, <3>4
  <2>5. ASSUME NEW o \in Objects, Release(t, o)
        PROVE  CallsSound'
    <3>1. todo[t] = Only("release", o) /\ UNCHANGED life
      BY <2>5, DoingForm DEF Release, RefInv
    <3>2. Alive(o)
      BY <3>1, FormsGiveBack, GivenAlive
    <3>3. CASE ref[o] = 1
      <4>1. todo' = [todo EXCEPT ![t] = Only("destroy", o)]
        BY <2>5, <3>1, <3>3, ThenForm DEF Release, RefInv
      <4>2. Only("destroy", o) \in Calls /\ \A x \in Objects : Ends(Only("destroy", o), x) => x = o
        BY CallForms, EndsForms
      <4> QED BY <3>1, <3>2, <4>1, <4>2, CallsMove
    <3>4. CASE ref[o] # 1
      <4>1. todo' = [todo EXCEPT ![t] = <<>>]
        BY <2>5, <3>1, <3>4, ThenForm DEF Release, RefInv
      <4>2. <<>> \in Calls /\ \A x \in Objects : ~Ends(<<>>, x)
        BY CallForms, EndsForms
      <4> QED BY <3>1, <4>1, <4>2, CallsMove
    <3> QED BY <3>3, <3>4
  <2>6. ASSUME NEW o \in Objects, Destroy(t, o)
        PROVE  CallsSound'
    <3>1. todo[t] = Only("destroy", o) /\ todo' = [todo EXCEPT ![t] = <<>>] /\ life' = [life EXCEPT ![o] = "gone"]
      BY <2>6, DoingForm, ThenForm DEF Destroy, RefInv
    <3>2. ASSUME NEW x \in Objects
          PROVE  life'[x] = life[x] \/ Ends(todo[t], x)
      BY <3>1, EndsForms DEF RefInv, TypeOK
    <3>3. <<>> \in Calls /\ \A x \in Objects : ~Ends(<<>>, x)
      BY CallForms, EndsForms
    <3> QED BY <3>1, <3>2, <3>3, CallsMove
  <2>7. ASSUME NEW e \in Enums, DestroyEnum(t, e)
        PROVE  CallsSound'
    <3>1. todo[t] = Only("destroy", e) /\ todo' = [todo EXCEPT ![t] = Only("release", target[e])]
          /\ life' = [life EXCEPT ![e] = "gone"] /\ e \in Objects
      BY <2>7, SlotsDiffer, DoingForm, ThenForm DEF DestroyEnum, RefInv
    <3>2. life[e] = "live"
      BY <3>1 DEF RefInv, CallsSound, Ending, Ends
    <3>3. target[e] \in Objects
      BY <3>2, SlotsDiffer, EnumeratedAlive
    <3>4. ASSUME NEW x \in Objects
          PROVE  life'[x] = life[x] \/ Ends(todo[t], x)
      BY <3>1, EndsForms DEF RefInv, TypeOK
    <3>5. Only("release", target[e]) \in Calls /\ \A x \in Objects : ~Ends(Only("release", target[e]), x)
      BY <3>1, <3>3, <3>4, CallForms, EndsForms
    <3> QED BY <3>1, <3>3, <3>4, <3>5, CallsMove
  <2>8. ASSUME ObjectsActive(t)
        PROVE  CallsSound'
    <3>1. todo' = [todo EXCEPT ![t] = <<>>] /\ UNCHANGED life
      BY <2>8, DoingForm, ThenForm DEF ObjectsActive, RefInv, objectVars
    <3>2. <<>> \in Calls /\ \A x \in Objects : ~Ends(<<>>, x)
      BY CallForms, EndsForms
    <3> QED BY <3>1, <3>2, CallsMove
  <2> QED BY <1>2, <2>1, <2>2, <2>3, <2>4, <2>5, <2>6, <2>7, <2>8 DEF Continue
<1>3. ASSUME NEW t \in Threads, Call(t)
      PROVE  CallsSound'
  <2>1. CASE IdleStep(t)
    BY <2>1, IdleSteps, CallForms, EndsForms, CallsMove DEF RefInv
  <2>2. ASSUME NEW c \in Factories, NEW f \in Filters, CreateInstance(t, c, f)
        PROVE  CallsSound'
    <3>1. todo' = [todo EXCEPT ![t] = Creating(f)] /\ life[f] = "none" /\ life' = [life EXCEPT ![f] = "live"]
      BY <2>2 DEF CreateInstance, NewFilter, Creating
    <3>2. ASSUME NEW x \in Objects
          PROVE  life'[x] = life[x] \/ (life[x] = "none" /\ life'[x] = "live")
      BY <3>1 DEF RefInv, TypeOK
    <3>3. Creating(f) \in Calls /\ \A x \in Objects : ~Ends(Creating(f), x)
      BY CallForms, EndsForms
    <3> QED BY <3>1, <3>2, <3>3, CallsMove
  <2>3. ASSUME NEW o \in Objects, CallRelease(t, o)
        PROVE  CallsSound'
    <3>1. todo' = [todo EXCEPT ![t] = Only("release", o)] /\ UNCHANGED life
      BY <2>3 DEF CallRelease, Only, objectVars
    <3>2. Only("release", o) \in Calls /\ \A x \in Objects : ~Ends(Only("release", o), x)
      BY CallForms, EndsForms
    <3> QED BY <3>1, <3>2, CallsMove
  <2>4. ASSUME NEW f \in Filters, NEW k \in Clocks \cup {NoObject}, SetSyncSource(t, f, k)
        PROVE  CallsSound'
    <3>1. UNCHANGED life
      BY <2>4 DEF SetSyncSource
    <3>2. CASE clockOf[f] = NoObject
      <4>1. todo' = [todo EXCEPT ![t] = <<>>]
        BY <2>4, <3>2 DEF SetSyncSource
      <4>2. <<>> \in Calls /\ \A x \in Objects : ~Ends(<<>>, x)
        BY CallForms, EndsForms
      <4> QED BY <3>1, <4>1, <4>2, CallsMove
    <3>3. CASE clockOf[f] # NoObject
      <4>1. todo' = [todo EXCEPT ![t] = Only("release", clockOf[f])] /\ clockOf[f] \in Objects
        BY <2>4, <3>3, SlotsDiffer, TimedAlive DEF SetSyncSource, Only
      <4>2. Only("release", clockOf[f]) \in Calls /\ \A x \in Objects : ~Ends(Only("release", clockOf[f]), x)
        BY <3>1, <4>1, CallForms, EndsForms
      <4> QED BY <3>1, <4>1, <4>2, CallsMove
    <3> QED BY <3>2, <3>3
  <2>5. ASSUME DllCanUnloadNow(t)
        PROVE  CallsSound'
    <3>1. todo' = [todo EXCEPT ![t] = Only("objects", NoObject)] /\ UNCHANGED life
      BY <2>5 DEF DllCanUnloadNow, Only, objectVars
    <3>2. Only("objects", NoObject) \in Calls /\ \A x \in Objects : ~Ends(Only("objects", NoObject), x)
      BY CallForms, EndsForms
    <3> QED BY <3>1, <3>2, CallsMove
  <2> QED BY <1>3, <2>1, <2>2, <2>3, <2>4, <2>5 DEF Call, IdleStep
<1> QED BY <1>1, <1>2, <1>3 DEF Next

-----------------------------------------------------------------------------
(* Who holds what: an enumerator its filter, the thread that started the   *)
(* worker the filter, and nobody a filter that has no reference yet.       *)

LEMMA GainHeld ==
    ASSUME TypeOK, NEW u \in Threads, NEW o \in Objects, Gain(u, o), NEW v \in Threads, NEW x \in Objects
    PROVE  /\ held'[v][x] = held[v][x] + Bit(v = u /\ x = o)
           /\ held[v][x] \in Nat /\ held'[v][x] >= held[v][x]
<1>1. held \in [Threads -> [Objects -> 0..MaxHeld + 1]] /\ MaxHeld \in Nat
  BY LifetimeAssumption DEF TypeOK
<1>2. held'[v][x] = IF v = u /\ x = o THEN held[u][o] + 1 ELSE held[v][x]
  BY <1>1 DEF Gain
<1>3. held[v][x] \in Nat /\ held[u][o] \in Nat
  BY <1>1
<1> QED BY <1>2, <1>3 DEF Bit

LEMMA HoldersKept ==
    ASSUME RefInv, [Next]_vars
    PROVE  HoldersSound'
<1> DEFINE E == \A e \in Enums : life'[e] = "live" => target'[e] \in Filters
           C == \A f \in Filters : life'[f] # "live" => clockOf'[f] = NoObject
           R == \A f \in Filters : runner'[f] # NoObject => runner'[f] \in Threads /\ held'[runner'[f]][f] > 0
<1>1. SUFFICES E /\ C /\ R
  BY DEF HoldersSound, Holds
<1> USE DEF RefInv, TypeOK, HoldersSound, Holds
<1>2. CASE UNCHANGED vars
  BY <1>2 DEF vars, objectVars
<1>3. ASSUME NEW t \in Threads, Continue(t)
      PROVE  E /\ C /\ R
  <2>1. ASSUME NEW f \in Filters, Wrap(t, f) \/ DestroyPin(t, f)
        PROVE  E /\ C /\ R
    BY <2>1 DEF Wrap, DestroyPin, objectVars
  <2>2. ASSUME NEW f \in Filters, Query(t, f)
        PROVE  E /\ C /\ R
    <3>1. UNCHANGED <<life, target, clockOf, runner>> /\ f \in Objects /\ \A g \in Filters : g \in Objects
      BY <2>2, SlotsDiffer DEF Query
    <3>2. ASSUME NEW g \in Filters, runner[g] # NoObject
          PROVE  held'[runner[g]][g] > 0
      <4>1. CASE UNCHANGED held
        BY <3>2, <4>1
      <4>2. CASE Gain(t, f)
        <5>1. held'[runner[g]][g] >= held[runner[g]][g] /\ held[runner[g]][g] \in Nat
              /\ held'[runner[g]][g] = held[runner[g]][g] + Bit(runner[g] = t /\ g = f)
          BY <3>1, <3>2, <4>2, GainHeld
        <5> QED BY <3>2, <5>1 DEF Bit
      <4> QED BY <2>2, <4>1, <4>2 DEF Query
    <3> QED BY <3>1, <3>2
  <2>3. ASSUME NEW f \in Filters, DestroyFilter(t, f)
        PROVE  E /\ C /\ R
    BY <2>3, SlotsDiffer DEF DestroyFilter
  <2>4. ASSUME NEW o \in Objects, Release(t, o)
        PROVE  E /\ C /\ R
    BY <2>4 DEF Release
  <2>5. ASSUME NEW o \in Objects, Destroy(t, o)
        PROVE  E /\ C /\ R
    BY <2>5, SlotsDiffer DEF Destroy
  <2>6. ASSUME NEW e \in Enums, DestroyEnum(t, e)
        PROVE  E /\ C /\ R
    BY <2>6, SlotsDiffer DEF DestroyEnum
  <2>7. ASSUME ObjectsActive(t)
        PROVE  E /\ C /\ R
    BY <2>7 DEF ObjectsActive, objectVars
  <2> QED BY <1>3, <2>1, <2>2, <2>3, <2>4, <2>5, <2>6, <2>7 DEF Continue
<1>4. ASSUME NEW t \in Threads, Call(t)
      PROVE  E /\ C /\ R
  <2>1. ASSUME NEW u \in Threads, NEW o \in Objects, Gain(u, o), UNCHANGED <<clockOf, runner>>
        PROVE  R
    <3>1. ASSUME NEW g \in Filters, runner[g] # NoObject
          PROVE  held'[runner[g]][g] > 0
      <4>1. g \in Objects
        BY SlotsDiffer
      <4>2. held[runner[g]][g] \in Nat
            /\ held'[runner[g]][g] = held[runner[g]][g] + Bit(runner[g] = u /\ g = o)
        BY <2>1, <3>1, <4>1, GainHeld
      <4> QED BY <3>1, <4>2 DEF Bit
    <3> QED BY <2>1, <3>1
  <2>2. ASSUME NEW f \in Filters, NEW e \in Enums, NewEnum(t, f, e)
        PROVE  E /\ C /\ R
    <3>1. E /\ C
      BY <2>2, SlotsDiffer DEF NewEnum
    <3> QED BY <2>1, <2>2, <3>1, SlotsDiffer DEF NewEnum
  <2>3. ASSUME NEW c \in Factories, DllGetClassObject(t, c)
        PROVE  E /\ C /\ R
    <3>1. E /\ C
      BY <2>3, SlotsDiffer DEF DllGetClassObject
    <3> QED BY <2>1, <2>3, <3>1, SlotsDiffer DEF DllGetClassObject
  <2>4. ASSUME NEW c \in Factories, NEW f \in Filters, CreateInstance(t, c, f)
        PROVE  E /\ C /\ R
    BY <2>4, SlotsDiffer DEF CreateInstance, NewFilter
  <2>5. ASSUME NEW o \in Objects, CallRelease(t, o)
        PROVE  E /\ C /\ R
    <3>1. E /\ C
      BY <2>5 DEF CallRelease, objectVars
    <3>2. ASSUME NEW f \in Filters, runner'[f] # NoObject
          PROVE  runner'[f] \in Threads /\ held'[runner'[f]][f] > 0
      <4>1. runner'[f] = runner[f] /\ runner[f] \in Threads /\ held[runner[f]][f] > 0
        BY <2>5, <3>2 DEF CallRelease
      <4>2. CASE o = f /\ runner[f] = t
        <5>1. held[t][f] > 1 /\ held'[t][f] = held[t][f] - 1 /\ held[t][f] \in Int
          BY <2>5, <4>2 DEF CallRelease
        <5> QED BY <4>1, <4>2, <5>1
      <4>3. CASE ~(o = f /\ runner[f] = t)
        <5>1. held'[runner[f]][f] = held[runner[f]][f]
          BY <2>5, <4>1, <4>3, SlotsDiffer DEF CallRelease
        <5> QED BY <4>1, <5>1
      <4> QED BY <4>2, <4>3
    <3> QED BY <3>1, <3>2
  <2>6. ASSUME NEW o \in Objects, NEW u \in Threads, AddRef(t, u, o)
        PROVE  E /\ C /\ R
    <3>1. E /\ C
      BY <2>6 DEF AddRef
    <3> QED BY <2>1, <2>6, <3>1 DEF AddRef
  <2>7. ASSUME NEW f \in Filters, NEW e \in Enums, Enumerate(t, f, e)
        PROVE  E /\ C /\ R
    BY <2>2, <2>7 DEF Enumerate
  <2>8. ASSUME NEW e \in Enums, NEW new \in Enums, Clone(t, e, new)
        PROVE  E /\ C /\ R
    <3>1. target[e] \in Filters
      BY <2>8, SlotsDiffer, HeldAlive, EnumeratedAlive DEF Clone, Alive
    <3> QED BY <2>2, <2>8, <3>1 DEF Clone
  <2>9. ASSUME NEW e \in Enums, NextPin(t, e)
        PROVE  E /\ C /\ R
    <3>1. target[e] \in Objects
      BY <2>9, SlotsDiffer, HeldAlive, EnumeratedAlive DEF NextPin, Alive
    <3>2. E /\ C
      BY <2>9 DEF NextPin
    <3> QED BY <2>1, <2>9, <3>1, <3>2 DEF NextPin
  <2>10. ASSUME NEW f \in Filters, GetSyncSource(t, f)
         PROVE  E /\ C /\ R
    <3>1. clockOf[f] \in Objects
      BY <2>10, SlotsDiffer, TimedAlive DEF GetSyncSource
    <3>2. E /\ C
      BY <2>10 DEF GetSyncSource
    <3> QED BY <2>1, <2>10, <3>1, <3>2 DEF GetSyncSource
  <2>11. ASSUME NEW f \in Filters, NEW k \in Clocks \cup {NoObject}, SetSyncSource(t, f, k)
         PROVE  E /\ C /\ R
    <3>1. life[f] = "live"
      BY <2>11, SlotsDiffer, HeldAlive DEF SetSyncSource, Alive
    <3> QED BY <2>11, <3>1 DEF SetSyncSource
  <2>12. ASSUME NEW f \in Filters, Start(t, f) \/ Stop(t, f)
         PROVE  E /\ C /\ R
    BY <2>12 DEF Start, Stop, objectVars
  <2>13. ASSUME DllCanUnloadNow(t) \/ \E c \in Factories, fLock \in BOOLEAN : LockServer(t, c, fLock)
         PROVE  E /\ C /\ R
    BY <2>13 DEF DllCanUnloadNow, LockServer, objectVars
  <2> QED BY <1>4, <2>3, <2>4, <2>5, <2>6, <2>7, <2>8, <2>9, <2>10, <2>11, <2>12, <2>13 DEF Call
<1> QED BY <1>2, <1>3, <1>4 DEF Next

\* A filter that is being created stays unknown while other calls go on.
LEMMA FreshMove ==
    ASSUME RefInv, Balanced', NEW t \in Threads, NEW s, todo' = [todo EXCEPT ![t] = s],
           \A f \in Filters : s # Creating(f),
           \A f \in Filters : (Alive(f) /\ References(f) = 0 /\ todo[t] # Creating(f))
                                 => ref'[f] = ref[f] /\ life'[f] = life[f] /\ ~Ends(s, f),
           \A f \in Filters : s = Querying(f) => held'[t][f] = 0,
           \A u \in Threads \ {t}, f \in Filters :
              todo[u] = Creating(f) \/ todo[u] = Querying(f) => held'[u][f] = held[u][f]
    PROVE  FreshUnknown'
<1>1. \A u \in Threads : todo'[u] = IF u = t THEN s ELSE todo[u]
  BY DEF RefInv, TypeOK
<1>2. ASSUME NEW u \in Threads, NEW f \in Filters, todo'[u] = Creating(f)
      PROVE  Alive(f)' /\ References(f)' = 0 /\ \A v \in Threads : todo'[v] = Creating(f) => v = u
  <2>1. u # t /\ todo[u] = Creating(f) /\ f \in Objects
    BY <1>1, <1>2, SlotsDiffer
  <2>2. Alive(f) /\ References(f) = 0 /\ \A v \in Threads : todo[v] = Creating(f) => v = u
    BY <2>1 DEF RefInv, FreshUnknown
  <2>3. todo[t] # Creating(f)
    BY <2>1, <2>2
  <2>4. ref'[f] = ref[f] /\ life'[f] = "live" /\ ~Ends(s, f)
    BY <2>2, <2>3 DEF Alive
  <2>5. Alive(f)'
    BY <1>1, <2>2, <2>4 DEF Alive, Ending
  <2>6. References(f)' = 0
    BY <2>1, <2>2, <2>4, <2>5 DEF RefInv, Balanced
  <2> QED BY <1>1, <2>2, <2>5, <2>6
<1>3. ASSUME NEW u \in Threads, NEW f \in Filters, todo'[u] = Creating(f) \/ todo'[u] = Querying(f)
      PROVE  held'[u][f] = 0
  BY <1>1, <1>3 DEF RefInv, FreshUnknown
<1> QED BY <1>2, <1>3 DEF FreshUnknown

\* A step of an idle thread concerns what somebody holds, or what is new; and
\* another thread gains a pointer only while it is idle, too.
LEMMA IdleFresh ==
    ASSUME RefInv, Balanced', NEW t \in Threads, IdleStep(t)
    PROVE  FreshUnknown'
<1> USE DEF RefInv, TypeOK
<1>1. todo[t] = <<>> /\ todo' = [todo EXCEPT ![t] = <<>>]
  BY IdleSteps
<1>2. \A f \in Filters : <<>> # Creating(f) /\ <<>> # Querying(f) /\ ~Ends(<<>>, f)
  BY FormsSound, EndsForms
<1>3. ASSUME NEW f \in Filters, Alive(f), References(f) = 0
      PROVE  ref'[f] = ref[f] /\ life'[f] = life[f]
  <2>1. f \in Objects /\ life[f] = "live" /\ \A u \in Threads : ~Holds(u, f)
    BY <1>3, SlotsDiffer, HeldAlive DEF Alive
  <2>2. \A e \in Enums : life[e] = "live" => target[e] # f
    BY <1>3, EnumeratedAlive
  <2>3. ASSUME NEW e \in Enums, Holds(t, e)
        PROVE  target[e] # f
    BY <2>2, <2>3, SlotsDiffer, HeldAlive DEF Alive
  <2>4. ASSUME NEW g \in Filters, NEW e \in Enums, NewEnum(t, g, e), g # f
        PROVE  ref'[f] = ref[f] /\ life'[f] = life[f]
    BY <2>1, <2>4, SlotsDiffer DEF NewEnum
  <2>5. CASE \E c \in Factories : DllGetClassObject(t, c) \/ \E fLock \in BOOLEAN : LockServer(t, c, fLock)
    BY <2>1, <2>5, SlotsDiffer DEF DllGetClassObject, LockServer, objectVars
  <2>6. CASE \E u \in Threads, o \in Objects : AddRef(t, u, o)
    BY <2>1, <2>6 DEF AddRef
  <2>7. CASE \E g \in Filters, e \in Enums : Enumerate(t, g, e)
    BY <2>1, <2>4, <2>7 DEF Enumerate
  <2>8. CASE \E g \in Filters : GetSyncSource(t, g) \/ Start(t, g) \/ Stop(t, g)
    BY <2>1, <2>8, SlotsDiffer DEF GetSyncSource, Start, Stop, objectVars
  <2>9. CASE \E e \in Enums : NextPin(t, e)
    BY <2>1, <2>3, <2>9 DEF NextPin
  <2>10. CASE \E e, new \in Enums : Clone(t, e, new)
    <3>1. PICK e \in Enums, new \in Enums : Clone(t, e, new)
      BY <2>10
    <3>2. target[e] \in Filters /\ target[e] # f
      BY <2>3, <3>1, SlotsDiffer, HeldAlive, EnumeratedAlive DEF Clone, Alive
    <3> QED BY <2>4, <3>1, <3>2 DEF Clone
  <2> QED BY <2>5, <2>6, <2>7, <2>8, <2>9, <2>10 DEF IdleStep
<1>4. ASSUME NEW u \in Threads \ {t}, NEW f \in Filters, todo[u] # <<>>
      PROVE  held'[u][f] = held[u][f]
  <2>1. f \in Objects
    BY SlotsDiffer
  <2>2. ASSUME NEW v \in Threads, v # u, NEW o, Gain(v, o)
        PROVE  held'[u][f] = held[u][f]
    BY <2>1, <2>2 DEF Gain
  <2>3. CASE \E v \in Threads, o \in Objects : AddRef(t, v, o)
    BY <1>4, <2>2, <2>3 DEF AddRef, Idle
  <2>4. CASE \E o : Gain(t, o)
    BY <2>2, <2>4
  <2>5. CASE UNCHANGED held
    BY <2>5
  <2> QED BY <2>3, <2>4, <2>5 DEF IdleStep, DllGetClassObject, LockServer, Enumerate, NewEnum, GetSyncSource, Start,
             Stop, NextPin, Clone
<1>5. \A u \in Threads \ {t}, f \in Filters :
         todo[u] = Creating(f) \/ todo[u] = Querying(f) => held'[u][f] = held[u][f]
  BY <1>2, <1>4
<1> HIDE DEF RefInv, TypeOK
<1> QED BY <1>1, <1>2, <1>3, <1>5, FreshMove

LEMMA FreshKept ==
    ASSUME RefInv, [Next]_vars, Balanced'
    PROVE  FreshUnknown'
<1>1. CASE UNCHANGED vars
  <2>1. \A f \in Filters : (Alive(f)' <=> Alive(f)) /\ f \in Objects
    BY <1>1, SlotsDiffer DEF vars, objectVars, Alive, Ending
  <2>2. \A f \in Filters : Alive(f) /\ References(f) = 0 => References(f)' = 0
    BY <1>1, <2>1 DEF vars, objectVars, RefInv, Balanced
  <2> QED BY <1>1, <2>1, <2>2 DEF vars, RefInv, FreshUnknown
<1>2. ASSUME NEW f \in Filters, NEW a
      PROVE  /\ <<>> # Creating(f) /\ <<>> # Querying(f)
             /\ \A o : Only(a, o) # Creating(f) /\ Only(a, o) # Querying(f)
  BY FormsSound, FormsDiffer
<1>3. ASSUME NEW t \in Threads, Continue(t)
      PROVE  FreshUnknown'
  <2>1. ASSUME NEW f \in Filters, Wrap(t, f)
        PROVE  FreshUnknown'
    <3>1. todo[t] = Creating(f) /\ todo' = [todo EXCEPT ![t] = Querying(f)] /\ UNCHANGED <<life, held>>
          /\ ref' = [ref EXCEPT ![f] = @ + 1]
      BY <2>1, DoingForm, ThenForm DEF Wrap, RefInv
    <3>2. held'[t][f] = 0
      BY <3>1 DEF RefInv, FreshUnknown
    <3>3. \A g \in Filters : Querying(f) # Creating(g) /\ ~Ends(Querying(f), g) /\ (Querying(f) = Querying(g) => f = g)
      BY FormsDiffer, EndsForms
    <3>4. \A g \in Filters : todo[t] # Creating(g) => ref'[g] = ref[g]
      BY <3>1, SlotsDiffer DEF RefInv, TypeOK
    <3> QED BY <3>1, <3>2, <3>3, <3>4, FreshMove
  <2>2. ASSUME NEW f \in Filters, Query(t, f)
        PROVE  FreshUnknown'
    <3>1. todo[t] = Querying(f) /\ todo' = [todo EXCEPT ![t] = Only("release", f)] /\ UNCHANGED life /\ f \in Objects
      BY <2>2, SlotsDiffer, DoingForm, ThenForm DEF Query, RefInv
    <3>2. References(f) # 0
      <4>1. GivesBack(todo[t], f)
        BY <3>1, FormsGiveBack
      <4> QED BY <3>1, <4>1, GivenAlive
    <3>3. ASSUME NEW g \in Filters, References(g) = 0
          PROVE  ref'[g] = ref[g]
      BY <2>2, <3>2, <3>3, SlotsDiffer DEF Query, RefInv, TypeOK
    <3>4. ASSUME NEW u \in Threads \ {t}, NEW g \in Filters
          PROVE  held'[u][g] = held[u][g]
      BY <2>2, <3>4, SlotsDiffer DEF Query, Gain, RefInv, TypeOK
    <3>5. \A g \in Filters : ~Ends(Only("release", f), g) /\ Only("release", f) # Creating(g) /\ Only("release", f) # Querying(g)
      BY <1>2, EndsForms
    <3> QED BY <3>1, <3>3, <3>4, <3>5, FreshMove
  <2>3. ASSUME NEW f \in Filters, DestroyPin(t, f)
        PROVE  FreshUnknown'
    <3>1. todo[t] = Only("destroy", f) /\ todo' = [todo EXCEPT ![t] = Only("members", f)]
          /\ UNCHANGED <<life, ref, held>>
      BY <2>3, DoingForm, ThenForm DEF DestroyPin, RefInv, objectVars
    <3>2. Ending(f)
      BY <3>1 DEF Ends, Ending
    <3>3. \A g \in Filters : Alive(g) => ~Ends(Only("members", f), g)
      BY <3>2, EndsForms DEF Alive
    <3>4. \A g \in Filters : Only("members", f) # Creating(g) /\ Only("members", f) # Querying(g)
      BY <1>2
    <3> QED BY <3>1, <3>3, <3>4, FreshMove
  <2>4. ASSUME NEW f \in Filters, DestroyFilter(t, f)
        PROVE  FreshUnknown'
    <3> DEFINE s == IF clockOf[f] = NoObject THEN <<>> ELSE Only("release", clockOf[f])
    <3>1. todo[t] = Only("members", f) /\ life' = [life EXCEPT ![f] = "gone"] /\ UNCHANGED <<ref, held>>
      BY <2>4, DoingForm DEF DestroyFilter, RefInv
    <3>2. todo' = [todo EXCEPT ![t] = s]
      <4>1. CASE clockOf[f] = NoObject
        BY <2>4, <3>1, <4>1, ThenForm DEF DestroyFilter, RefInv
      <4>2. CASE clockOf[f] # NoObject
        BY <2>4, <3>1, <4>2, ThenForm DEF DestroyFilter, RefInv
      <4> QED BY <4>1, <4>2
    <3>3. ~Alive(f)
      BY <3>1 DEF Ends, Ending, Alive
    <3>4. \A g \in Filters : Alive(g) => life'[g] = life[g]
      BY <3>1, <3>3, SlotsDiffer DEF RefInv, TypeOK
    <3>5. \A g \in Filters : ~Ends(s, g) /\ s # Creating(g) /\ s # Querying(g)
      BY <1>2, EndsForms
    <3> HIDE DEF s
    <3> QED BY <3>1, <3>2, <3>4, <3>5, FreshMove
  <2>5. ASSUME NEW o \in Objects, Release(t, o)
        PROVE  FreshUnknown'
    <3> DEFINE s == IF ref[o] = 1 THEN Only("destroy", o) ELSE <<>>
    <3>1. todo[t] = Only("release", o) /\ UNCHANGED <<life, held>>
      BY <2>5, DoingForm DEF Release, RefInv
    <3>2. todo' = [todo EXCEPT ![t] = s]
      <4>1. CASE ref[o] = 1
        BY <2>5, <3>1, <4>1, ThenForm DEF Release, RefInv
      <4>2. CASE ref[o] # 1
        BY <2>5, <3>1, <4>2, ThenForm DEF Release, RefInv
      <4> QED BY <4>1, <4>2
    <3>3. References(o) # 0
      BY <3>1, FormsGiveBack, GivenAlive
    <3>4. ASSUME NEW g \in Filters, References(g) = 0
          PROVE  ref'[g] = ref[g] /\ ~Ends(s, g)
      <4>1. g # o
        BY <3>3, <3>4
      <4>2. ref'[g] = ref[g]
        BY <2>5, <4>1, SlotsDiffer DEF Release, RefInv, TypeOK
      <4> QED BY <4>1, <4>2, EndsForms
    <3>5. \A g \in Filters : s # Creating(g) /\ s # Querying(g)
      BY <1>2
    <3> HIDE DEF s
    <3> QED BY <3>1, <3>2, <3>4, <3>5, FreshMove
  <2>6. ASSUME NEW o \in Objects, Destroy(t, o)
        PROVE  FreshUnknown'
    <3>1. todo[t] = Only("destroy", o) /\ todo' = [todo EXCEPT ![t] = <<>>] /\ UNCHANGED <<ref, held>>
          /\ \A g \in Filters : life'[g] = life[g]
      BY <2>6, SlotsDiffer, DoingForm, ThenForm DEF Destroy, RefInv, TypeOK
    <3>2. \A g \in Filters : ~Ends(<<>>, g) /\ <<>> # Creating(g) /\ <<>> # Querying(g)
      BY <1>2, EndsForms
    <3> QED BY <3>1, <3>2, FreshMove
  <2>7. ASSUME NEW e \in Enums, DestroyEnum(t, e)
        PROVE  FreshUnknown'
    <3>1. todo[t] = Only("destroy", e) /\ todo' = [todo EXCEPT ![t] = Only("release", target[e])]
          /\ UNCHANGED <<ref, held>>
      BY <2>7, DoingForm, ThenForm DEF DestroyEnum, RefInv
    <3>2. \A g \in Filters : life'[g] = life[g]
      BY <2>7, SlotsDiffer DEF DestroyEnum, RefInv, TypeOK
    <3>3. \A g \in Filters : ~Ends(Only("release", target[e]), g) /\ Only("release", target[e]) # Creating(g) /\ Only("release", target[e]) # Querying(g)
      BY <1>2, EndsForms
    <3> QED BY <3>1, <3>2, <3>3, FreshMove
  <2>8. ASSUME ObjectsActive(t)
        PROVE  FreshUnknown'
    <3>1. todo' = [todo EXCEPT ![t] = <<>>] /\ UNCHANGED <<life, ref, held>>
      BY <2>8, DoingForm, ThenForm DEF ObjectsActive, RefInv, objectVars
    <3>2. \A g \in Filters : ~Ends(<<>>, g) /\ <<>> # Creating(g) /\ <<>> # Querying(g)
      BY <1>2, EndsForms
    <3> QED BY <3>1, <3>2, FreshMove
  <2> QED BY <1>3, <2>1, <2>2, <2>3, <2>4, <2>5, <2>6, <2>7, <2>8 DEF Continue
<1>4. ASSUME NEW t \in Threads, Call(t)
      PROVE  FreshUnknown'
  <2>1. CASE IdleStep(t)
    BY <2>1, IdleFresh
  <2>2. ASSUME NEW c \in Factories, NEW f \in Filters, CreateInstance(t, c, f)
        PROVE  FreshUnknown'
    <3>1. todo[t] = <<>> /\ todo' = [todo EXCEPT ![t] = Creating(f)] /\ life[f] = "none" /\ UNCHANGED held
          /\ life' = [life EXCEPT ![f] = "live"] /\ ref' = [ref EXCEPT ![f] = 0] /\ f \in Objects
      BY <2>2, SlotsDiffer DEF CreateInstance, NewFilter, Creating, Idle
    <3>2. Alive(f)' /\ References(f)' = 0
      BY <2>2, CreateBalanced
    <3>3. \A u \in Threads : todo'[u] = IF u = t THEN Creating(f) ELSE todo[u]
      BY <3>1 DEF RefInv, TypeOK
    <3>4. ~Alive(f) /\ held[t][f] = 0
      <4>1. ~Alive(f)
        BY <3>1 DEF Alive
      <4>2. ~Holds(t, f)
        BY <3>1, <4>1, HeldAlive
      <4>3. held[t][f] \in 0..MaxHeld + 1
        BY <3>1 DEF RefInv, TypeOK
      <4> QED BY <4>1, <4>2, <4>3, LifetimeAssumption DEF Holds
    <3>5. \A g \in Filters : (Creating(f) = Creating(g) => f = g) /\ Creating(f) # Querying(g) /\ ~Ends(Creating(f), g)
      BY FormsDiffer, EndsForms
    <3>6. ASSUME NEW u \in Threads, NEW g \in Filters, todo'[u] = Creating(g)
          PROVE  Alive(g)' /\ References(g)' = 0 /\ \A v \in Threads : todo'[v] = Creating(g) => v = u
      <4>1. CASE u = t
        <5>1. g = f
          BY <3>3, <3>5, <3>6, <4>1
        <5>2. \A v \in Threads : todo[v] # Creating(f)
          BY <3>4 DEF RefInv, FreshUnknown
        <5> QED BY <3>2, <3>3, <4>1, <5>1, <5>2
      <4>2. CASE u # t
        <5>1. todo[u] = Creating(g) /\ Alive(g) /\ References(g) = 0 /\ g # f /\ g \in Objects
              /\ \A v \in Threads : todo[v] = Creating(g) => v = u
          BY <3>3, <3>4, <3>6, <4>2, SlotsDiffer DEF RefInv, FreshUnknown
        <5>2. ref'[g] = ref[g] /\ life'[g] = life[g]
          BY <3>1, <5>1 DEF RefInv, TypeOK
        <5>3. Alive(g)'
          BY <3>3, <3>5, <5>1, <5>2 DEF Alive, Ending
        <5>4. References(g)' = 0
          BY <5>1, <5>2, <5>3 DEF RefInv, Balanced
        <5> QED BY <3>3, <3>5, <5>1, <5>3, <5>4
      <4> QED BY <4>1, <4>2
    <3>7. ASSUME NEW u \in Threads, NEW g \in Filters, todo'[u] = Creating(g) \/ todo'[u] = Querying(g)
          PROVE  held'[u][g] = 0
      BY <3>1, <3>3, <3>4, <3>5, <3>7 DEF RefInv, FreshUnknown
    <3> QED BY <3>6, <3>7 DEF FreshUnknown
  <2>3. ASSUME NEW o \in Objects, CallRelease(t, o)
        PROVE  FreshUnknown'
    <3>1. todo' = [todo EXCEPT ![t] = Only("release", o)] /\ UNCHANGED <<life, ref>>
      BY <2>3 DEF CallRelease, Only, objectVars
    <3>2. \A u \in Threads \ {t}, g \in Filters : held'[u][g] = held[u][g]
      BY <2>3 DEF CallRelease, RefInv, TypeOK
    <3>3. \A g \in Filters : ~Ends(Only("release", o), g) /\ Only("release", o) # Creating(g) /\ Only("release", o) # Querying(g)
      BY <1>2, EndsForms
    <3> QED BY <3>1, <3>2, <3>3, FreshMove
  <2>4. ASSUME NEW f \in Filters, NEW k \in Clocks \cup {NoObject}, SetSyncSource(t, f, k)
        PROVE  FreshUnknown'
    <3> DEFINE s == IF clockOf[f] = NoObject THEN <<>> ELSE Only("release", clockOf[f])
    <3>1. UNCHANGED <<life, held>> /\ todo' = [todo EXCEPT ![t] = s]
      BY <2>4 DEF SetSyncSource, Only
    <3>2. \A g \in Filters : ref'[g] = ref[g]
      BY <2>4, SlotsDiffer DEF SetSyncSource, RefInv, TypeOK
    <3>3. \A g \in Filters : ~Ends(s, g) /\ s # Creating(g) /\ s # Querying(g)
      BY <1>2, EndsForms
    <3> HIDE DEF s
    <3> QED BY <3>1, <3>2, <3>3, FreshMove
  <2>5. ASSUME DllCanUnloadNow(t)
        PROVE  FreshUnknown'
    <3>1. todo' = [todo EXCEPT ![t] = Only("objects", NoObject)] /\ UNCHANGED <<life, ref, held>>
      BY <2>5 DEF DllCanUnloadNow, Only, objectVars
    <3>2. \A g \in Filters : ~Ends(Only("objects", NoObject), g) /\ Only("objects", NoObject) # Creating(g) /\ Only("objects", NoObject) # Querying(g)
      BY <1>2, EndsForms
    <3> QED BY <3>1, <3>2, FreshMove
  <2> QED BY <1>4, <2>1, <2>2, <2>3, <2>4, <2>5 DEF Call, IdleStep
<1> QED BY <1>1, <1>3, <1>4 DEF Next

-----------------------------------------------------------------------------
(* The counters of the DLL: m_cObjects counts the factories, the filters,  *)
(* and the pins of the filters that have not deleted them; m_cLocked the   *)
(* threads that have locked.                                               *)

LiveFactories == {c \in Factories : life[c] = "live"}

LiveFilters == {f \in Filters : life[f] = "live"}

LivePins == {f \in Filters : life[f] = "live" /\ \A t \in Threads : todo[t] # Only("members", f)}

LockingThreads == {t \in Threads : locks[t] = 1}

CountersSound ==
    /\ m_cObjects = Cardinality(LiveFactories) + Cardinality(LiveFilters) + Cardinality(LivePins)
    /\ locked = Cardinality(LockingThreads)

LEMMA CountersTyped ==
    /\ IsFiniteSet(LiveFactories) /\ IsFiniteSet(LiveFactories') /\ IsFiniteSet(LiveFilters) /\ IsFiniteSet(LiveFilters')
    /\ IsFiniteSet(LivePins) /\ IsFiniteSet(LivePins') /\ IsFiniteSet(LockingThreads) /\ IsFiniteSet(LockingThreads')
    /\ Cardinality(LiveFactories) \in Nat /\ Cardinality(LiveFilters) \in Nat /\ Cardinality(LivePins) \in Nat
    /\ Cardinality(LockingThreads) \in Nat
    /\ Cardinality(LiveFactories') \in Nat /\ Cardinality(LiveFilters') \in Nat /\ Cardinality(LivePins') \in Nat
    /\ Cardinality(LockingThreads') \in Nat
<1>1. IsFiniteSet(Factories) /\ IsFiniteSet(Filters) /\ IsFiniteSet(Threads)
  BY SlotsDiffer, LifetimeAssumption, FS_Subset
<1>2. LiveFactories \subseteq Factories /\ LiveFactories' \subseteq Factories
  BY DEF LiveFactories
<1>3. LiveFilters \subseteq Filters /\ LiveFilters' \subseteq Filters
  BY DEF LiveFilters
<1>4. LivePins \subseteq Filters /\ LivePins' \subseteq Filters
  BY DEF LivePins
<1>5. LockingThreads \subseteq Threads /\ LockingThreads' \subseteq Threads
  BY DEF LockingThreads
<1>6. IsFiniteSet(LiveFactories) /\ IsFiniteSet(LiveFactories')
  BY <1>1, <1>2, FS_Subset
<1>7. IsFiniteSet(LiveFilters) /\ IsFiniteSet(LiveFilters')
  BY <1>1, <1>3, FS_Subset
<1>8. IsFiniteSet(LivePins) /\ IsFiniteSet(LivePins')
  BY <1>1, <1>4, FS_Subset
<1>9. IsFiniteSet(LockingThreads) /\ IsFiniteSet(LockingThreads')
  BY <1>1, <1>5, FS_Subset
<1> QED BY <1>6, <1>7, <1>8, <1>9, FS_CardinalityType

\* The same objects live, and no pin goes.
LEMMA CountersSame ==
    ASSUME CountersSound, UNCHANGED <<m_cObjects, locked, locks>>, \A o \in Counted : life'[o] = "live" <=> life[o] = "live",
           \A t \in Threads, f \in Filters : todo'[t] = Only("members", f) <=> todo[t] = Only("members", f)
    PROVE  CountersSound'
<1>1. LiveFactories' = LiveFactories /\ LiveFilters' = LiveFilters
  BY DEF LiveFactories, LiveFilters, Counted
<1>2. LivePins' = LivePins
  BY DEF LivePins, Counted
<1>3. LockingThreads' = LockingThreads
  BY DEF LockingThreads
<1> QED BY <1>1, <1>2, <1>3 DEF CountersSound

LEMMA CountersKept ==
    ASSUME RefInv, CountersSound, [Next]_vars
    PROVE  CountersSound'
<1> USE DEF RefInv, TypeOK
<1>1. ASSUME NEW f
      PROVE  <<>> # Only("members", f) /\ \A g : Creating(f) # Only("members", g) /\ Querying(f) # Only("members", g)
  <2>1. <<>> # Only("members", f)
    BY FormsSound
  <2>2. ASSUME NEW g
        PROVE  Creating(f) # Only("members", g) /\ Querying(f) # Only("members", g)
    BY FormsDiffer
  <2> QED BY <2>1, <2>2
<1>2. \A f, g, a : Only(a, f) = Only("members", g) => a = "members" /\ f = g
  BY FormsDiffer
<1>3. ASSUME NEW t \in Threads, NEW s, todo' = [todo EXCEPT ![t] = s],
             \A f : s # Only("members", f) /\ todo[t] # Only("members", f)
      PROVE  \A u \in Threads, f \in Filters : todo'[u] = Only("members", f) <=> todo[u] = Only("members", f)
  BY <1>3
<1>4. CASE UNCHANGED vars
  BY <1>4, CountersSame DEF vars, objectVars, dllVars
<1>5. ASSUME NEW t \in Threads, Continue(t)
      PROVE  CountersSound'
  <2>1. ASSUME NEW f \in Filters, Wrap(t, f)
        PROVE  CountersSound'
    <3>1. todo[t] = Creating(f) /\ todo' = [todo EXCEPT ![t] = Querying(f)]
      BY <2>1, DoingForm, ThenForm DEF Wrap
    <3>2. \A g : Querying(f) # Only("members", g) /\ todo[t] # Only("members", g)
      BY <1>1, <3>1
    <3>3. \A u \in Threads, g \in Filters : todo'[u] = Only("members", g) <=> todo[u] = Only("members", g)
      BY <1>3, <3>1, <3>2
    <3> QED BY <2>1, <3>3, CountersSame DEF Wrap, dllVars
  <2>2. ASSUME NEW f \in Filters, Query(t, f)
        PROVE  CountersSound'
    <3>1. todo[t] = Querying(f) /\ todo' = [todo EXCEPT ![t] = Only("release", f)]
      BY <2>2, DoingForm, ThenForm DEF Query
    <3>2. \A g : Only("release", f) # Only("members", g) /\ todo[t] # Only("members", g)
      BY <1>1, <1>2, <3>1
    <3>3. \A u \in Threads, g \in Filters : todo'[u] = Only("members", g) <=> todo[u] = Only("members", g)
      BY <1>3, <3>1, <3>2
    <3> QED BY <2>2, <3>3, CountersSame DEF Query, dllVars
  <2>3. ASSUME NEW f \in Filters, DestroyPin(t, f)
        PROVE  CountersSound'
    <3>1. todo[t] = Only("destroy", f) /\ todo' = [todo EXCEPT ![t] = Only("members", f)] /\ m_cObjects' = m_cObjects - 1
          /\ UNCHANGED <<life, locked, locks>> /\ f \in Objects
      BY <2>3, SlotsDiffer, DoingForm, ThenForm DEF DestroyPin, objectVars
    <3>2. \A u \in Threads : Ends(todo[u], f) => u = t
      BY <3>1 DEF CallsSound, Ends
    <3>3. \A u \in Threads : todo[u] # Only("members", f)
      <4>1. Only("destroy", f) # Only("members", f)
        BY <1>2
      <4> QED BY <3>1, <3>2, <4>1 DEF Ends
    <3>4. life[f] = "live"
      BY <3>1 DEF CallsSound, Ending, Ends
    <3>5. f \in LivePins
      BY <3>3, <3>4 DEF LivePins
    <3>6. LivePins' = LivePins \ {f}
      <4>1. \A g : todo[t] # Only("members", g)
        BY <1>2, <3>1
      <4>2. \A g : Only("members", f) = Only("members", g) => f = g
        BY <1>2
      <4> QED BY <3>1, <4>1, <4>2 DEF LivePins
    <3>7. Cardinality(LivePins') = Cardinality(LivePins) - 1
      BY <3>5, <3>6, CountersTyped, OneLess
    <3>8. LiveFactories' = LiveFactories /\ LiveFilters' = LiveFilters /\ LockingThreads' = LockingThreads
      BY <3>1 DEF LiveFactories, LiveFilters, LockingThreads
    <3> QED BY <3>1, <3>7, <3>8, CountersTyped DEF CountersSound
  <2>4. ASSUME NEW f \in Filters, DestroyFilter(t, f)
        PROVE  CountersSound'
    <3> DEFINE s == IF clockOf[f] = NoObject THEN <<>> ELSE Only("release", clockOf[f])
    <3>1. todo[t] = Only("members", f) /\ life' = [life EXCEPT ![f] = "gone"] /\ m_cObjects' = m_cObjects - 1
          /\ UNCHANGED <<locked, locks>> /\ f \in Objects /\ f \notin Factories
      BY <2>4, SlotsDiffer, DoingForm DEF DestroyFilter
    <3>2. todo' = [todo EXCEPT ![t] = s]
      <4>1. CASE clockOf[f] = NoObject
        BY <2>4, <3>1, <4>1, ThenForm DEF DestroyFilter
      <4>2. CASE clockOf[f] # NoObject
        BY <2>4, <3>1, <4>2, ThenForm DEF DestroyFilter
      <4> QED BY <4>1, <4>2
    <3>3. life[f] = "live"
      BY <3>1 DEF CallsSound, Ending, Ends
    <3>4. f \in LiveFilters /\ LiveFilters' = LiveFilters \ {f}
      BY <3>1, <3>3, SlotsDiffer DEF LiveFilters
    <3>5. \A g : s # Only("members", g)
      BY <1>1, <1>2
    <3> HIDE DEF s
    <3>6. \A g : todo[t] = Only("members", g) => g = f
      BY <1>2, <3>1
    <3>7. LivePins' = LivePins
      BY <3>1, <3>2, <3>5, <3>6, SlotsDiffer DEF LivePins
    <3>8. Cardinality(LiveFilters') = Cardinality(LiveFilters) - 1
      BY <3>4, CountersTyped, OneLess
    <3>9. LiveFactories' = LiveFactories /\ LockingThreads' = LockingThreads
      BY <3>1, SlotsDiffer DEF LiveFactories, LockingThreads
    <3> QED BY <3>1, <3>7, <3>8, <3>9, CountersTyped DEF CountersSound
  <2>5. ASSUME NEW o \in Objects, Release(t, o)
        PROVE  CountersSound'
    <3> DEFINE s == IF ref[o] = 1 THEN Only("destroy", o) ELSE <<>>
    <3>1. todo[t] = Only("release", o)
      BY <2>5, DoingForm DEF Release
    <3>2. todo' = [todo EXCEPT ![t] = s]
      <4>1. CASE ref[o] = 1
        BY <2>5, <3>1, <4>1, ThenForm DEF Release
      <4>2. CASE ref[o] # 1
        BY <2>5, <3>1, <4>2, ThenForm DEF Release
      <4> QED BY <4>1, <4>2
    <3>3. \A g : s # Only("members", g) /\ todo[t] # Only("members", g)
      BY <1>1, <1>2, <3>1
    <3> HIDE DEF s
    <3> QED BY <2>5, <1>3, <3>2, <3>3, CountersSame DEF Release, dllVars
  <2>6. ASSUME NEW o \in Objects, Destroy(t, o)
        PROVE  CountersSound'
    <3>1. todo[t] = Only("destroy", o) /\ todo' = [todo EXCEPT ![t] = <<>>] /\ life' = [life EXCEPT ![o] = "gone"]
          /\ m_cObjects' = m_cObjects - (IF o \in Factories THEN 1 ELSE 0) /\ UNCHANGED <<locked, locks>>
          /\ o \notin Filters /\ o \notin Enums
      BY <2>6, SlotsDiffer, DoingForm, ThenForm DEF Destroy
    <3>2. \A g : <<>> # Only("members", g) /\ todo[t] # Only("members", g)
      BY <1>1, <1>2, <3>1
    <3>3. \A u \in Threads, g \in Filters : todo'[u] = Only("members", g) <=> todo[u] = Only("members", g)
      BY <1>3, <3>1, <3>2
    <3>4. LivePins' = LivePins /\ LiveFilters' = LiveFilters /\ LockingThreads' = LockingThreads
      BY <3>1, <3>3, SlotsDiffer DEF LivePins, LiveFilters, LockingThreads
    <3>5. life[o] = "live"
      BY <3>1 DEF CallsSound, Ending, Ends
    <3>6. CASE o \in Factories
      <4>1. o \in LiveFactories /\ LiveFactories' = LiveFactories \ {o}
        BY <3>1, <3>5, <3>6, SlotsDiffer DEF LiveFactories
      <4>2. Cardinality(LiveFactories') = Cardinality(LiveFactories) - 1
        BY <4>1, CountersTyped, OneLess
      <4> QED BY <3>1, <3>4, <3>6, <4>2, CountersTyped DEF CountersSound
    <3>7. CASE o \notin Factories
      <4>1. LiveFactories' = LiveFactories
        BY <3>1, <3>7, SlotsDiffer DEF LiveFactories
      <4> QED BY <3>1, <3>4, <3>7, <4>1, CountersTyped DEF CountersSound
    <3> QED BY <3>6, <3>7
  <2>7. ASSUME NEW e \in Enums, DestroyEnum(t, e)
        PROVE  CountersSound'
    <3>1. todo[t] = Only("destroy", e) /\ todo' = [todo EXCEPT ![t] = Only("release", target[e])]
      BY <2>7, DoingForm, ThenForm DEF DestroyEnum
    <3>2. \A g : Only("release", target[e]) # Only("members", g) /\ todo[t] # Only("members", g)
      BY <1>2, <3>1
    <3>3. \A o \in Counted : life'[o] = life[o]
      BY <2>7, SlotsDiffer DEF DestroyEnum, Counted
    <3> QED BY <2>7, <1>3, <3>1, <3>2, <3>3, CountersSame DEF DestroyEnum, dllVars
  <2>8. ASSUME ObjectsActive(t)
        PROVE  CountersSound'
    <3>1. todo[t] = Only("objects", NoObject) /\ todo' = [todo EXCEPT ![t] = <<>>]
      BY <2>8, DoingForm, ThenForm DEF ObjectsActive
    <3>2. \A g : <<>> # Only("members", g) /\ todo[t] # Only("members", g)
      BY <1>1, <1>2, <3>1
    <3> QED BY <2>8, <1>3, <3>1, <3>2, CountersSame DEF ObjectsActive, objectVars
  <2> QED BY <1>5, <2>1, <2>2, <2>3, <2>4, <2>5, <2>6, <2>7, <2>8 DEF Continue
<1>6. ASSUME NEW t \in Threads, Call(t)
      PROVE  CountersSound'
  <2>1. ASSUME NEW c \in Factories, DllGetClassObject(t, c)
        PROVE  CountersSound'
    <3>1. life[c] = "none" /\ life' = [life EXCEPT ![c] = "live"] /\ m_cObjects' = m_cObjects + 1
          /\ UNCHANGED <<locked, locks, todo>> /\ c \notin Filters
      BY <2>1, SlotsDiffer DEF DllGetClassObject
    <3>2. c \notin LiveFactories /\ LiveFactories' = LiveFactories \cup {c}
      BY <3>1, SlotsDiffer DEF LiveFactories
    <3>3. LivePins' = LivePins /\ LiveFilters' = LiveFilters /\ LockingThreads' = LockingThreads
      BY <3>1, SlotsDiffer DEF LivePins, LiveFilters, LockingThreads
    <3>4. Cardinality(LiveFactories') = Cardinality(LiveFactories) + 1
      BY <3>2, CountersTyped, OneMore
    <3> QED BY <3>1, <3>3, <3>4, CountersTyped DEF CountersSound
  <2>2. ASSUME NEW c \in Factories, NEW f \in Filters, CreateInstance(t, c, f)
        PROVE  CountersSound'
    <3>1. life[f] = "none" /\ life' = [life EXCEPT ![f] = "live"] /\ m_cObjects' = m_cObjects + 2 /\ todo[t] = <<>>
          /\ todo' = [todo EXCEPT ![t] = Creating(f)] /\ UNCHANGED <<locked, locks>> /\ f \notin Factories
          /\ f \in Objects
      BY <2>2, SlotsDiffer DEF CreateInstance, NewFilter, Creating, Idle
    <3>2. f \notin LiveFilters /\ LiveFilters' = LiveFilters \cup {f}
      BY <3>1, SlotsDiffer DEF LiveFilters
    <3>3. \A u \in Threads, g \in Filters : todo'[u] = Only("members", g) <=> todo[u] = Only("members", g)
      <4>1. \A g : Creating(f) # Only("members", g) /\ todo[t] # Only("members", g)
        BY <1>1, <3>1
      <4> QED BY <1>3, <3>1, <4>1
    <3>4. \A u \in Threads : todo[u] # Only("members", f)
      BY <3>1 DEF CallsSound, Ending, Ends
    <3>5. f \notin LivePins /\ LivePins' = LivePins \cup {f}
      BY <3>1, <3>3, <3>4, SlotsDiffer DEF LivePins
    <3>6. LiveFactories' = LiveFactories /\ LockingThreads' = LockingThreads
      BY <3>1, SlotsDiffer DEF LiveFactories, LockingThreads
    <3>7. Cardinality(LiveFilters') = Cardinality(LiveFilters) + 1
      BY <3>2, CountersTyped, OneMore
    <3>8. Cardinality(LivePins') = Cardinality(LivePins) + 1
      BY <3>5, CountersTyped, OneMore
    <3> QED BY <3>1, <3>6, <3>7, <3>8, CountersTyped DEF CountersSound
  <2>3. ASSUME NEW c \in Factories, NEW fLock \in BOOLEAN, LockServer(t, c, fLock)
        PROVE  CountersSound'
    <3>1. UNCHANGED <<m_cObjects, life, todo>>
      BY <2>3 DEF LockServer, objectVars
    <3>2. LiveFactories' = LiveFactories /\ LiveFilters' = LiveFilters /\ LivePins' = LivePins
      BY <3>1 DEF LiveFactories, LiveFilters, LivePins
    <3>3. CASE fLock
      <4>1. t \notin LockingThreads /\ LockingThreads' = LockingThreads \cup {t} /\ locked' = locked + 1
        BY <2>3, <3>3 DEF LockServer, LockingThreads
      <4>2. Cardinality(LockingThreads') = Cardinality(LockingThreads) + 1
        BY <4>1, CountersTyped, OneMore
      <4> QED BY <3>1, <3>2, <4>1, <4>2, CountersTyped DEF CountersSound
    <3>4. CASE ~fLock
      <4>1. t \in LockingThreads /\ LockingThreads' = LockingThreads \ {t} /\ locked' = locked - 1
        BY <2>3, <3>4 DEF LockServer, LockingThreads
      <4>2. Cardinality(LockingThreads') = Cardinality(LockingThreads) - 1
        BY <4>1, CountersTyped, OneLess
      <4> QED BY <3>1, <3>2, <4>1, <4>2, CountersTyped DEF CountersSound
    <3> QED BY <3>3, <3>4
  <2>4. ASSUME NEW o \in Objects, CallRelease(t, o)
        PROVE  CountersSound'
    <3>1. todo[t] = <<>> /\ todo' = [todo EXCEPT ![t] = Only("release", o)]
      BY <2>4 DEF CallRelease, Idle, Only
    <3>2. \A g : Only("release", o) # Only("members", g)
      BY <1>2
    <3> QED BY <2>4, <1>1, <1>3, <3>1, <3>2, CountersSame DEF CallRelease, objectVars, dllVars
  <2>5. ASSUME NEW f, NEW e \in Enums, NewEnum(t, f, e)
        PROVE  CountersSound'
    <3>1. \A o \in Counted : life'[o] = life[o]
      BY <2>5, SlotsDiffer DEF NewEnum, Counted
    <3> QED BY <2>5, <3>1, CountersSame DEF NewEnum, dllVars
  <2>6. ASSUME UNCHANGED <<life, dllVars, todo, locks>>
        PROVE  CountersSound'
    BY <2>6, CountersSame DEF dllVars
  <2>7. ASSUME NEW f \in Filters, NEW k \in Clocks \cup {NoObject}, SetSyncSource(t, f, k)
        PROVE  CountersSound'
    <3> DEFINE s == IF clockOf[f] = NoObject THEN <<>> ELSE Only("release", clockOf[f])
    <3>1. todo[t] = <<>> /\ todo' = [todo EXCEPT ![t] = s]
      BY <2>7 DEF SetSyncSource, Idle, Only
    <3>2. \A g : s # Only("members", g) /\ todo[t] # Only("members", g)
      BY <1>1, <1>2, <3>1
    <3> HIDE DEF s
    <3> QED BY <2>7, <1>3, <3>1, <3>2, CountersSame DEF SetSyncSource, dllVars
  <2>8. ASSUME DllCanUnloadNow(t)
        PROVE  CountersSound'
    <3>1. todo[t] = <<>> /\ todo' = [todo EXCEPT ![t] = Only("objects", NoObject)]
      BY <2>8 DEF DllCanUnloadNow, Idle, Only
    <3>2. \A g : Only("objects", NoObject) # Only("members", g)
      BY <1>2
    <3> QED BY <2>8, <1>1, <1>3, <3>1, <3>2, CountersSame DEF DllCanUnloadNow, objectVars, dllVars
  <2> QED BY <1>6, <2>1, <2>2, <2>3, <2>4, <2>5, <2>6, <2>7, <2>8 DEF Call, AddRef, Enumerate, GetSyncSource, Start, Stop,
             NextPin, Clone, objectVars
<1> QED BY <1>4, <1>5, <1>6 DEF Next

-----------------------------------------------------------------------------
(* Types, and the first state. *)

\* The forms are sequences of steps.
LEMMA CallsTyped == Calls \subseteq Seq(Todo)
<1>1. \A o \in Objects \cup {NoObject}, op \in {"wrap", "qi", "release", "destroy", "members", "objects"} :
         Do(op, o) \in Todo
  BY DEF Do, Todo
<1>2. \A f \in Filters : f \in Objects \cup {NoObject}
  BY SlotsDiffer
<1> HIDE DEF Do
<1>3. <<>> \in Seq(Todo)
  OBVIOUS
<1>4. ASSUME NEW o \in Objects \cup {NoObject}, NEW op \in {"wrap", "qi", "release", "destroy", "members", "objects"}
      PROVE  Only(op, o) \in Seq(Todo)
  BY <1>1 DEF Only
<1>5. ASSUME NEW f \in Filters
      PROVE  Creating(f) \in Seq(Todo) /\ Querying(f) \in Seq(Todo)
  <2>1. Do("wrap", f) \in Todo /\ Do("qi", f) \in Todo /\ Do("release", f) \in Todo
    BY <1>1, <1>2
  <2> QED BY <2>1 DEF Creating, Querying
<1>6. SUFFICES ASSUME NEW s \in Calls PROVE s \in Seq(Todo)
  OBVIOUS
<1>7. \/ s = <<>> \/ \E f \in Filters : s = Creating(f) \/ s = Querying(f)
      \/ \E o \in Objects \cup {NoObject}, op \in {"release", "destroy", "members", "objects"} : s = Only(op, o)
  BY <1>2 DEF Calls
<1> QED BY <1>3, <1>4, <1>5, <1>7

\* A thread that has room for a pointer, or none to the object yet.
LEMMA GainTyped ==
    ASSUME TypeOK, NEW t \in Threads, NEW o \in Objects, Gain(t, o), held[t][o] <= MaxHeld
    PROVE  held' \in [Threads -> [Objects -> 0..MaxHeld + 1]]
<1>1. held \in [Threads -> [Objects -> 0..MaxHeld + 1]] /\ MaxHeld \in Nat
  BY LifetimeAssumption DEF TypeOK
<1>2. held[t][o] + 1 \in 0..MaxHeld + 1
  BY <1>1
<1> QED BY <1>1, <1>2 DEF Gain

LEMMA TodoTyped ==
    ASSUME TypeOK, CallsSound', todo' = todo \/ \E t \in Threads : \E s : todo' = [todo EXCEPT ![t] = s]
    PROVE  todo' \in [Threads -> Seq(Todo)]
<1>1. todo' \in [Threads -> {todo'[t] : t \in Threads}]
  BY DEF TypeOK
<1>2. \A t \in Threads : todo'[t] \in Seq(Todo)
  BY CallsTyped DEF CallsSound
<1> QED BY <1>1, <1>2

\* Every action moves at most one call.
LEMMA TodoMoves ==
    ASSUME [Next]_vars
    PROVE  todo' = todo \/ \E t \in Threads : \E s : todo' = [todo EXCEPT ![t] = s]
<1>1. CASE UNCHANGED vars
  BY <1>1 DEF vars
<1>2. ASSUME NEW t \in Threads, Continue(t)
      PROVE  \E s : todo' = [todo EXCEPT ![t] = s]
  <2>1. ASSUME NEW steps, Then(t, steps)
        PROVE  \E s : todo' = [todo EXCEPT ![t] = s]
    BY <2>1 DEF Then
  <2> QED BY <1>2, <2>1 DEF Continue, Wrap, Query, DestroyPin, DestroyFilter, Release, Destroy, DestroyEnum, ObjectsActive
<1>3. ASSUME NEW t \in Threads, Call(t)
      PROVE  todo' = todo \/ \E s : todo' = [todo EXCEPT ![t] = s]
  BY <1>3 DEF Call, DllGetClassObject, CreateInstance, LockServer, CallRelease, AddRef, Enumerate, SetSyncSource,
     GetSyncSource, Start, Stop, NextPin, Clone, NewEnum, DllCanUnloadNow
<1> QED BY <1>1, <1>2, <1>3 DEF Next

\* Gone is a pointer only of what is there.
LEMMA NewHeldNothing ==
    ASSUME RefInv, NEW t \in Threads, NEW o \in Objects, life[o] = "none"
    PROVE  held[t][o] = 0
<1>1. ~Alive(o)
  BY DEF Alive
<1>2. held[t][o] \in 0..MaxHeld + 1 /\ MaxHeld \in Nat
  BY LifetimeAssumption DEF RefInv, TypeOK
<1>3. ~Holds(t, o)
  BY <1>1, HeldAlive
<1> QED BY <1>2, <1>3 DEF Holds

LEMMA TypedKept ==
    ASSUME RefInv, CountersSound, CallsSound', CountersSound', [Next]_vars
    PROVE  TypeOK'
<1>1. todo' \in [Threads -> Seq(Todo)]
  BY TodoTyped, TodoMoves DEF RefInv
<1>2. m_cObjects' \in Nat /\ locked' \in Nat
  BY CountersTyped DEF CountersSound
<1> DEFINE OO == /\ life' \in [Objects -> {"none", "live", "gone"}]
                 /\ ref' \in [Objects -> Nat]
                 /\ target' \in [Enums -> Filters \cup {NoObject}]
                 /\ clockOf' \in [Filters -> Clocks \cup {NoObject}]
                 /\ runner' \in [Filters -> Threads \cup {NoObject}]
                 /\ loaded' \in BOOLEAN
                 /\ locks' \in [Threads -> 0..1]
           HH == held' \in [Threads -> [Objects -> 0..MaxHeld + 1]]
<1>3. SUFFICES OO /\ HH
  BY <1>1, <1>2 DEF TypeOK
<1>4. TypeOK
  BY DEF RefInv
<1> USE DEF TypeOK
<1>8. ASSUME NEW x \in Objects, ref' = [ref EXCEPT ![x] = @ + 1]
      PROVE  ref' \in [Objects -> Nat]
  <2>1. ref[x] + 1 \in Nat
    BY <1>4
  <2> QED BY <1>4, <1>8, <2>1
<1>5. CASE UNCHANGED vars
  BY <1>4, <1>5 DEF vars, objectVars, dllVars
<1>6. ASSUME NEW t \in Threads, Continue(t)
      PROVE  OO /\ HH
  <2>1. ASSUME NEW f \in Filters, Wrap(t, f)
        PROVE  OO /\ HH
    BY <1>4, <1>8, <2>1, SlotsDiffer DEF Wrap, dllVars
  <2>2. ASSUME NEW f \in Filters, Query(t, f)
        PROVE  OO /\ HH
    <3>1. f \in Objects /\ OO
      BY <1>4, <2>2, SlotsDiffer DEF Query, dllVars
    <3>2. todo[t] = Querying(f)
      BY <2>2, DoingForm DEF Query, RefInv
    <3>3. held[t][f] = 0
      BY <3>2 DEF RefInv, FreshUnknown
    <3>4. held[t][f] <= MaxHeld
      BY <3>3, LifetimeAssumption
    <3>5. CASE Gain(t, f)
      BY <1>4, <3>1, <3>4, <3>5, GainTyped
    <3>6. CASE UNCHANGED held
      BY <1>4, <3>1, <3>6
    <3> QED BY <2>2, <3>5, <3>6 DEF Query
  <2>3. ASSUME NEW f \in Filters, DestroyPin(t, f) \/ DestroyFilter(t, f)
        PROVE  OO /\ HH
    BY <1>4, <2>3 DEF DestroyPin, DestroyFilter, objectVars
  <2>4. ASSUME NEW o \in Objects, Release(t, o)
        PROVE  OO /\ HH
    <3>1. todo[t] = Only("release", o)
      BY <2>4, DoingForm DEF Release, RefInv
    <3>2. GivesBack(todo[t], o)
      BY <3>1, FormsGiveBack
    <3>3. ref[o] = References(o) /\ References(o) # 0
      BY <3>2, GivenAlive
    <3>4. ref[o] \in Nat /\ ref[o] # 0
      BY <1>4, <3>3
    <3>5. ref[o] - 1 \in Nat
      BY <3>4
    <3> QED BY <1>4, <2>4, <3>5 DEF Release, dllVars
  <2>5. ASSUME NEW o \in Objects, Destroy(t, o)
        PROVE  OO /\ HH
    BY <1>4, <2>5 DEF Destroy
  <2>6. ASSUME NEW e \in Enums, DestroyEnum(t, e)
        PROVE  OO /\ HH
    BY <1>4, <2>6 DEF DestroyEnum, dllVars
  <2>7. ASSUME ObjectsActive(t)
        PROVE  OO /\ HH
    BY <1>4, <2>7 DEF ObjectsActive, objectVars
  <2> QED BY <1>6, <2>1, <2>2, <2>3, <2>4, <2>5, <2>6, <2>7 DEF Continue
<1>7. ASSUME NEW t \in Threads, Call(t)
      PROVE  OO /\ HH
  <2>1. ASSUME NEW u \in Threads, NEW o \in Objects, CanHold(u, o), Gain(u, o)
        PROVE  HH
    <3>1. held[u][o] <= MaxHeld
      BY <1>4, <2>1, LifetimeAssumption DEF CanHold
    <3> QED BY <1>4, <2>1, <3>1, GainTyped
  <2>2. ASSUME NEW u \in Threads, NEW o \in Objects, life[o] = "none", Gain(u, o)
        PROVE  HH
    <3>1. held[u][o] <= MaxHeld
      BY <2>2, NewHeldNothing, LifetimeAssumption
    <3> QED BY <1>4, <2>2, <3>1, GainTyped
  <2>3. ASSUME NEW f \in Filters, NEW e \in Enums, NewEnum(t, f, e)
        PROVE  OO /\ HH
    <3>1. HH
      BY <2>2, <2>3, SlotsDiffer DEF NewEnum
    <3>2. ref[f] + 1 \in Nat /\ f # e
      BY <1>4, SlotsDiffer
    <3> QED BY <1>4, <2>3, <3>1, <3>2 DEF NewEnum, dllVars
  <2>4. ASSUME NEW c \in Factories, DllGetClassObject(t, c)
        PROVE  OO /\ HH
    <3>1. HH
      BY <2>2, <2>4, SlotsDiffer DEF DllGetClassObject
    <3> QED BY <1>4, <2>4, <3>1 DEF DllGetClassObject
  <2>5. ASSUME NEW c \in Factories, NEW f \in Filters, CreateInstance(t, c, f)
        PROVE  OO /\ HH
    BY <1>4, <2>5 DEF CreateInstance, NewFilter
  <2>6. ASSUME NEW c \in Factories, NEW fLock \in BOOLEAN, LockServer(t, c, fLock)
        PROVE  OO /\ HH
    BY <1>4, <2>6 DEF LockServer, objectVars
  <2>7. ASSUME NEW o \in Objects, CallRelease(t, o)
        PROVE  OO /\ HH
    <3>1. held[t][o] - 1 \in 0..MaxHeld + 1
      BY <1>4, <2>7, LifetimeAssumption DEF CallRelease, Holds
    <3> QED BY <1>4, <2>7, <3>1 DEF CallRelease, objectVars, dllVars
  <2>8. ASSUME NEW o \in Objects, NEW u \in Threads, AddRef(t, u, o)
        PROVE  OO /\ HH
    <3>1. HH
      BY <2>1, <2>8 DEF AddRef
    <3> QED BY <1>4, <2>8, <3>1 DEF AddRef, dllVars
  <2>9. ASSUME NEW f \in Filters, NEW k \in Clocks \cup {NoObject}, SetSyncSource(t, f, k)
        PROVE  OO /\ HH
    <3>1. \A x \in Objects : ref[x] + 1 \in Nat
      BY <1>4
    <3> QED BY <1>4, <2>9, <3>1 DEF SetSyncSource, dllVars
  <2>10. ASSUME NEW f \in Filters, GetSyncSource(t, f)
         PROVE  OO /\ HH
    <3>1. clockOf[f] \in Objects
      BY <2>10, SlotsDiffer, TimedAlive DEF GetSyncSource
    <3>2. HH
      BY <2>1, <2>10, <3>1 DEF GetSyncSource
    <3>3. ref' \in [Objects -> Nat]
      BY <1>8, <2>10, <3>1 DEF GetSyncSource
    <3> QED BY <1>4, <2>10, <3>2, <3>3 DEF GetSyncSource, dllVars
  <2>11. ASSUME NEW f \in Filters, Start(t, f) \/ Stop(t, f)
         PROVE  OO /\ HH
    BY <1>4, <2>11 DEF Start, Stop, objectVars, dllVars
  <2>12. ASSUME NEW e \in Enums, Holds(t, e)
         PROVE  target[e] \in Filters /\ target[e] \in Objects
    BY <2>12, SlotsDiffer, HeldAlive, EnumeratedAlive DEF Alive
  <2>13. ASSUME NEW e \in Enums, NextPin(t, e)
         PROVE  OO /\ HH
    <3>1. HH
      BY <2>1, <2>12, <2>13 DEF NextPin
    <3>2. ref' \in [Objects -> Nat]
      BY <1>8, <2>12, <2>13 DEF NextPin
    <3> QED BY <1>4, <2>13, <3>1, <3>2 DEF NextPin, dllVars
  <2>14. ASSUME NEW e \in Enums, NEW new \in Enums, Clone(t, e, new)
         PROVE  OO /\ HH
    BY <2>3, <2>12, <2>14 DEF Clone
  <2>15. ASSUME DllCanUnloadNow(t)
         PROVE  OO /\ HH
    BY <1>4, <2>15 DEF DllCanUnloadNow, objectVars, dllVars
  <2> HIDE DEF OO, HH, TypeOK
  <2> QED BY <1>7, <2>3, <2>4, <2>5, <2>6, <2>7, <2>8, <2>9, <2>10, <2>11, <2>13, <2>14, <2>15 DEF Call, Enumerate
<1> QED BY <1>5, <1>6, <1>7 DEF Next

LEMMA StartsSound ==
    ASSUME Init
    PROVE  RefInv /\ CountersSound
<1>1. PICK t \in Threads : held = [u \in Threads |-> [o \in Objects |-> IF u = t /\ o \in Clocks THEN 1 ELSE 0]]
  BY DEF Init
<1>2. MaxHeld \in Nat /\ MaxHeld > 0
  BY LifetimeAssumption
<1>3. TypeOK
  BY <1>1, <1>2, SlotsDiffer DEF Init, TypeOK
<1>4. \A u \in Threads : todo[u] = <<>>
  BY DEF Init
<1>5. \A o \in Objects : ~Ending(o)
  BY <1>4, EndsForms DEF Ending
<1>6. CallsSound
  BY <1>4, <1>5, CallForms, EndsForms DEF CallsSound
<1>7. \A f \in Filters : f \in Objects /\ life[f] = "none" /\ clockOf[f] = NoObject /\ runner[f] = NoObject
  BY SlotsDiffer DEF Init
<1>8. HoldersSound
  BY <1>7, SlotsDiffer DEF Init, HoldersSound
<1>9. FreshUnknown
  <2>1. \A f \in Filters : <<>> # Creating(f) /\ <<>> # Querying(f)
    BY FormsSound
  <2> QED BY <1>4, <2>1 DEF FreshUnknown
<1>10. ASSUME NEW o \in Objects
       PROVE  References(o) = IF o \in Clocks THEN 1 ELSE 0
  <2>1. Enumerating(o) = {} /\ Timed(o) = {}
    BY SlotsDiffer DEF Init, Enumerating, Timed
  <2>2. Givers(o) = {}
    BY <1>4, FormsGiveBack DEF Givers
  <2>3. Cardinality(Enumerating(o)) = 0 /\ Cardinality(Timed(o)) = 0 /\ CallRefs(o) = 0
    BY <2>1, <2>2, FS_EmptySet DEF CallRefs
  <2>4. ASSUME o \notin Clocks PROVE ThreadRefs(o) = 0
    <3>1. Pointers(o) = {}
      BY <1>1, <1>2, <2>4 DEF Pointers
    <3> QED BY <3>1, FS_EmptySet DEF ThreadRefs
  <2>5. ASSUME o \in Clocks PROVE ThreadRefs(o) = 1
    <3>1. \A q \in Threads \X (1..MaxHeld + 1) : q[2] <= held[q[1]][o] <=> q = <<t, 1>>
      BY <1>1, <1>2, <2>5
    <3>2. <<t, 1>> \in Threads \X (1..MaxHeld + 1)
      BY <1>2
    <3>3. Pointers(o) = {<<t, 1>>}
      BY <3>1, <3>2 DEF Pointers
    <3> QED BY <3>3, FS_Singleton DEF ThreadRefs
  <2> QED BY <2>3, <2>4, <2>5, ReferencesTyped
<1>11. Balanced
  BY <1>5, <1>10 DEF Balanced, Alive, Init
<1>12. CountersSound
  <2>1. LiveFactories = {} /\ LiveFilters = {} /\ LivePins = {} /\ LockingThreads = {}
    BY SlotsDiffer DEF Init, LiveFactories, LiveFilters, LivePins, LockingThreads
  <2> QED BY <2>1, FS_EmptySet DEF CountersSound, Init
<1> QED BY <1>3, <1>6, <1>8, <1>9, <1>11, <1>12 DEF RefInv

\* The invariant is inductive.
LEMMA RefInvKept ==
    ASSUME RefInv, CountersSound, [Next]_vars
    PROVE  RefInv' /\ CountersSound'
<1>1. Balanced'
  BY BalancedKept
<1>2. CallsSound' /\ HoldersSound' /\ FreshUnknown' /\ CountersSound'
  BY <1>1, CallsKept, HoldersKept, FreshKept, CountersKept
<1>3. TypeOK'
  BY <1>2, TypedKept
<1> QED BY <1>1, <1>2, <1>3 DEF RefInv

LEMMA AlwaysBalanced == Spec => [](RefInv /\ CountersSound)
<1>1. Init => RefInv /\ CountersSound
  BY StartsSound
<1>2. (RefInv /\ CountersSound) /\ [Next]_vars => (RefInv /\ CountersSound)'
  BY RefInvKept
<1> QED BY <1>1, <1>2, PTL DEF Spec

-----------------------------------------------------------------------------
\* The reference rules of COM hold of every history of calls, whatever the number
\* of threads and objects: between any two steps the count of an object is the
\* number of pointers to it, nothing points to an object whose destructor has
\* begun, and the filter and the clock of a running worker thread are there.
THEOREM EveryPointerIsCounted == Spec => []ReferencesSound
<1>1. ASSUME RefInv
      PROVE  ReferencesSound
  <2>1. \A o \in Objects : BeingDestroyed(o) <=> Ending(o)
    BY <1>1, DestroyingIsEnding DEF RefInv
  <2>2. \A o \in Objects : life[o] = "live" /\ ~BeingDestroyed(o) <=> Alive(o)
    BY <2>1 DEF Alive
  <2>3. CountIsReferences
    BY <1>1, <2>2 DEF CountIsReferences, RefInv, Balanced
  <2>4. NoDanglingPointer
    BY <1>1, <2>2 DEF NoDanglingPointer, RefInv, Balanced
  <2>5. WorkerHasFilterAndClock
    <3> SUFFICES ASSUME NEW f \in Filters, runner[f] # NoObject
                 PROVE  /\ Alive(f)
                        /\ clockOf[f] # NoObject => clockOf[f] \in Objects /\ Alive(clockOf[f])
      BY <2>2, SlotsDiffer DEF WorkerHasFilterAndClock
    <3>1. runner[f] \in Threads /\ Holds(runner[f], f)
      BY <1>1 DEF RefInv, HoldersSound
    <3>2. Alive(f)
      BY <1>1, <3>1, SlotsDiffer, HeldAlive
    <3> QED BY <1>1, <3>2, SlotsDiffer, TimedAlive
  <2> QED BY <2>3, <2>4, <2>5 DEF ReferencesSound
<1>2. Spec => []RefInv
  BY AlwaysBalanced, PTL
<1> QED BY <1>1, <1>2, PTL

\* DllCanUnloadNow reads the lock count and the object count in two steps, and
\* other threads run between them: still, S_OK is answered only when there is no
\* factory, no filter, no enumerator and no pointer to one, and no call is about
\* to make or to destroy one.
THEOREM UnloadedDllIsUnused == Spec => UnloadedWhenUnused
<1>1. ASSUME RefInv, CountersSound, [Next]_vars, loaded, ~loaded'
      PROVE  /\ \A o \in Objects \ Clocks : life[o] # "live" /\ References(o) = 0
             /\ \A t \in Threads, o \in Objects \ Clocks : ~Doing(t, "qi", o) /\ ~Doing(t, "destroy", o)
  <2>1. m_cObjects = 0
    <3>1. \E t \in Threads : ObjectsActive(t)
      <4>1. ~ UNCHANGED vars
        BY <1>1 DEF vars, dllVars
      <4>2. PICK t \in Threads : Continue(t) \/ Call(t)
        BY <1>1, <4>1 DEF Next
      <4>3. ~ UNCHANGED loaded
        BY <1>1
      <4>4. ASSUME Call(t) PROVE FALSE
        BY <1>1, <4>3, <4>4 DEF Call, DllGetClassObject, CreateInstance, LockServer, CallRelease, AddRef, Enumerate,
           SetSyncSource, GetSyncSource, Start, Stop, NextPin, Clone, NewEnum, DllCanUnloadNow, dllVars
      <4>5. Continue(t) => ObjectsActive(t)
        BY <4>3 DEF Continue, Wrap, Query, DestroyPin, DestroyFilter, Release, Destroy, DestroyEnum, dllVars
      <4> QED BY <4>2, <4>4, <4>5
    <3>2. m_cObjects \in Nat /\ ~(m_cObjects > 0)
      BY <1>1, <3>1 DEF ObjectsActive, RefInv, TypeOK
    <3> QED BY <3>2
  <2>2. LiveFactories = {} /\ LiveFilters = {}
    <3>1. Cardinality(LiveFactories) = 0 /\ Cardinality(LiveFilters) = 0
      <4> DEFINE a == Cardinality(LiveFactories)
                 b == Cardinality(LiveFilters)
                 c == Cardinality(LivePins)
      <4>1. a \in Nat /\ b \in Nat /\ c \in Nat /\ a + b + c = 0
        BY <1>1, <2>1, CountersTyped DEF CountersSound
      <4> HIDE DEF a, b, c
      <4>2. a = 0 /\ b = 0
        BY <4>1
      <4> QED BY <4>2 DEF a, b
    <3> QED BY <3>1, CountersTyped, FS_EmptySet
  <2>3. \A e \in Enums : life[e] # "live"
    BY <1>1, <2>2, EnumeratedAlive DEF LiveFilters, Alive
  <2>4. ASSUME NEW o \in Objects \ Clocks
        PROVE  life[o] # "live" /\ References(o) = 0
    <3>1. life[o] # "live"
      BY <2>2, <2>3, <2>4 DEF Objects, Counted, LiveFactories, LiveFilters
    <3> QED BY <1>1, <3>1 DEF Alive, RefInv, Balanced
  <2>5. ASSUME NEW t \in Threads, NEW o \in Objects \ Clocks
        PROVE  ~Doing(t, "qi", o) /\ ~Doing(t, "destroy", o)
    <3>1. ASSUME Doing(t, "qi", o) PROVE FALSE
      <4>1. todo[t] = Querying(o)
        BY <1>1, <3>1, DoingForm DEF RefInv
      <4>2. GivesBack(todo[t], o)
        BY <4>1, FormsGiveBack
      <4>3. Alive(o)
        BY <1>1, <4>2, GivenAlive
      <4> QED BY <2>4, <4>3 DEF Alive
    <3>2. ASSUME Doing(t, "destroy", o) PROVE FALSE
      <4>1. Ends(todo[t], o)
        BY <1>1, <3>2, DoingForm DEF RefInv, Ends
      <4>2. life[o] = "live"
        BY <1>1, <4>1 DEF RefInv, CallsSound, Ending
      <4> QED BY <2>4, <4>2
    <3> QED BY <3>1, <3>2
  <2> QED BY <2>4, <2>5
<1>2. RefInv /\ CountersSound /\ [Next]_vars
         => [loaded /\ ~loaded' =>
               /\ \A o \in Objects \ Clocks : life[o] # "live" /\ References(o) = 0
               /\ \A t \in Threads, o \in Objects \ Clocks : ~Doing(t, "qi", o) /\ ~Doing(t, "destroy", o)]_vars
  BY <1>1
<1> QED BY <1>2, AlwaysBalanced, PTL DEF Spec, UnloadedWhenUnused

=============================================================================
