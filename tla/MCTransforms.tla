---------------------------- MODULE MCTransforms ----------------------------
(***************************************************************************)
(* The two kinds of filters in the middle of a graph: one that copies what *)
(* it decodes (Transform), and a chain of filters that work in place on one*)
(* allocator (TransInPlace); and the window at its end (BaseWindow).  One  *)
(* run checks them one at a time: part says which, and the others stay in  *)
(* their initial states.                                                   *)
(***************************************************************************)
EXTENDS Integers, FiniteSets, Sequences, TLC

CONSTANTS MaxGap, GiveUpAfter, LateCap, Lateness    \* of Transform
CONSTANTS N, Types, MaxConnects                     \* of TransInPlace
CONSTANTS NoSender, MaxCalls, MaxEvents             \* of BaseWindow

VARIABLES
    video, inConnected, outConnected, m_State, m_bFlushing, m_bRunTimeError,
    m_bEOSDelivered, m_bSampleSkipped, m_csFilter, m_csReceive, m_nKeyFramePeriod,
    m_nFramesSinceKeyFrame, m_bSkipping, m_itrLate, m_nWaitForKey, app, flusher, streamer,
    sample, dn, source, gap, timed, stale, intact, gaveUp, lost

VARIABLES
    m_bModifiesData, supplier, sink, connected, out, in, m_bReadOnly, m_mt, pending, connects

VARIABLES
    m_bDoPostToDestroy, m_hwnd, m_hPalette, m_bActivated, window, visible, posted, deleted,
    stack, calls, events

VARIABLE part

Copying == INSTANCE Transform
InPlace == INSTANCE TransInPlace WITH source <- supplier

\* The application has a window of its own, and destroys the video window that
\* another of its threads created; the renderer streams on a third.
Shown     == {"own", "video"}
Users     == {"app", "window", "renderer"}
Owner     == "own" :> "app" @@ "video" :> "window"
Destroyer == "own" :> "app" @@ "video" :> "app"
Callers   == "own" :> {} @@ "video" :> {"app"}
Renderers == "own" :> {} @@ "video" :> {"renderer"}

Showing == INSTANCE BaseWindow WITH Windows <- Shown, Threads <- Users

ASSUME TransformsAssumption ==
    /\ Copying!TransformAssumption /\ InPlace!TransInPlaceAssumption
    /\ Showing!WindowAssumption

copyingVars ==
    << video, inConnected, outConnected, m_State, m_bFlushing, m_bRunTimeError,
       m_bEOSDelivered, m_bSampleSkipped, m_csFilter, m_csReceive, m_nKeyFramePeriod,
       m_nFramesSinceKeyFrame, m_bSkipping, m_itrLate, m_nWaitForKey, app, flusher, streamer,
       sample, dn, source, gap, timed, stale, intact, gaveUp, lost >>

inPlaceVars ==
    << m_bModifiesData, supplier, sink, connected, out, in, m_bReadOnly, m_mt, pending,
       connects >>

windowVars ==
    << m_bDoPostToDestroy, m_hwnd, m_hPalette, m_bActivated, window, visible, posted, deleted,
       stack, calls, events >>

mcVars == << part, copyingVars, inPlaceVars, windowVars >>

TransformsInit ==
    /\ part \in {"copying", "in place", "window"}
    /\ Copying!Init /\ InPlace!Init /\ Showing!Init
    /\ part # "in place" =>
          /\ supplier = CHOOSE s \in InPlace!Sources : TRUE
          /\ sink = CHOOSE s \in InPlace!Sinks : TRUE
          /\ \A f \in InPlace!Filters : m_bModifiesData[f]
    /\ part # "copying" => video /\ timed /\ m_nWaitForKey = 0
    /\ m_hwnd["own"]
    /\ part # "window" => m_bDoPostToDestroy /\ m_hwnd["video"]

TransformsNext ==
    \/ part = "copying" /\ Copying!Next /\ UNCHANGED << part, inPlaceVars, windowVars >>
    \/ part = "in place" /\ InPlace!Next /\ UNCHANGED << part, copyingVars, windowVars >>
    \/ part = "window" /\ Showing!Next /\ UNCHANGED << part, copyingVars, inPlaceVars >>

TransformsSpec ==
    /\ TransformsInit /\ [][TransformsNext]_mcVars
    /\ WF_copyingVars(part = "copying" /\ Copying!AppStep)
    /\ WF_copyingVars(part = "copying" /\ Copying!FlushStep)
    /\ WF_copyingVars(part = "copying" /\ Copying!Decodes)
    /\ WF_copyingVars(part = "copying" /\ Copying!DeliverReturns)
    /\ WF_copyingVars(part = "copying" /\ Copying!ReleaseReturns)
    /\ WF_inPlaceVars(part = "in place" /\ InPlace!Reconnect)
    /\ \A t \in Users : WF_windowVars(part = "window" /\ Showing!GoesOn(t))

------------------------------------------------------------------------------
\* A stopped or flushed filter transforms nothing more, and the video filter
\* shows only pictures it could decode (Transform).  Both ends of every link
\* know the same allocator, no filter writes to a read-only one, and once the
\* reconnects are done the chain has one type and one allocator, but for one
\* copy (TransInPlace).  A window that is destroyed by a posted message is
\* destroyed between two others (BaseWindow).
TransformsSound ==
    /\ part = "copying" => Copying!TypeOK /\ Copying!StreamingStops /\ Copying!ShowsWholePictures
    /\ part = "in place" => InPlace!TypeOK /\ InPlace!AllocatorsSound /\ InPlace!ChainAgrees
    /\ part = "window" => Showing!TypeOK /\ Showing!DestroyedBetweenMessages

\* Stop and EndFlush, which wait for Receive, return; the reconnects that the
\* in-place filters ask for peter out; and the threads that send messages to
\* each other's windows come to rest.
Busy(caller) ==
    \/ part = "copying" /\ Copying!Waits(caller)
    \/ part = "in place" /\ ~InPlace!AtRest
    \/ part = "window" /\ ~Showing!AtRest

Settled(caller) ==
    \/ part = "copying" /\ Copying!Returned(caller)
    \/ part = "in place" /\ InPlace!AtRest
    \/ part = "window" /\ Showing!AtRest

TransformsSettle == \A caller \in {"app", "flusher"} : Busy(caller) ~> Settled(caller)
==============================================================================
