----------------------------- MODULE FrameSource -----------------------------
(***************************************************************************)
(* What a filter graph relies on in a live source with one output pin,     *)
(* without threads, locks, buffers or commands: how the stream of frames   *)
(* that downstream sees goes with the filter's state.                      *)
(***************************************************************************)
EXTENDS Naturals

CONSTANT FrameCap       \* frames are counted up to this

VARIABLES
    state,          \* the filter is "Stopped", "Paused" or "Running"
    linked,         \* its pin is connected
    session,        \* the stream is "closed", "open" or "ended"
    frames,         \* frames pushed in the last session
    credit          \* a frame begun while Running may still come

vars == << state, linked, session, frames, credit >>

Init ==
    /\ state = "Stopped"
    /\ linked = FALSE
    /\ session = "closed"
    /\ frames = 0
    /\ credit = FALSE

\* The pin is connected and disconnected between streams only.
Relink ==
    /\ state = "Stopped" /\ session = "closed"
    /\ linked' = ~linked
    /\ UNCHANGED << state, session, frames, credit >>

\* A stream opens on the way out of Stopped, before the filter says Paused.
Open ==
    /\ state = "Stopped" /\ linked /\ session = "closed"
    /\ session' = "open"
    /\ frames' = 0
    /\ credit' = FALSE
    /\ UNCHANGED << state, linked >>

\* A frame of a Running filter, or the one that was begun before a Pause; it
\* may be the last because downstream refuses it.
Push ==
    /\ session = "open"
    /\ state = "Running" \/ credit
    /\ frames' = IF frames < FrameCap THEN frames + 1 ELSE FrameCap
    /\ credit' = (credit /\ state = "Running")
    /\ session' \in {"open", "ended"}
    /\ UNCHANGED << state, linked >>

End ==
    /\ session = "open"
    /\ session' = "ended"
    /\ UNCHANGED << state, linked, frames, credit >>

\* Closing is part of stopping, so the filter still says Paused or Running.
Close ==
    /\ session = "ended" /\ state # "Stopped"
    /\ session' = "closed"
    /\ UNCHANGED << state, linked, frames, credit >>

Pause ==
    /\ linked => session # "closed"
    /\ state' = "Paused"
    /\ UNCHANGED << linked, session, frames, credit >>

Run ==
    /\ state # "Stopped"
    /\ linked => session # "closed"
    /\ state' = "Running"
    /\ credit' = TRUE
    /\ UNCHANGED << linked, session, frames >>

\* Stopped only after the stream is closed.
Stop ==
    /\ session = "closed"
    /\ state' = "Stopped"
    /\ UNCHANGED << linked, session, frames, credit >>

Next == Relink \/ Open \/ Push \/ End \/ Close \/ Pause \/ Run \/ Stop

Spec == Init /\ [][Next]_vars
=============================================================================
