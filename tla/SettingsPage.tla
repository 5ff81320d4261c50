---------------------------- MODULE SettingsPage ----------------------------
(***************************************************************************)
(* The settings dialog (ccamprops.cpp over cprop.cpp) between the pin, the *)
(* registry (utils.cpp) and the property frame that shows it               *)
(* (olepropframe.c, or the system's).  Windows come, go and change their   *)
(* size, and another process creates a pin of its own, at any time.        *)
(***************************************************************************)
EXTENDS CaptureSettings, Sequences

CONSTANTS
    DefaultRate,  \* 30
    Edits,        \* the numbers a user types
    Widths,       \* of windows
    MaxEdits      \* edits, picks and window changes in a behaviour

ASSUME PageAssumption == DefaultRate \in UINT /\ Edits \subseteq UINT /\ Widths \subseteq UINT /\ Limit > 2

VARIABLES
    m_pPageSite, m_bObjectSet, m_pCamSettings,   \* is there one?
    m_hwnd,                    \* is there a dialog?
    m_bDirty, m_bIsInitialized,
    controls,                  \* what the dialog says
    trap,                      \* the mouse is captured, the timer runs
    applying,                  \* OnApplyChanges: how much is saved; 0: not running
    registry, pin, putFailed,
    screen,
    loading, loaded,           \* another process: its load_Settings
    shown,                     \* history: the controls when last read or applied
    asked,                     \* history: the last settings given to put_Settings
    saved, overlapped,         \* history: the last complete save; a save during the load
    edits

page == <<m_pPageSite, m_bObjectSet, m_pCamSettings, m_hwnd, m_bDirty, m_bIsInitialized, trap>>
device == <<pin, putFailed, asked>>
other == <<loading, loaded, overlapped>>
pageVars == <<page, controls, applying, registry, device, screen, other, shown, saved, edits>>

Defaults == [fps |-> DefaultRate, left |-> 0, width |-> 0, hwnd |-> NULL, bTrackDecoration |-> FALSE]

\* The values in the order in which they are saved and loaded.
Names == <<"fps", "left", "width", "hwnd", "bTrackDecoration">>

Checked(s) == [s EXCEPT !.hwnd = IF IsWindow(screen, @) THEN @ ELSE NULL]

\* The object before its constructor calls put_Settings, and after it.
NewPin == Pin(0, FALSE, NULL, Desktop, 0, 0, 0)

PageInit ==
    /\ m_pPageSite = FALSE /\ m_bObjectSet = FALSE /\ m_pCamSettings = FALSE
    /\ m_hwnd = FALSE /\ m_bDirty = FALSE /\ m_bIsInitialized = FALSE /\ trap = FALSE
    /\ controls = Defaults /\ shown = Defaults /\ applying = 0
    /\ registry = Defaults /\ saved = Defaults
    /\ screen \in Screens /\ \A w \in Windows : screen[w].exists /\ screen[w].client \in Widths
    /\ pin = Put(NewPin, Defaults, screen) /\ putFailed = FALSE /\ asked = Defaults
    /\ loading = 0 /\ loaded = Defaults /\ overlapped = FALSE
    /\ edits = 0

-----------------------------------------------------------------------------
(* The frame.  It sets the objects before it activates the page and takes  *)
(* them away after it has deactivated it.                                  *)

SetPageSite ==
    /\ m_pPageSite' = ~m_pPageSite /\ ~m_hwnd
    /\ UNCHANGED <<m_bObjectSet, m_pCamSettings, m_hwnd, m_bDirty, m_bIsInitialized, trap, controls, applying,
                   registry, device, screen, other, shown, saved, edits>>

\* The object may have no settings interface (E_NOINTERFACE): it is set all the
\* same, and the page goes by the registry alone.
OnConnect ==
    /\ ~m_hwnd /\ ~m_bObjectSet
    /\ m_bObjectSet' = TRUE
    /\ \/ m_pCamSettings' = TRUE /\ m_bIsInitialized' = FALSE
       \/ UNCHANGED <<m_pCamSettings, m_bIsInitialized>>
    /\ UNCHANGED <<m_pPageSite, m_hwnd, m_bDirty, trap, controls, applying, registry, device, screen, other,
                   shown, saved, edits>>

OnDisconnect ==
    /\ ~m_hwnd /\ m_bObjectSet
    /\ m_bObjectSet' = FALSE /\ m_pCamSettings' = FALSE
    /\ UNCHANGED <<m_pPageSite, m_hwnd, m_bDirty, m_bIsInitialized, trap, controls, applying, registry, device,
                   screen, other, shown, saved, edits>>

MayActivate == m_bObjectSet /\ ~m_hwnd

\* Filling the controls sends WM_COMMAND: the page is dirty, unless this is the
\* first time since it was connected.
OnActivate ==
    /\ MayActivate
    /\ m_hwnd' = TRUE /\ m_bIsInitialized' = TRUE
    /\ m_bDirty' = (m_bDirty \/ m_bIsInitialized)
    /\ controls' = Checked(IF m_pCamSettings THEN Get(pin) ELSE registry)
    /\ shown' = controls'
    /\ UNCHANGED <<m_pPageSite, m_bObjectSet, m_pCamSettings, trap, applying, registry, device, screen, other,
                   saved, edits>>

Deactivate ==
    /\ m_hwnd /\ applying = 0 /\ m_hwnd' = FALSE /\ trap' = FALSE
    /\ UNCHANGED <<m_pPageSite, m_bObjectSet, m_pCamSettings, m_bDirty, m_bIsInitialized, controls, applying,
                   registry, device, screen, other, shown, saved, edits>>

\* WM_COMMAND, from the user or from a control that the page changes.
Dirty_Selecting == m_bDirty \/ (m_bIsInitialized /\ trap)    \* mutated form: typing is not noticed

Dirty == m_bDirty \/ m_bIsInitialized

Edit ==
    /\ m_hwnd /\ applying = 0 /\ edits < MaxEdits /\ edits' = edits + 1
    /\ \/ \E n \in Edits, f \in {"fps", "left", "width"} : controls' = [controls EXCEPT ![f] = n]
       \/ \E b \in BOOLEAN : controls' = [controls EXCEPT !.bTrackDecoration = b]
       \/ controls' = [controls EXCEPT !.hwnd = NULL]
    /\ controls' # controls
    /\ m_bDirty' = Dirty
    /\ UNCHANGED <<m_pPageSite, m_bObjectSet, m_pCamSettings, m_hwnd, m_bIsInitialized, trap, applying, registry,
                   device, screen, other, shown, saved>>

\* The button starts the mouse trap; the timer puts the window under the mouse
\* into the dialog; a click ends it.
SelectWindow ==
    /\ m_hwnd /\ applying = 0 /\ ~trap /\ trap' = TRUE /\ m_bDirty' = Dirty
    /\ UNCHANGED <<m_pPageSite, m_bObjectSet, m_pCamSettings, m_hwnd, m_bIsInitialized, controls, applying,
                   registry, device, screen, other, shown, saved, edits>>

MouseOver ==
    /\ trap /\ applying = 0 /\ edits < MaxEdits /\ edits' = edits + 1
    /\ \E w \in Windows : screen[w].exists /\ controls' = [controls EXCEPT !.hwnd = w]
    /\ controls' # controls
    /\ m_bDirty' = Dirty
    /\ UNCHANGED <<m_pPageSite, m_bObjectSet, m_pCamSettings, m_hwnd, m_bIsInitialized, trap, applying, registry,
                   device, screen, other, shown, saved>>

Click ==
    /\ trap /\ applying = 0 /\ trap' = FALSE
    /\ UNCHANGED <<m_pPageSite, m_bObjectSet, m_pCamSettings, m_hwnd, m_bDirty, m_bIsInitialized, controls,
                   applying, registry, device, screen, other, shown, saved, edits>>

-----------------------------------------------------------------------------
(* Apply: the controls are read and corrected, saved one value at a time   *)
(* and put.                                                                *)

MayApply == m_bObjectSet /\ m_pPageSite /\ m_bDirty

Apply ==
    /\ m_hwnd /\ applying = 0 /\ MayApply
    /\ applying' = 1
    /\ controls' = Checked([controls EXCEPT !.fps = IF @ < 1 THEN 1 ELSE @])
    /\ UNCHANGED <<page, registry, device, screen, other, shown, saved, edits>>

\* The values that are written: all of them.
SavedNames == Len(Names)

SaveValue ==
    /\ applying \in 1..SavedNames
    /\ registry' = [registry EXCEPT ![Names[applying]] = controls[Names[applying]]]
    /\ applying' = applying + 1
    /\ overlapped' = (overlapped \/ loading > 0)
    /\ UNCHANGED <<page, controls, device, screen, loading, loaded, shown, saved, edits>>

\* The filter ignores what put_Settings returns; Apply succeeds.  The window may
\* grow by the odd column, or refuse to.
PutSettings ==
    /\ applying = SavedNames + 1
    /\ IF m_pCamSettings
       THEN /\ pin' = Put(pin, controls, screen) /\ putFailed' = PutFails(controls, screen)
            /\ asked' = controls
       ELSE UNCHANGED device
    /\ saved' = controls
    /\ \/ UNCHANGED screen
       \/ /\ m_pCamSettings /\ IsWindow(screen, controls.hwnd)
          /\ Extent(screen, controls.hwnd, controls.bTrackDecoration) % 2 = 1
          /\ screen' = [screen EXCEPT ![controls.hwnd].client = Word(@ + 1)]
    /\ applying' = 0 /\ m_bDirty' = FALSE /\ shown' = controls
    /\ UNCHANGED <<m_pPageSite, m_bObjectSet, m_pCamSettings, m_hwnd, m_bIsInitialized, trap, controls, registry,
                   other, edits>>

-----------------------------------------------------------------------------
(* The constructor of a pin in another process loads the same values. *)

LoadStart ==
    /\ loading = 0 /\ loading' = 1
    /\ overlapped' = (applying > 0)
    /\ UNCHANGED <<page, controls, applying, registry, device, screen, loaded, shown, saved, edits>>

LoadValue ==
    /\ loading \in 1..Len(Names)
    /\ LET name == Names[loading] IN
       loaded' = [loaded EXCEPT ![name] =
                    IF name = "hwnd" /\ ~IsWindow(screen, registry[name]) THEN NULL ELSE registry[name]]
    /\ loading' = loading + 1
    /\ UNCHANGED <<page, controls, applying, registry, device, screen, overlapped, shown, saved, edits>>

LoadEnd ==
    /\ loading = Len(Names) + 1 /\ loading' = 0 /\ loaded' = Defaults /\ overlapped' = FALSE
    /\ UNCHANGED <<page, controls, applying, registry, device, screen, shown, saved, edits>>

-----------------------------------------------------------------------------
\* A window closes or changes its size (external).
WindowChanges ==
    /\ edits < MaxEdits /\ edits' = edits + 1
    /\ \E w \in Windows :
          /\ screen[w].exists
          /\ \/ screen' = [screen EXCEPT ![w].exists = FALSE]
             \/ \E n \in Widths : screen' = [screen EXCEPT ![w].client = n]
    /\ UNCHANGED <<page, controls, applying, registry, device, other, shown, saved>>

PageNext ==
    \/ SetPageSite \/ OnConnect \/ OnDisconnect \/ OnActivate \/ Deactivate
    \/ Edit \/ SelectWindow \/ MouseOver \/ Click
    \/ Apply \/ SaveValue \/ PutSettings
    \/ LoadStart \/ LoadValue \/ LoadEnd
    \/ WindowChanges

PageSpec == PageInit /\ [][PageNext]_pageVars

-----------------------------------------------------------------------------
\* A page that says it is clean has nothing to apply: its controls are what was
\* last read from the filter or applied to it, whichever way they were changed.
NoChangeForgotten ==
    (m_hwnd /\ ~m_bDirty /\ applying = 0) => controls = shown

\* After a put_Settings that succeeded the pin captures through the right device
\* context, inside the screen, and get_Settings says what would configure it
\* the same way again.
PinConsistent ==
    ~putFailed =>
       /\ DcMatches(pin)
       /\ (pin.m_hwndToTrack = NULL /\ NoWrap(asked)) => InScreen(pin)
       /\ RoundTrip(pin, screen)

\* A pin that is created while nobody saves starts with the settings that were
\* last applied, except for a window that is gone.
LoadedAsSaved ==
    (loading = Len(Names) + 1 /\ ~overlapped) =>
       /\ \A f \in {"fps", "left", "width", "bTrackDecoration"} : loaded[f] = saved[f]
       /\ loaded.hwnd \in {saved.hwnd, NULL}
       /\ IsWindow(screen, saved.hwnd) => loaded.hwnd = saved.hwnd

\* What a user changed is not lost on its way to the registry and back.
SettingsKept == NoChangeForgotten /\ LoadedAsSaved
=============================================================================
